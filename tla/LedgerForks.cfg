\* Two calls of one account may overlap too: two clients of one seed, or a call
\* over HTTP that is sent again.
CONSTANTS
    issuer = issuer
    alice = alice
    gold = gold
    dropA = dropA
    dropB = dropB
    Accounts = {issuer, alice}
    Reserve = {}
    Genesis <- SmallGenesis
    Issuers = {issuer}
    Symbols = {gold}
    Kei = Kei
    None = None
    Roots = {dropA, dropB}
    Entitled <- SmallLeaves
    Policies = {"open"}
    MaxSupplies = {2}
    Amounts = {1, 2}
    Kinds = {"send", "receive", "issue", "mint", "burn", "commit", "commit_close", "claim", "asset_receive"}
    MaxHeight <- SmallHeight
    MaxAssets = 1
    Calls = {1, 2}
    Serialised = FALSE
SPECIFICATION ProcessSpec
INVARIANTS OneChain
CHECK_DEADLOCK FALSE
