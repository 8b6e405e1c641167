\* Every account driven by one KeiClient, from the genesis blocks: calls of
\* different accounts overlap.
CONSTANTS
    issuer = issuer
    alice = alice
    gold = gold
    dropA = dropA
    dropB = dropB
    Accounts = {issuer, alice}
    Reserve = {}
    Genesis <- SmallGenesis
    Issuers = {issuer}
    Symbols = {gold}
    Kei = Kei
    None = None
    Roots = {dropA, dropB}
    Entitled <- SmallLeaves
    Policies = {"open"}
    MaxSupplies = {2}
    Amounts = {1, 2}
    Kinds = {"send", "receive", "issue", "mint", "burn", "commit", "commit_close", "claim", "asset_receive"}
    MaxHeight <- SmallHeight
    MaxAssets = 1
    Calls = {1, 2}
    Serialised = TRUE
SPECIFICATION ProcessSpec
INVARIANTS WellKept SupplyCapped
PROPERTIES ReceivablesReachTheirOwner CreatedOnlyByMintOrClaim DropsAreFinal ImplementsLedger
CHECK_DEADLOCK FALSE
