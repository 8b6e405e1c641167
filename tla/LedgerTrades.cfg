\* Two players hold gold, one of them Kei, and gem can be minted, under every
\* pair of policies and with room for one token per account: transfers, swaps,
\* receipts and burns, with accepts and cancels racing.
CONSTANTS
    issuer = issuer
    alice = alice
    bob = bob
    gold = gold
    gem = gem
    Accounts = {issuer, alice, bob}
    Reserve = {}
    Genesis <- TradeGenesis
    Issuers = {issuer}
    Symbols = {gold, gem}
    Kei = Kei
    None = None
    Roots = {}
    Entitled <- NoLeaves
    Policies = {"open", "issuer-only", "none"}
    MaxSupplies = {None}
    Amounts = {1}
    Kinds = {"send", "change", "receive", "mint", "burn", "transfer", "asset_receive", "swap_offer", "swap_accept", "swap_cancel"}
    MaxHeight <- TradeHeight
    MaxAssets = 1
SPECIFICATION SpecOneEach
INVARIANTS Conserved IndexesAgree AssetLimit PolicyRespected
PROPERTIES SettledOnce ImplementsExchange
CHECK_DEADLOCK FALSE
