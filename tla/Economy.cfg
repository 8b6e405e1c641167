\* Three calls of a game over ten recipes and four tables; three top-ups at a
\* rate that does not divide; two scans of three assets through one slot.
CONSTANTS
    None = None
    p1 = p1
    p2 = p2
    c1 = c1
    c2 = c2
    c3 = c3
    a1 = a1
    a2 = a2
    a3 = a3
    Players = {p1, p2}
    Calls = {c1, c2, c3}
    Offers = {o0, o1, o2}
    MaxFaults = 1
    Untold = None
    Payments <- MCPayments
    Rate <- MCRate
    KeiDecimals = 1
    TokenDecimals = 1
    Minimum = 1
    TokenCap = 26
    Opening = 1
    Drain = 4
    MaxMishaps = 1
    Things = {a1, a2, a3}
    Lists <- MCLists
    Scans = {c1, c2}
    CacheLimit = 2
    Concurrency = 1
    MaxFailures = 1
    Recipes <- MCRecipes
    Scripts <- MCScripts
    Shown <- MCShown
SPECIFICATION GameSpec
INVARIANTS RecipesTrue AwardsTrue BatchesTrue PlayersServed
CHECK_DEADLOCK FALSE
