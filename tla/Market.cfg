\* Two own offers beside one of somebody else's; one caller, two sweeps.
CONSTANTS
    None = None
    Callers = {c1}
    Sweepers = {s1, s2}
    Listed = 3
    Expiries = {1, 2}
    Horizon = 1
    SweepInterval = 1
    MaxOffers = 3
    MaxClock = 2
    MaxCalls = 2
    MaxFaults = 1
SPECIFICATION FairSpec
INVARIANTS CallersToldTruly NoListingForgotten
PROPERTIES SweepKeepsOut ExpiredComesHome
CHECK_DEADLOCK FALSE
