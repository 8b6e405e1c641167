SPECIFICATION Spec
CONSTANTS
    Roots = {r1, r2}
    Tabs = {t1, t2}
    Calls = {c1, c2}
    PerTab = 1
    Capped = {r2}
    Deliveries <- OneByOne
    AutoClaim = TRUE
    MaxPending = 1
    MaxFaults = 1
ACTION_CONSTRAINT FullAlone
SYMMETRY Alike
INVARIANTS ProofsAreSafe
PROPERTIES NothingLost
