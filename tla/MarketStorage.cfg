\* Two callers of a store that holds one row of each table, and two offers.
CONSTANTS
    None = None
    Callers = {c1, c2}
    Jobs <- AllJobs
    MaxAttempts = 2
    MaxObservations = 1
    MaxOffers = 2
    MaxCheckpoints = 1
    MaxQuarantine = 1
    MaxSources = 1
    MaxCalls = 3
    MaxStops = 1
    MaxClears = 1
ACTION_CONSTRAINT LongReads
SYMMETRY Alike
SPECIFICATION Spec
INVARIANTS StoreKeepsItsWord
PROPERTIES ImplementsAtomic NothingTakenBack
CHECK_DEADLOCK FALSE
