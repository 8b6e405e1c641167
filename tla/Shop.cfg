SPECIFICATION Spec
CONSTANTS
    None = None
    c1 = c1
    c2 = c2
    c3 = c3
    l1 = l1
    l2 = l2
    f1 = f1
    Calls <- MCCalls
    Lots = {l1}
    Foreign = {f1}
    Terms <- MCTerms
    Listings <- MCListings
    Gifts <- MCGifts
    Shown = {1, 2}
    Scripts <- MCScripts
    Purse <- MCPurse
    MaxFaults = 1
INVARIANTS DebtsAreTrue DeparturesTold
PROPERTIES PurseIsTrue
CHECK_DEADLOCK FALSE
