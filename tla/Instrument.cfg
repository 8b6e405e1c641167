\* Three orders, one subscription, one fault, a clock of two times.
CONSTANTS
    None = None
    Me = Me
    a1 = a1
    s1 = s1
    Accounts = {Me, a1}
    Orders <- SomeOrders
    BaseDecimals = 1
    QuoteDecimals = 1
    MaxRaw = 1000
    Untimed = {2}
    Levels <- SomeLevels
    Subscribers = {s1}
    Options <- SomeOptions
    Times = {0, 2}
    MaxFaults = 1
SPECIFICATION Spec
INVARIANTS OrdersServed
PROPERTIES ToldTruly KeepsPolling
CHECK_DEADLOCK FALSE
