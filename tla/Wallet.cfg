\* A client over HTTP that loses one call, the same in process, each beside a
\* second client of the seed, and a page that claims from two drops.
CONSTANTS
    r1 = r1
    r2 = r2
    p1 = p1
    d1 = d1
    d2 = d2
    t1 = t1
    c1 = c1
    Receivables = {r1, r2}
    Assets = {r2}
    Payments = {p1}
    Opening = 1
    Transports = {"http", "in process"}
    MaxRounds = 2
    MaxFaults = 1
SPECIFICATION WalletSpec
INVARIANTS ToldTruly NoSelfFork
PROPERTIES CallersAnswered EveryArrivalCollected PaidInTheEnd
CHECK_DEADLOCK FALSE
