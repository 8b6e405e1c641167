\* Books over three accounts, a directory of one, two lanes and five offers;
\* seven swaps of three accounts and seven questions; a catalog with room for
\* three of four accounts, so that announcements are folded and evicted, read
\* by calls of at most two accounts, three rows and two pages.
CONSTANTS
    Blank = Blank
    a1 = a1
    a2 = a2
    Wallet = Wallet
    junk = junk
    Traders <- OneRound
    Lot <- OneLot
    Digits <- SomeDigits
    Unit = "kei"
    Rosters <- OneRoster
    Shots <- OneSnapshot
    Asks <- OneAsks
    Watchable = 1
    LanesAtOnce = 2
    MaxBooks = 2
    MaxNews = 2
    MaxMisses = 1
    Absent = Absent
    Accounts = {1, 2, 3, 4}
    Window <- Windows
    Bulky = {3}
    MaxAccounts = 2
    MaxRequests = 3
    PerRequest = 2
    MaxResultRows = 3
    MaxScanned = 4
    MaxBytes = 4
    MaxPages = 2
    MaxIngests = 2
    MaxFaults = 1
    MaxAnnouncements = 4
    MaxObservations = 3
    MaxOffers = 10
    MaxCheckpoints = 2
    MaxQuarantine = 1
    MaxSources = 1
SPECIFICATION DataSpec
INVARIANTS BooksTrue ChartsTrue IngestKeepsItsWord
CHECK_DEADLOCK FALSE
