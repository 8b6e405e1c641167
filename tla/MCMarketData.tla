----------------------------- MODULE MCMarketData -----------------------------
(***************************************************************************)
(* The reading half of the market for TLC, one part of it at a time: books *)
(* and reconciliations, prices and charts, or the ingestor.  `part` is     *)
(* chosen once; what belongs to the other parts stays as it began.         *)
(***************************************************************************)
EXTENDS Ingestor, MarketBooks

CONSTANTS a1, a2, junk

VARIABLES part, settled, chain, asked, unread

charts == <<settled, chain, asked, unread>>

-----------------------------------------------------------------------------
(* Books: three accounts for a directory of one. *)
Offered(author, give, amount, for, wantAmount, to, expires) ==
    [author |-> author, give |-> give, amount |-> amount, want |-> for,
     wantAmount |-> wantAmount, to |-> to, expires |-> expires]

\* Two asks for one asset, a bid, an offer of it for something else, and an ask
\* for another asset whose raw numbers are larger and whose price is lower.
OneLot == <<Offered(a1, "gem", 1, "kei", 3, Blank, FALSE),
            Offered(a2, "gem", 10, "kei", 20, a1, TRUE),
            Offered(a1, "kei", 1, "gem", 10, Blank, FALSE),
            Offered(Wallet, "gem", 1, "ore", 1, Blank, FALSE),
            Offered(a1, "ore", 10, "kei", 100, Blank, FALSE)>>

OneRound == {a1, a2, Wallet}

SomeDigits == [gem |-> 1, kei |-> 0, ore |-> 0]

OneRoster == {<<a1, junk, a2, a1>>}

OneAsks == {[asset |-> "gem", expired |-> FALSE, mine |-> TRUE, limit |-> 2],
            [asset |-> Blank, expired |-> TRUE, mine |-> FALSE, limit |-> 4]}

Entry(hash, shown) == [hash |-> hash, shown |-> shown]

OneSnapshot == {<<Entry(2, "open"), Entry(9, Blank), Entry(1, Blank), Entry(2, Blank)>>}

-----------------------------------------------------------------------------
(* Prices and charts. *)
Swap(seller, buyer, give, amount, for, wantAmount, settledAt, seenAt) ==
    [seller |-> seller, buyer |-> buyer, give |-> give, amount |-> amount,
     want |-> for, wantAmount |-> wantAmount, settledAt |-> settledAt, seenAt |-> seenAt]

\* Asks and bids, two of one millisecond, one with an estimated time, one
\* without any, one of another pair; two whose totals are one raw unit apart,
\* which is one price in doubles of five digits.
SomeTrades ==
    <<Swap(a1, Wallet, "gem", 2, "kei", 6, 5, 1),
      Swap(Wallet, a1, "gem", 1, "kei", 2, 3, 2),
      Swap(a2, a1, "kei", 33, "gem", 20, 3, 2),
      Swap(a1, a2, "gem", 1, "kei", 7, Blank, 2),
      Swap(a1, Wallet, "gem", 3, "kei", 3, Blank, Blank),
      Swap(Wallet, a2, "gem", 1, "ore", 3, 4, 4),
      Swap(a2, a1, "kei", 32, "gem", 20, 11, 9)>>

Query(accounts, limit, from, to, window, last, every, fill, budget) ==
    [accounts |-> accounts, limit |-> limit, from |-> from, to |-> to,
     window |-> window, last |-> last, every |-> every, fill |-> fill, budget |-> budget]

SomeQueries ==
    {Query(Blank, 9, Blank, Blank, Blank, Blank, 2, TRUE, 9),
     Query(Blank, 2, Blank, Blank, Blank, Blank, 3, FALSE, 9),
     Query({a1, a2}, 9, Blank, Blank, Blank, 3, 1, TRUE, 9),
     Query({a1, a2, Wallet}, 9, Blank, Blank, Blank, Blank, 2, TRUE, 4),
     Query({a1, a2, Wallet}, 9, Blank, 6, 4, Blank, 2, TRUE, 9),
     Query({a1, Wallet}, 9, 3, Blank, Blank, 2, 1, FALSE, 9),
     Query({a1, Wallet}, 9, 13, Blank, Blank, 2, 1, FALSE, 9)}

Charts == INSTANCE MarketHistory WITH
    None <- Blank, Me <- Wallet,
    Trades <- SomeTrades, Asset <- "gem", Quote <- "kei", Decimals <- SomeDigits,
    Now <- 12, Queries <- SomeQueries, Precision <- 5, MaxBlocks <- 1

-----------------------------------------------------------------------------
(* The ingestor: accounts of one, two, two and one rows; the third is bulky. *)
Windows == <<1, 2, 2, 1>>

-----------------------------------------------------------------------------
DataInit ==
    /\ part \in {"books", "charts", "ingest"}
    /\ Books!Init
    /\ Charts!Init
    /\ part # "charts" => asked = CHOOSE q \in SomeQueries : q.limit = 2
    /\ IngestInit

DataNext ==
    \/ part = "books" /\ Books!Next /\ UNCHANGED <<part, charts, ingestVars>>
    \/ part = "charts" /\ Charts!Next /\ UNCHANGED <<part, readerVars, ingestVars>>
    \/ part = "ingest" /\ IngestNext /\ UNCHANGED <<part, readerVars, charts>>

DataSpec == DataInit /\ [][DataNext]_<<part, readerVars, charts, ingestVars>>

\* Series, ticker, line and candles are those of the trades the question names.
ChartsTrue == part = "charts" => Charts!ChartsAreTrue
=============================================================================
