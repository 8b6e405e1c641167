----------------------------- MODULE MarketBooks -----------------------------
(***************************************************************************)
(* The books and reconciliations of MarketReads, for any market, any       *)
(* directory and any questions, under names of their own: they are checked *)
(* beside the ingestor, and proved about beside an instrument.             *)
(***************************************************************************)
EXTENDS Integers, FiniteSets, Sequences

CONSTANTS
    Blank,          \* no answer, account, asset or time
    Wallet,         \* the wallet's own account
    Traders, Lot, Digits, Unit, Rosters, Shots, Asks, Watchable, LanesAtOnce,
    MaxBooks, MaxNews, MaxMisses    \* bounds of a run

VARIABLES
    watched, pushedOut, heardOf, fate, overdue, doing, want, items, upcoming,
    lane, results, reach, calledOff, reply, joined, unlisted, seenOpen, books,
    news, misses

Books == INSTANCE MarketReads WITH
    None <- Blank, Me <- Wallet, Accounts <- Traders, Places <- Digits,
    Quote <- Unit, Snapshots <- Shots, DirectoryLimit <- Watchable,
    Concurrency <- LanesAtOnce, MaxReads <- MaxBooks, MaxFaults <- MaxMisses,
    held <- watched, dropped <- pushedOut, announced <- heardOf, state <- fate,
    late <- overdue, stage <- doing, next <- upcoming, out <- results,
    coverage <- reach, aborted <- calledOff, answer <- reply, kept <- joined,
    owed <- unlisted, reads <- books, faults <- misses

\* What the code's options and the ledger's offers allow (directoryLimitOf,
\* limitOf, and the amounts of an offer, which are positive).
ASSUME BooksAssumption == Books!ReadsAssumption

readerVars == <<watched, pushedOut, heardOf, fate, overdue, doing, want, items,
                upcoming, lane, results, reach, calledOff, reply, joined, unlisted,
                seenOpen, books, news, misses>>

BooksSpec == Books!Init /\ [][Books!Next]_readerVars

\* What a book and a reconciliation say of the market and of their own coverage.
BooksTrue == Books!BooksAreTrue
=============================================================================
