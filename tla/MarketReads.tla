------------------------------ MODULE MarketReads ------------------------------
(***************************************************************************)
(* The reads of packages/market: a directory of announced accounts         *)
(* (directory.ts), the concurrent walk over their chains and what it says  *)
(* of its own coverage (walk.ts), the order book made of it (book.ts) and  *)
(* the reconciliation of offers shown earlier (lifecycle.ts).              *)
(*                                                                         *)
(* Accounts are announced and forgotten, offers settle and time passes     *)
(* while the lanes of a read are under way.  What an offer says never      *)
(* changes and is the constant Lot; only its state does.                   *)
(***************************************************************************)
EXTENDS MarketCoverage, Decimals

CONSTANTS
    None,
    Me,                 \* the wallet's own account
    Accounts,           \* the accounts there are
    Lot,                \* the offers: a sequence, by their hashes
    Places,             \* the decimals of each asset
    Quote,              \* what a book is priced in
    Rosters,            \* the lists of entries a caller may name instead
    Snapshots,          \* what a caller may reconcile: hashes and shown states
    Asks,               \* the options a caller may give: asset (or None), expired,
                        \* mine, limit
    DirectoryLimit, Concurrency,
    MaxReads, MaxNews, MaxFaults     \* bounds of a run

Hashes == DOMAIN Lot

States == {"open", "accepted", "cancelled"}

\* What is read of one account.
Results == [ok : BOOLEAN, rows : SUBSET Hashes]

IsList(list) == Len(list) \in Nat /\ DOMAIN list = 1..Len(list)

\* What the code's options and the ledger's offers allow; assumed where the
\* module is instantiated.
ReadsAssumption ==
    /\ IsList(Lot) /\ Quote \in DOMAIN Places
    /\ \A h \in Hashes :
         /\ Lot[h].author \in Accounts
         /\ Lot[h].amount \in Nat \ {0} /\ Lot[h].wantAmount \in Nat \ {0}
         /\ {Lot[h].give, Lot[h].want} \subseteq DOMAIN Places
    /\ \A asset \in DOMAIN Places : Places[asset] \in Nat
    /\ \A roster \in Rosters : IsList(roster)
    /\ \A snapshot \in Snapshots : IsList(snapshot)
    /\ \A o \in Asks : o.limit \in Nat \ {0} /\ o.asset # Quote
    /\ DirectoryLimit \in Nat \ {0} /\ Concurrency \in Nat \ {0}
    /\ None \notin States \cup {"missing", "failed", "offer"}
    /\ None \notin Results /\ None \notin Rosters

Lanes == 1..Concurrency

VARIABLES
    held, dropped,      \* the directory: oldest first
    announced,          \* history: announced and not forgotten since
    state,              \* of each offer
    late,               \* the expiries have passed
    stage,              \* where the read stands
    want,               \* what was asked
    items, next, lane, out,     \* the concurrent part of a stage
    coverage,           \* of the walk
    aborted,
    answer,             \* what the caller was given
    kept,               \* the coverages of the reads, merged by the caller
    owed,               \* history: what a complete book has to list
    seenOpen,           \* history: was open at some time of the read
    reads, news, faults

directory == <<held, dropped, announced>>
chain == <<state, late>>
lanes == <<items, next, lane, out>>
history == <<owed, seenOpen>>
bounds == <<reads, news, faults>>
vars == <<directory, chain, stage, want, lanes, coverage, aborted, answer, kept,
          history, bounds>>

-----------------------------------------------------------------------------
(***************************************************************************)
(* Lists.                                                                  *)
(***************************************************************************)
\* The members of a finite set, in the order its pairs say.
Sorted(set, before) ==
    [i \in 1..Cardinality(set) |->
        CHOOSE x \in set : Cardinality({y \in set : <<y, x>> \in before}) = i - 1]

Rising(set) == Sorted(set, {p \in set \X set : p[1] < p[2]})

\* What a list has at some of its places, in the order of the list.
At(list, places) ==
    LET order == Rising(places) IN [k \in DOMAIN order |-> list[order[k]]]

-----------------------------------------------------------------------------
(***************************************************************************)
(* The book of what a walk brought.                                        *)
(***************************************************************************)
Open(h) == state[h] = "open"

Expires(h) == Lot[h].expires

Expired(h) == late /\ Expires(h)

Sells(h) == Lot[h].want = Quote

Buys(h) == Lot[h].give = Quote

\* Of one asset: what is sold or bought of it, for the quote or anything else.
Belongs(h, asset) ==
    IF asset = None THEN Sells(h) \/ Buys(h)
                    ELSE asset \in {Lot[h].give, Lot[h].want}

\* Quote for one base, as a fraction of raw amounts brought to one scale.
Scaled(quoteRaw, baseRaw, base) ==
    [num |-> quoteRaw * Tens[Places[base]], den |-> baseRaw * Tens[Places[Quote]]]

Price(h) ==
    IF Sells(h) THEN Scaled(Lot[h].wantAmount, Lot[h].amount, Lot[h].give)
                ELSE Scaled(Lot[h].amount, Lot[h].wantAmount, Lot[h].want)

Compare(p, q) == p.num * q.den - q.num * p.den

Ascending(g, h) ==
    LET by == Compare(Price(g), Price(h)) IN by < 0 \/ (by = 0 /\ g < h)

Descending(g, h) ==
    LET by == Compare(Price(h), Price(g)) IN by < 0 \/ (by = 0 /\ g < h)

Shown(h) == (Expired(h) => want.expired) /\ (Lot[h].author = Me => want.mine)

Book(rows) ==
    LET shown == {h \in rows : Shown(h)}
        asks == {h \in shown : Sells(h)}
        bids == {h \in shown : Buys(h)}
    IN  [kind |-> "book",
         asks |-> Sorted(asks, {p \in asks \X asks : Ascending(p[1], p[2])}),
         bids |-> Sorted(bids, {p \in bids \X bids : Descending(p[1], p[2])}),
         other |-> {h \in shown : ~Sells(h) /\ ~Buys(h)}]

-----------------------------------------------------------------------------
(***************************************************************************)
(* The life of an offer, and the reconciliation of what was shown.         *)
(***************************************************************************)
Classify(s, h) ==
    IF s = "accepted" THEN "taken"
    ELSE IF s = "cancelled" THEN "cancelled"
    ELSE IF Lot[h].to \notin {None, Me} /\ Lot[h].author # Me THEN "reserved"
    ELSE IF Expired(h) THEN "stale" ELSE "live"

\* The hashes of a snapshot, each once, where it stands first.
Entries(snapshot) ==
    At(snapshot, {i \in DOMAIN snapshot :
                    \A j \in 1..(i - 1) : snapshot[j].hash # snapshot[i].hash})

\* answers: the state an offer was in, "missing" or "failed".
Reconciliation(entries, answers) ==
    LET life(i) == Classify(answers[i], entries[i].hash)
        was(i) == IF entries[i].shown = None THEN None
                  ELSE Classify(entries[i].shown, entries[i].hash)
        read == {i \in DOMAIN entries : answers[i] \notin {"missing", "failed"}}
        hashes(places) == {entries[i].hash : i \in places}
    IN  [kind |-> "reconciliation",
         live |-> hashes({i \in read : life(i) \in {"live", "reserved"}}),
         stale |-> hashes({i \in read : life(i) = "stale"}),
         gone |-> hashes({i \in read : life(i) \in {"taken", "cancelled"}}),
         changed |-> hashes({i \in read : was(i) # life(i)}),
         unknown |-> hashes({i \in DOMAIN entries : answers[i] = "missing"}),
         failed |-> hashes({i \in DOMAIN entries : answers[i] = "failed"})]

-----------------------------------------------------------------------------
(***************************************************************************)
(* The directory.                                                          *)
(***************************************************************************)
News ==
    /\ news < MaxNews
    /\ news' = news + 1
    /\ UNCHANGED <<stage, want, lanes, coverage, aborted, answer, kept, reads, faults>>

\* The directory with an account taken out.
Without(a) == At(held, {i \in DOMAIN held : held[i] # a})

\* Announced again, an account counts as new; the oldest makes room.
Watch(a) ==
    LET all == Append(Without(a), a)
        excess == IF Len(all) > DirectoryLimit THEN Len(all) - DirectoryLimit ELSE 0
    IN  /\ held' = SubSeq(all, excess + 1, Len(all))
        /\ dropped' = dropped + excess

Announce(a) ==
    /\ News
    /\ Watch(a)
    /\ announced' = announced \cup {a}
    /\ UNCHANGED <<chain, history>>

By(accounts) == {h \in Hashes : Lot[h].author \in accounts}

\* Nothing is owed of whom the directory was told to forget in time.
Unowed(accounts) ==
    owed' = IF stage = "roster" THEN owed \ By(accounts) ELSE owed

Forget(a) ==
    /\ News
    /\ held' = Without(a)
    /\ announced' = announced \ {a}
    /\ Unowed({a})
    /\ UNCHANGED <<dropped, chain, seenOpen>>

Clear ==
    /\ News
    /\ held' = <<>>
    /\ announced' = {}
    /\ Unowed(announced)
    /\ UNCHANGED <<dropped, chain, seenOpen>>

-----------------------------------------------------------------------------
(***************************************************************************)
(* The ledger meanwhile.                                                   *)
(***************************************************************************)
Settle(h, s) ==
    /\ Open(h)
    /\ News
    /\ state' = [state EXCEPT ![h] = s]
    /\ owed' = owed \ {h}
    /\ UNCHANGED <<directory, late, seenOpen>>

Pass ==
    /\ ~late
    /\ News
    /\ late' = TRUE
    /\ owed' = {h \in owed : want.expired \/ ~Expires(h)}
    /\ UNCHANGED <<directory, state, seenOpen>>

-----------------------------------------------------------------------------
(***************************************************************************)
(* The lanes: mapConcurrent.                                               *)
(***************************************************************************)
Pending == stage \in {"roster", "walk", "convert", "reconcile"}

Quiet == \A l \in Lanes : lane[l] = 0

\* Every lane takes its first item at once.
Launch(list) ==
    LET n == IF Concurrency < Len(list) THEN Concurrency ELSE Len(list)
    IN  /\ items' = list
        /\ lane' = [l \in Lanes |-> IF l <= n THEN l ELSE 0]
        /\ next' = n + 1
        /\ out' = [i \in DOMAIN list |-> None]

Takes(l) == IF next <= Len(items) /\ ~aborted THEN next ELSE 0

Answers(l, value) ==
    /\ lane[l] # 0
    /\ out' = [out EXCEPT ![lane[l]] = value]
    /\ lane' = [lane EXCEPT ![l] = Takes(l)]
    /\ next' = next + 1
    /\ UNCHANGED <<directory, chain, want, items, coverage, aborted, answer,
                   kept, history, reads, news>>

\* A read that has ended keeps nothing.
Rest == items' = <<>> /\ next' = 1 /\ out' = <<>> /\ UNCHANGED lane

Fault == faults < MaxFaults /\ faults' = faults + 1

Working(now) == stage = now \/ (stage = "rejected" /\ want.stage = now)

-----------------------------------------------------------------------------
(***************************************************************************)
(* A walk over accounts.                                                   *)
(***************************************************************************)
\* How a read begins: with the directory or a list, or with a snapshot.
Begin(asked) ==
    /\ ~Pending /\ Quiet
    /\ reads < MaxReads
    /\ reads' = reads + 1
    /\ want' = asked
    /\ aborted' = FALSE
    /\ answer' = None
    /\ seenOpen' = {h \in Hashes : Open(h)}
    /\ UNCHANGED <<directory, chain, kept, news, faults>>

Named(roster) == {a \in Accounts : \E i \in DOMAIN roster : roster[i] = a}

ReadBook(source, options) ==
    /\ Begin([asset |-> options.asset, expired |-> options.expired, mine |-> options.mine,
              limit |-> options.limit, stage |-> "walk", source |-> source,
              lost |-> dropped])
    /\ stage' = "roster"
    /\ Rest
    /\ coverage' = None
    /\ owed' = {h \in By(IF source = None THEN announced ELSE Named(source)) :
                  /\ Open(h) /\ Belongs(h, options.asset)
                  /\ Expired(h) => options.expired
                  /\ Lot[h].author = Me => options.mine}

\* What is no address is skipped, and an address is walked once.
Walkable(entries) ==
    At(entries, {i \in DOMAIN entries :
                    /\ entries[i] \in Accounts
                    /\ \A j \in 1..(i - 1) : entries[j] # entries[i]})

Skipped(entries) == {entries[i] : i \in DOMAIN entries} \ Accounts

\* Mutant: the count of the dropped as it was when the read began.
DroppedOfBegin == IF want.source = None THEN want.lost ELSE 0

\* directoryDropped(): read after the roster.
Dropped == IF want.source = None THEN dropped ELSE 0

Roster ==
    /\ stage = "roster"
    /\ LET entries == IF want.source = None THEN held ELSE want.source
           list == Walkable(entries)
       IN  /\ Launch(list)
           /\ coverage' = Coverage(Len(list), <<>>, {}, Dropped, Skipped(entries))
    /\ stage' = "walk"
    /\ UNCHANGED <<directory, chain, want, aborted, answer, kept, history, bounds>>

\* accountSwaps of one account: its newest open offers.
ReadChain(l) ==
    /\ Working("walk")
    /\ LET own == {h \in By({items[lane[l]]}) : Open(h)}
       IN  Answers(l, [ok |-> TRUE,
               rows |-> {h \in own : Cardinality({i \in own : i > h}) < want.limit}])
    /\ UNCHANGED <<stage, faults>>

\* An account that cannot be read is a gap, and the walk goes on.
MissChain(l) ==
    /\ Working("walk")
    /\ Fault
    /\ Answers(l, [ok |-> FALSE, rows |-> {}])
    /\ UNCHANGED stage

Full(rows) == Cardinality(rows) >= want.limit

\* The answers, in the order of the accounts, and the rows to convert.
EndWalk ==
    /\ stage = "walk" /\ Quiet
    /\ LET lost == {i \in DOMAIN items : ~out[i].ok}
           rows == UNION {out[i].rows : i \in DOMAIN items \ lost}
           list == {h \in rows : Belongs(h, want.asset)}
       IN  /\ coverage' = Coverage(coverage.asked,
                            [a \in {items[i] : i \in lost} |-> {"unread"}],
                            {items[i] : i \in {j \in DOMAIN items \ lost : Full(out[j].rows)}},
                            coverage.dropped, coverage.skipped)
           /\ Launch(Rising(list))
    /\ want' = [want EXCEPT !.stage = "convert"]
    /\ stage' = "convert"
    /\ UNCHANGED <<directory, chain, aborted, answer, kept, history, bounds>>

\* toOffer: the metadata of both assets.
Convert(l) ==
    /\ Working("convert")
    /\ Answers(l, "offer")
    /\ UNCHANGED <<stage, faults>>

\* One row that cannot be converted rejects the read; the other lanes go on.
ConvertFails(l) ==
    /\ Working("convert")
    /\ Fault
    /\ lane[l] # 0
    /\ lane' = [lane EXCEPT ![l] = 0]
    /\ stage' = "rejected"
    /\ UNCHANGED <<directory, chain, want, items, next, out, coverage, aborted,
                   answer, kept, history, reads, news>>

\* The book, and its coverage put to what the caller has of the same scope.
EndBook ==
    /\ stage = "convert" /\ Quiet
    /\ answer' = Book({items[i] : i \in DOMAIN items})
    /\ kept' = IF kept = None THEN coverage
               ELSE IF Mergeable(kept, coverage) THEN Merge(kept, coverage)
               ELSE kept
    /\ stage' = "done"
    /\ Rest
    /\ UNCHANGED <<directory, chain, want, coverage, aborted, history, bounds>>

-----------------------------------------------------------------------------
(***************************************************************************)
(* The reconciliation of a snapshot.                                       *)
(***************************************************************************)
Reconcile(snapshot) ==
    /\ Begin([stage |-> "reconcile", source |-> snapshot])
    /\ stage' = "reconcile"
    /\ Launch(Entries(snapshot))
    /\ coverage' = None
    /\ owed' = {}

Found(entry) == IF entry.hash \notin Hashes THEN "missing" ELSE state[entry.hash]

ReadOffer(l) ==
    /\ Working("reconcile")
    /\ lane[l] # 0
    /\ Answers(l, Found(items[lane[l]]))
    /\ UNCHANGED <<stage, faults>>

MissOffer(l) ==
    /\ Working("reconcile")
    /\ Fault
    /\ Answers(l, "failed")
    /\ UNCHANGED stage

EndReconcile ==
    /\ stage = "reconcile" /\ Quiet
    /\ answer' = Reconciliation(items, out)
    /\ stage' = "done"
    /\ Rest
    /\ UNCHANGED <<directory, chain, want, coverage, aborted, kept, history, bounds>>

\* The caller's signal: the read is rejected at once, its lanes start nothing.
Abort ==
    /\ Pending
    /\ aborted' = TRUE
    /\ stage' = "rejected"
    /\ UNCHANGED <<directory, chain, want, lanes, coverage, answer, kept, history, bounds>>

-----------------------------------------------------------------------------
Init ==
    /\ held = <<>> /\ dropped = 0 /\ announced = {}
    /\ state = [h \in Hashes |-> "open"] /\ late = FALSE
    /\ stage = "done" /\ want = [stage |-> "none"]
    /\ items = <<>> /\ next = 1 /\ lane = [l \in Lanes |-> 0] /\ out = <<>>
    /\ coverage = None /\ aborted = FALSE /\ answer = None /\ kept = None
    /\ owed = {} /\ seenOpen = {}
    /\ reads = 0 /\ news = 0 /\ faults = 0

Progress ==
    \/ Roster \/ EndWalk \/ EndBook \/ EndReconcile
    \/ \E l \in Lanes : ReadChain(l) \/ Convert(l) \/ ReadOffer(l)

Next ==
    \/ \E a \in Accounts : Announce(a) \/ Forget(a)
    \/ Clear
    \/ \E h \in Hashes, s \in {"accepted", "cancelled"} : Settle(h, s)
    \/ Pass
    \/ \E source \in Rosters \cup {None}, options \in Asks : ReadBook(source, options)
    \/ \E snapshot \in Snapshots : Reconcile(snapshot)
    \/ Progress
    \/ \E l \in Lanes : MissChain(l) \/ ConvertFails(l) \/ MissOffer(l)
    \/ Abort

Spec == Init /\ [][Next]_vars

-----------------------------------------------------------------------------
(***************************************************************************)
(* Properties.                                                             *)
(***************************************************************************)
Bag(s) == {s[i] : i \in DOMAIN s}

\* Types, with the lanes of one stage always on different items, so that no
\* chain is read twice and none is left out (mapConcurrentWith).
TypeOK ==
    /\ Bag(held) \subseteq announced /\ Len(held) <= DirectoryLimit
    /\ Cardinality(Bag(held)) = Len(held)
    /\ \A k, l \in Lanes : lane[k] # 0 /\ k # l => lane[k] # lane[l]
    /\ \A l \in Lanes : lane[l] \in 0..Len(items)
    /\ Pending /\ Quiet => None \notin Bag(out)
    /\ owed \subseteq Hashes /\ seenOpen \subseteq Hashes

Listed == Bag(answer.asks) \cup Bag(answer.bids) \cup answer.other

\* A book whose coverage says it is complete lists every offer of the accounts
\* asked for that was open all the while, whoever was announced, pushed out of
\* the directory or forgotten meanwhile; and no book lists an offer that was
\* not open during the read (walkAccounts, readBook).
CompleteMeansComplete ==
    stage = "done" /\ answer # None /\ answer.kind = "book" =>
        /\ coverage.complete => owed \subseteq Listed
        /\ Listed \subseteq seenOpen

\* The best ask is as cheap as any, the best bid pays as much as any, in units
\* of one base: compared here through a common denominator (compareRankedLevels).
Worth(h) ==
    IF Sells(h) THEN [quote |-> Lot[h].wantAmount, base |-> Lot[h].amount, of |-> Lot[h].give]
                ELSE [quote |-> Lot[h].amount, base |-> Lot[h].wantAmount, of |-> Lot[h].want]

\* What one offer's base costs at its price, in the smallest units of all.
Cost(h, of) == Worth(h).quote * Worth(of).base * Tens[Places[Worth(h).of]]

BestIsBest ==
    stage = "done" /\ answer # None /\ answer.kind = "book" =>
        /\ \A i \in DOMAIN answer.asks :
             Cost(answer.asks[1], answer.asks[i]) <= Cost(answer.asks[i], answer.asks[1])
        /\ \A i \in DOMAIN answer.bids :
             Cost(answer.bids[1], answer.bids[i]) >= Cost(answer.bids[i], answer.bids[1])

\* Every hash of the snapshot is reported once, in one way; what is reported as
\* settled has settled, and what is reported as open was open during the read
\* (reconcileOffers).
ReconciledTruly ==
    stage = "done" /\ answer # None /\ answer.kind = "reconciliation" =>
        LET ways == <<answer.live, answer.stale, answer.gone, answer.unknown, answer.failed>>
        IN  /\ UNION Bag(ways) = {want.source[i].hash : i \in DOMAIN want.source}
            /\ \A i, j \in DOMAIN ways : i # j => ways[i] \cap ways[j] = {}
            /\ \A h \in answer.gone : ~Open(h)
            /\ answer.live \cup answer.stale \subseteq seenOpen
            /\ answer.changed \subseteq answer.live \cup answer.stale \cup answer.gone

\* Merged coverages are a sound coverage again, and claim no more than the last
\* of their parts: what it could not read stays unread (mergeCoverage).
MergedClaimsNoMore ==
    kept # None =>
        /\ Sound(kept)
        /\ stage = "done" /\ answer # None /\ answer.kind = "book"
           /\ coverage.asked = kept.asked =>
             /\ kept.complete => coverage.complete
             /\ Mergeable(kept, coverage) =>
                  DOMAIN coverage.failed \subseteq DOMAIN kept.failed

\* What a caller is told of a market, in one.
BooksAreTrue ==
    TypeOK /\ CompleteMeansComplete /\ BestIsBest /\ ReconciledTruly /\ MergedClaimsNoMore
=============================================================================
