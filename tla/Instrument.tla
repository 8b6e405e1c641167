------------------------------ MODULE Instrument ------------------------------
(***************************************************************************)
(* One instrument of packages/market (instrument.ts): a pair of assets     *)
(* over a directory of accounts, its snapshots, the subscriptions that     *)
(* poll for them, and the orders given through it.                         *)
(*                                                                         *)
(* A subscription is one loop: a timer starts a read, the read takes two   *)
(* pages of the node, and its end sets the timer again.  Orders, others'   *)
(* trades, the clock, the deadline of a read and the caller come between   *)
(* any two of these steps.  How a page is walked is in MarketReads.  A     *)
(* timer that is due later may fire at any time, so the clock is only what *)
(* the code reads of it: the window asked for, and the age of a snapshot.  *)
(***************************************************************************)
EXTENDS MarketCoverage, Decimals, SequencesExt

CONSTANTS
    None,
    Me,                 \* the wallet
    Accounts,
    Orders,             \* the orders that may be given: a sequence, by their hashes
    BaseDecimals, QuoteDecimals, MaxRaw,
    Untimed,            \* the orders whose trade the node knows no time of
    Levels,             \* what may be handed to accept()
    Subscribers,
    Options,            \* of a subscription: from, to, window, depth, limit, staleAfter
    Times,              \* bounds of a run: when the clock is looked at, and
    MaxFaults           \* how much may fail

Hashes == DOMAIN Orders

\* A page of the node, and what a read has of its two; None is neither.
Pages ==
    [rows : SUBSET Hashes,
     coverage : [asked : Nat, read : Int,
                 failed : UNION {[missed -> {{"unread"}}] : missed \in SUBSET Accounts},
                 truncated : SUBSET Accounts, dropped : {0}, skipped : {{}},
                 complete : BOOLEAN]]

Reads ==
    [from : {None} \cup Int, to : Nat, roster : SUBSET Accounts,
     book : {None} \cup Pages, trades : {None} \cup Pages,
     stood : SUBSET Hashes, shown : SUBSET Hashes, sold : SUBSET Hashes]

ASSUME InstrumentAssumption ==
    /\ Len(Orders) \in Nat /\ Hashes = 1 .. Len(Orders)
    /\ \A h \in Hashes : /\ Orders[h].units \in [digits : Nat, scale : Nat]
                         /\ Orders[h].unitPrice \in [digits : Nat, scale : Nat]
                         /\ Orders[h].side \in {"ask", "bid"}
    /\ Untimed \subseteq Hashes
    /\ IsFiniteSet(Accounts) /\ Me \in Accounts
    /\ BaseDecimals \in Nat /\ QuoteDecimals \in Nat /\ MaxRaw \in Nat
    /\ Options \subseteq [from : {None} \cup Nat, to : {None} \cup Nat, window : {None} \cup Nat,
                         depth : Nat, limit : Nat, staleAfter : Nat]
    /\ \A o \in Options : o.from = None \/ o.window = None
    /\ 0 \in Times /\ Times \subseteq Nat
    /\ None \notin Nat /\ None \notin Reads

VARIABLES
    now, clock,         \* the market's clock, and whether it can be read
    known,              \* the accounts in the directory
    state, at,          \* of each order: "none", "open", "sold"; and when it was sold
    landing,            \* own writes that landed and were not answered yet
    paid,               \* the price the wallet was shown for what it accepted
    closed,
    sub,                \* the subscriptions
    faults

vars == <<now, clock, known, state, at, landing, paid, closed, sub, faults>>

-----------------------------------------------------------------------------
(***************************************************************************)
(* Orders and levels.                                                      *)
(***************************************************************************)
\* decimalProduct(): without the zeros at its end.
Product(x, y) ==
    LET digits == x.digits * y.digits
        scale == x.scale + y.scale
        zeros == Max({k \in 0..scale : digits % Tens[k] = 0})
    IN  [digits |-> digits \div Tens[zeros], scale |-> scale - zeros]

Total(h) == Product(Orders[h].units, Orders[h].unitPrice)

Raw(x, places) == x.digits * Tens[places - x.scale]

\* Refused before anything is signed.
Placeable(h) ==
    /\ Orders[h].units.digits * Orders[h].unitPrice.digits \in 1..MaxRaw
    /\ Orders[h].units.scale <= BaseDecimals
    /\ Total(h).scale <= QuoteDecimals

Terms ==
    [h \in {h \in Hashes : Placeable(h)} |->
        [base |-> Raw(Orders[h].units, BaseDecimals),
         quote |-> Raw(Total(h), QuoteDecimals)]]

\* exactPrice(): quote for one base.
ExactPrice(terms) == [num |-> terms.quote * Tens[BaseDecimals],
                      den |-> terms.base * Tens[QuoteDecimals]]

LevelOf(h) == [hash |-> h, terms |-> Terms[h], exact |-> ExactPrice(Terms[h])]

\* assertInstrumentLevel()
Agrees(level) == level.exact = ExactPrice(level.terms)

Cheaper(g, h) ==
    LET p == ExactPrice(Terms[g])
        q == ExactPrice(Terms[h])
    IN  p.num * q.den < q.num * p.den
          \/ (p.num * q.den = q.num * p.den /\ g < h)

Side(rows, side) == {h \in rows : Orders[h].side = side}

\* The best levels of each side, as many as were asked for.
BookFrom(rows, depth) ==
    {h \in Side(rows, "ask") :
        Cardinality({g \in Side(rows, "ask") : Cheaper(g, h)}) < depth}
    \cup
    {h \in Side(rows, "bid") :
        Cardinality({g \in Side(rows, "bid") : g # h /\ ~Cheaper(g, h)}) < depth}

-----------------------------------------------------------------------------
(***************************************************************************)
(* Snapshots.                                                              *)
(***************************************************************************)
\* resolvedHistoryRange(): at the time of the request.
Requested(options) ==
    LET to == IF options.to = None THEN now ELSE options.to
    IN  [from |-> IF options.window = None THEN options.from ELSE to - options.window,
         to |-> to]

NewestOf(set, limit) == {h \in set : Cardinality({g \in set : g > h}) < limit}

\* A page of the accounts of a roster but those that could not be read.
Page(roster, missed, rows, limit) ==
    LET got == [a \in roster \ missed |->
                    NewestOf({h \in rows : Orders[h].author = a}, limit)]
    IN  [rows |-> UNION {got[a] : a \in DOMAIN got},
         coverage |-> Coverage(Cardinality(roster), [a \in missed |-> {"unread"}],
                        {a \in DOMAIN got : Cardinality(got[a]) >= limit}, 0, {})]

\* Mutant: the lower bound moves with the read.
SelectedLate(rows, read) ==
    {h \in rows : at[h] # None /\ at[h] <= read.to
                  /\ (read.from # None => at[h] >= now - (read.to - read.from))}

\* selectHistoryTrades(): with a lower bound, what has no time has no place.
Selected(rows, read) ==
    {h \in rows : IF at[h] = None THEN read.from = None
                  ELSE at[h] <= read.to /\ (read.from = None \/ at[h] >= read.from)}

Unplaced(rows, read) ==
    IF read.from = None THEN {} ELSE {h \in rows : at[h] = None}

\* historyFromTrades(): complete, if everything in it has a time.
History(read) ==
    LET rows == Selected(read.trades.rows, read)
        untimed == {h \in rows : at[h] = None} \cup Unplaced(read.trades.rows, read)
    IN  [rows |-> rows, untimed |-> Cardinality(untimed),
         complete |-> read.trades.coverage.complete /\ untimed = {}]

Snapshot(read, options) ==
    LET history == History(read)
        combined == Merge(read.book.coverage, read.trades.coverage)
    IN  [book |-> BookFrom(read.book.rows, options.depth),
         rows |-> history.rows, untimed |-> history.untimed,
         covered |-> combined.complete,
         complete |-> read.book.coverage.complete /\ history.complete]

-----------------------------------------------------------------------------
(***************************************************************************)
(* The loop of a subscription.                                             *)
(***************************************************************************)
Open(s) == sub[s].phase = "open"

\* A read that is under way is aborted, unless both of its pages are there.
Stopped(r) ==
    [r EXCEPT !.phase = "stopped", !.timer = "none", !.pending = FALSE, !.owes = "no",
              !.failed = FALSE,
              !.read = IF @ # None /\ @.book # None /\ @.trades # None THEN @ ELSE None]

\* What follows every read.
Settled(r) ==
    LET ended == [r EXCEPT !.running = FALSE, !.failed = FALSE, !.read = None]
    IN  IF r.phase = "stopped" THEN ended
        ELSE [ended EXCEPT !.pending = FALSE,
                           !.timer = IF r.pending THEN "now" ELSE "later",
                           !.owes = IF @ = "reading" THEN "no" ELSE @]

\* Nobody reads its last good snapshot and its last update any more.
Dropped(r) == [Stopped(r) EXCEPT !.lastGood = None, !.told = None]

\* emitTerminalClockError()
Terminal(r) ==
    Stopped([r EXCEPT !.told = [status |-> "error", stale |-> FALSE,
                              age |-> IF r.lastGood = None THEN None ELSE 0]])

\* Mutant: a wake during a read is taken to be served by it.
RefreshedOnce(r) ==
    IF r.phase # "open" THEN r
    ELSE IF r.running THEN [r EXCEPT !.owes = "yes"]
    ELSE [r EXCEPT !.timer = "now", !.owes = "yes"]

\* refresh(): owes is "yes" until a read begins, and "reading" until it has told.
Refreshed(r) ==
    IF r.phase # "open" THEN r
    ELSE IF r.running THEN [r EXCEPT !.pending = TRUE, !.owes = "yes"]
    ELSE [r EXCEPT !.timer = "now", !.owes = "yes"]

Changes(s, r) == sub' = [sub EXCEPT ![s] = r]

World == <<now, clock, known, state, at, landing, paid, closed>>

\* Registered before the clock is read: a clock that fails throws, and the
\* caller is given nothing to stop it with.
Subscribe(s, options) ==
    /\ ~closed
    /\ sub[s].phase = "none"
    /\ LET r == [sub[s] EXCEPT !.phase = "open", !.options = options]
           opening == [status |-> "opening", age |-> None, stale |-> FALSE]
       IN  Changes(s, IF clock = "broken" THEN r
                      ELSE [r EXCEPT !.held = TRUE, !.told = opening, !.timer = "now"])
    /\ UNCHANGED <<World, faults>>

\* sharedSnapshotSource()
Roster(s) == sub[s].read.roster

\* A read as it begins: its window, the accounts that are known, the orders as they stand.
NewRead(window) ==
    [from |-> window.from, to |-> window.to, roster |-> known, book |-> None, trades |-> None,
     stood |-> {h \in Hashes : state[h] = "open"},
     shown |-> {h \in Hashes : state[h] = "open"},
     sold |-> {h \in Hashes : state[h] = "sold"}]

\* run(), until its pages are asked for.
Begin(s) ==
    /\ Open(s) /\ sub[s].timer # "none"
    /\ LET r == [sub[s] EXCEPT !.timer = "none", !.running = TRUE,
                               !.owes = IF @ = "yes" THEN "reading" ELSE @]
       IN  Changes(s,
             IF sub[s].running THEN [sub[s] EXCEPT !.timer = "none", !.pending = TRUE]
             ELSE IF clock = "broken" THEN Settled(Terminal(r))
             ELSE [r EXCEPT !.read = NewRead(Requested(r.options))])
    /\ UNCHANGED <<World, faults>>

\* A read that has failed, or was aborted, is none.
Reading(s) == sub[s].running /\ sub[s].read # None

Abandoned(s) == [sub[s] EXCEPT !.failed = TRUE, !.read = None]

Answered(s) == sub[s].read.book # None /\ sub[s].read.trades # None

Missing(missed) == faults + Cardinality(missed) <= MaxFaults /\ faults' = faults + Cardinality(missed)

In(s) == {h \in Hashes : Orders[h].author \in Roster(s)}

ReadBook(s, missed) ==
    /\ Reading(s) /\ sub[s].read.book = None
    /\ missed \subseteq Roster(s) /\ Missing(missed)
    /\ Changes(s, [sub[s] EXCEPT !.read.book =
            Page(Roster(s), missed, {h \in In(s) : state[h] = "open"}, sub[s].options.limit)])
    /\ UNCHANGED World

ReadTrades(s, missed) ==
    /\ Reading(s) /\ sub[s].read.trades = None
    /\ missed \subseteq Roster(s) /\ Missing(missed)
    /\ Changes(s, [sub[s] EXCEPT !.read.trades =
            Page(Roster(s), missed, {h \in In(s) : state[h] = "sold"}, sub[s].options.limit)])
    /\ UNCHANGED World

\* A page that is rejected as a whole rejects the read.  So does a clock that
\* throws while an offer of the page is looked at (expired of offerFrom); that
\* error has no code, and only the clock as it is asked next ends the loop.
PageFails(s) ==
    /\ Reading(s) /\ ~Answered(s)
    /\ (clock = "broken" /\ UNCHANGED faults) \/ Missing({s})
    /\ Changes(s, Abandoned(s))
    /\ UNCHANGED World

\* Mutant: nobody is told of the deadline.
DeadlineUnheard(s) ==
    /\ Reading(s) /\ ~Answered(s)
    /\ UNCHANGED <<World, sub, faults>>

\* With both pages there, nothing comes before the end of the read.
Deadline(s) ==
    /\ Reading(s) /\ ~Answered(s)
    /\ Changes(s, Abandoned(s))
    /\ UNCHANGED <<World, faults>>

\* The pages have to be of one scope.
Fits(s) == Mergeable(sub[s].read.book.coverage, sub[s].read.trades.coverage)

\* The snapshot of now is the last good one.  A listener that stops while it is
\* told is one that stops next.
Resolve(s) ==
    /\ Reading(s) /\ Answered(s) /\ Fits(s) /\ clock = "ok"
    /\ LET live == [sub[s] EXCEPT !.lastGood = now,
                        !.told = [status |-> "live", age |-> 0, stale |-> FALSE]]
       IN  Changes(s, IF Open(s) THEN Settled(live) ELSE Settled(sub[s]))
    /\ UNCHANGED <<World, faults>>

\* The last good snapshot stays, and grows old; by a clock that was set back it
\* is new.
Failure(r) ==
    LET age == IF r.lastGood = None THEN None ELSE Max({0, now - r.lastGood})
        stale == age # None /\ age >= r.options.staleAfter
    IN  [status |-> IF stale THEN "stale" ELSE "error", age |-> age, stale |-> stale]

Reject(s) ==
    /\ sub[s].running
    /\ Reading(s) => Answered(s) /\ (~Fits(s) \/ clock = "broken")
    /\ LET r == sub[s]
       IN  Changes(s, Settled(
             IF ~Open(s) THEN r
             ELSE IF clock = "broken" THEN Terminal(r)
             ELSE [r EXCEPT !.told = Failure(r)]))
    /\ UNCHANGED <<World, faults>>

\* The handle, or the caller's signal.
Stop(s) ==
    /\ Open(s) /\ sub[s].held
    /\ Changes(s, Dropped(sub[s]))
    /\ UNCHANGED <<World, faults>>

Close ==
    /\ ~closed
    /\ closed' = TRUE
    /\ sub' = [s \in Subscribers |-> IF Open(s) THEN Dropped(sub[s]) ELSE sub[s]]
    /\ UNCHANGED <<now, clock, known, state, at, landing, paid, faults>>

-----------------------------------------------------------------------------
(***************************************************************************)
(* The orders, the ledger and the clock.                                   *)
(***************************************************************************)
\* What a read may show, and what it must, follow the ledger.
Seen(opened, sold) ==
    sub' = [s \in Subscribers |->
        IF sub[s].read = None THEN sub[s]
        ELSE [sub[s] EXCEPT !.read.shown = @ \cup opened, !.read.stood = @ \ sold]]

\* sell() and bid() of the wallet, and those of others.
Place(h) ==
    /\ state[h] = "none" /\ Placeable(h)
    /\ state' = [state EXCEPT ![h] = "open"]
    /\ landing' = IF Orders[h].author = Me THEN landing \cup {h} ELSE landing
    /\ Seen({h}, {})
    /\ UNCHANGED <<now, clock, known, at, paid, closed, faults>>

Sold(h) ==
    /\ state' = [state EXCEPT ![h] = "sold"]
    /\ at' = [at EXCEPT ![h] = IF h \in Untimed THEN None ELSE now]
    /\ Seen({}, {h})
    /\ UNCHANGED <<now, clock, known, closed, faults>>

\* Another wallet accepts.
Take(h) ==
    /\ state[h] = "open"
    /\ Sold(h)
    /\ UNCHANGED <<landing, paid>>

\* accept(): every displayed term is compared, then those of the chain.
Accept(level) ==
    LET h == level.hash
    IN  /\ Agrees(level)
        /\ state[h] = "open" /\ level.terms = Terms[h] /\ Orders[h].author # Me
        /\ Sold(h)
        /\ landing' = landing \cup {h}
        /\ paid' = [paid EXCEPT ![h] = level.exact]

\* The write is answered, and every subscription is woken.
Wake(h) ==
    /\ h \in landing
    /\ landing' = landing \ {h}
    /\ sub' = [s \in Subscribers |-> Refreshed(sub[s])]
    /\ UNCHANGED <<now, clock, known, state, at, paid, closed, faults>>

\* The write landed, and its answer is lost.
AnswerLost(h) ==
    /\ h \in landing
    /\ Missing({h})
    /\ landing' = landing \ {h}
    /\ UNCHANGED <<now, clock, known, state, at, paid, closed, sub>>

Announce(a) ==
    /\ a \notin known
    /\ known' = known \cup {a}
    /\ UNCHANGED <<now, clock, state, at, landing, paid, closed, sub, faults>>

\* The clock of the application: it may be set back.
Tick ==
    /\ now' \in Times \ {now}
    /\ UNCHANGED <<clock, known, state, at, landing, paid, closed, sub, faults>>

ClockFails ==
    /\ clock = "ok"
    /\ Missing({"clock"})
    /\ clock' = "broken"
    /\ UNCHANGED <<now, known, state, at, landing, paid, closed, sub>>

ClockWorks ==
    /\ clock = "broken"
    /\ clock' = "ok"
    /\ UNCHANGED <<now, known, state, at, landing, paid, closed, sub, faults>>

-----------------------------------------------------------------------------
Init ==
    /\ now = 0 /\ clock = "ok"
    /\ known = {Me}
    /\ state = [h \in Hashes |-> "none"] /\ at = [h \in Hashes |-> None]
    /\ landing = {} /\ paid = [h \in Hashes |-> None]
    /\ closed = FALSE /\ faults = 0
    /\ sub = [s \in Subscribers |->
                [phase |-> "none", held |-> FALSE, options |-> None, timer |-> "none",
                 running |-> FALSE, pending |-> FALSE, failed |-> FALSE, read |-> None,
                 lastGood |-> None, told |-> None, owes |-> "no"]]

Next ==
    \/ \E s \in Subscribers :
        \/ \E options \in Options : Subscribe(s, options)
        \/ Begin(s) \/ PageFails(s) \/ Deadline(s) \/ Resolve(s) \/ Reject(s) \/ Stop(s)
        \/ \E missed \in SUBSET Accounts : ReadBook(s, missed) \/ ReadTrades(s, missed)
    \/ \E h \in Hashes : Place(h) \/ Take(h) \/ Wake(h) \/ AnswerLost(h)
    \/ \E level \in Levels : Accept(level)
    \/ \E a \in Accounts : Announce(a)
    \/ Close \/ Tick \/ ClockFails \/ ClockWorks

\* Timers fire and answered promises are continued.  The node may never answer.
Fairness ==
    \A s \in Subscribers :
        /\ WF_vars(Begin(s))
        /\ WF_vars(Deadline(s))
        /\ WF_vars(Resolve(s))
        /\ WF_vars(Reject(s))

Spec == Init /\ [][Next]_vars /\ Fairness

-----------------------------------------------------------------------------
(***************************************************************************)
(* Properties.                                                             *)
(***************************************************************************)
\* After an order of one's own, a subscription never waits for the next poll:
\* a read that begins after it is under way or comes at once, though the order
\* was answered in the middle of another read (refresh, the finally of run).
WakeIsServed ==
    \A s \in Subscribers :
        /\ sub[s].owes = "yes" =>
             sub[s].timer = "now" \/ (sub[s].running /\ sub[s].pending)
        /\ sub[s].owes = "reading" => sub[s].running
        /\ sub[s].timer # "none" => Open(s) /\ ~sub[s].running

\* What a price has to be: that of the order.
Asked(h) == Orders[h].unitPrice

\* An order rests at the very price it was given for, and is paid at the price
\* that was displayed for it (decimalProduct, exactPrice, accept).
PaidAsShown ==
    /\ \A h \in Hashes : state[h] # "none" =>
         LET p == ExactPrice(Terms[h])
         IN  p.num * Tens[Asked(h).scale] = Asked(h).digits * p.den
    /\ \A h \in Hashes : paid[h] # None => paid[h] = ExactPrice(Terms[h])

\* Of the trades before the request, and of the orders that stood throughout.
Owed(read) ==
    [trades |-> {h \in read.sold : Orders[h].author \in read.roster /\ at[h] # None
                   /\ at[h] <= read.to /\ (read.from # None => at[h] >= read.from)},
     untimed |-> {h \in read.sold : Orders[h].author \in read.roster /\ at[h] = None},
     orders |-> {h \in read.stood : Orders[h].author \in read.roster}]

\* What a snapshot shows was so: its levels stood at some time of the read, its
\* trades are of the window that was asked for when it began.  And a covered
\* snapshot leaves nothing out: every trade of the window, placed or counted as
\* untimed, and of the orders that stood throughout the best (snapshot,
\* selectHistoryTrades, mergeCoverage).
Honest(read, options, snapshot) ==
    LET owed == Owed(read)
    IN  /\ snapshot.book \subseteq read.shown
        /\ \A h \in snapshot.rows : at[h] = None \/
             (at[h] <= read.to /\ (read.from # None => at[h] >= read.from))
        /\ snapshot.covered =>
             /\ owed.trades \subseteq snapshot.rows
             /\ snapshot.untimed >= Cardinality(owed.untimed)
             /\ \A h \in owed.orders \ snapshot.book :
                  Cardinality(Side(snapshot.book, Orders[h].side)) = options.depth
        /\ snapshot.complete => owed.untimed = {}

\* A read without a cause to fail does not fail.
Caused(s) == sub[s].failed \/ clock = "broken"

\* What a listener is told is true.  A live update is honest; any other says why
\* it is none, keeps the last good snapshot, and gives its age, which is never
\* negative though the clock was set back, and whether it is stale by that; and
\* a subscription that has stopped is silent (emit, run, stop).
ToldTruly ==
    [][\A s \in Subscribers :
        /\ sub'[s].told # sub[s].told /\ sub'[s].told # None => sub[s].phase # "stopped"
        /\ sub[s].phase = "open" /\ sub[s].running /\ ~sub'[s].running =>
            LET told == sub'[s].told
                before == sub[s].lastGood
            IN  IF told.status = "live"
                THEN /\ Honest(sub[s].read, sub[s].options,
                               Snapshot(sub[s].read, sub[s].options))
                     /\ sub'[s].lastGood = now
                ELSE /\ sub'[s].lastGood = before
                     /\ Caused(s)
                     /\ clock = "ok" /\ before # None =>
                          /\ told.age \in Nat
                          /\ before <= now =>
                               /\ told.age = now - before
                               /\ told.stale = (now - before >= sub[s].options.staleAfter)]_vars

\* A subscription that is neither stopped nor refused polls for ever, though
\* pages fail and the node may never answer one (run, schedule).
KeepsPolling ==
    \A s \in Subscribers :
        /\ Open(s) /\ sub[s].held /\ ~sub[s].running
             ~> sub[s].running \/ ~Open(s)
        /\ sub[s].running ~> ~sub[s].running

\* A wallet's own orders are shown without a poll, and paid as they were shown.
OrdersServed == WakeIsServed /\ PaidAsShown
=============================================================================
