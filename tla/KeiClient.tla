------------------------------ MODULE KeiClient -----------------------------
(***************************************************************************)
(* One wallet at its node: `KeiClient` (src/packages/core/src/client.ts)   *)
(* over `HttpNode` (http-node.ts) or over the in-process `MockNode`.       *)
(*                                                                         *)
(* Three activities interleave at their awaits: the queue of `submit`,     *)
(* which drafts, signs and publishes one block at a time; the drain of     *)
(* `receiveAll`, which collects what waits for the account; and the        *)
(* subscription, which calls `receiveAll` when something new is waiting.   *)
(* The node is what they see of it: the receivables of this account, the   *)
(* balance, and whether a block still fits the frontier (Ledger.tla has    *)
(* the whole of it).  A payment and a receivable are one unit each.        *)
(*                                                                         *)
(* An operator that no action uses is a faulty form of the definition that *)
(* follows it, kept to confirm that a property can tell the two apart.     *)
(***************************************************************************)
EXTENDS Integers, FiniteSets, Sequences, SequencesExt

CONSTANTS
    Receivables,   \* what others may send to this account
    Assets,        \* those of them that are tokens, not Kei
    Payments,      \* calls of send the application makes
    Opening,       \* the balance the wallet starts with
    Transports,    \* "http": HttpNode.  "in process": MockNode, which pushes
    MaxRounds,     \* the rounds of a drain (64)
    MaxFaults      \* bound: calls over HTTP that time out or fail, and
                   \* collections by a second client of the same seed

ASSUME ClientAssumption ==
    /\ Assets \subseteq Receivables
    /\ Receivables \cap Payments = {} /\ "rival" \notin Receivables \cup Payments
    /\ Opening \in Nat
    /\ Transports \subseteq {"http", "in process"}
    /\ MaxRounds \in Nat \ {0}
    /\ MaxFaults \in Nat

VARIABLES
    \* the node
    transport,    \* how the client reaches it
    waiting,      \* receivables of this account, oldest first
    taker,        \* [Receivables -> who collected it]
    paid,         \* payments whose block was applied
    balance,
    \* submit
    queue,        \* jobs of submit, the first of them under way
    flight,       \* signed blocks on their way to the node or back
    outcome,      \* [Payments -> what send answered]
    unheard,      \* history: jobs whose call of process timed out
    \* receiveAll
    pc,           \* where the drain is
    todo,         \* receivables this round still has to collect
    rounds,
    receiveAgain,
    due,          \* what waited when the calls that join this drain were made
    failure,      \* why the last drain threw, or "none"
    reported,     \* receivables whose `received` event was emitted
    \* lifecycle and subscription
    phase,        \* where start() is
    closed,
    subscribed,   \* the node holds a listener of this client
    notices,      \* listener microtasks of MockNode
    poll,         \* the poll of HttpNode: "off", "scheduled" or "asked"
    seen,         \* receivables the subscription has announced
    news,         \* the answer to the poll under way
    faults

node == <<transport, waiting, taker, paid, balance>>
submits == <<queue, flight, outcome, unheard>>
drain == <<pc, todo, rounds, receiveAgain, due, failure>>
lifecycle == <<phase, closed, subscribed>>
watch == <<notices, poll, seen, news>>
vars == <<node, submits, drain, reported, lifecycle, watch, faults>>

Job == Receivables \cup Payments

Polling == transport = "http"

\* A block: does it build on the frontier, has it been applied already, or has
\* another block taken its place?  And has the node judged it yet?
Block == [job : Job, standing : {"fits", "known", "stale"},
          fate : {"sent", "ok", "fork", "gone"}, awaited : BOOLEAN]

Init ==
    /\ transport \in Transports
    /\ waiting = <<>>
    /\ taker = [r \in Receivables |-> "nobody"]
    /\ paid = {}
    /\ balance = Opening
    /\ queue = <<>>
    /\ flight = {}
    /\ outcome = [p \in Payments |-> "none"]
    /\ unheard = {}
    /\ pc = "idle"
    /\ todo = <<>>
    /\ rounds = 0
    /\ receiveAgain = FALSE
    /\ due = {}
    /\ failure = "none"
    /\ reported = {}
    /\ phase = "new"
    /\ closed = FALSE
    /\ subscribed = FALSE
    /\ notices = 0
    /\ poll = "off"
    /\ seen = {}
    /\ news = {}
    /\ faults = 0

\* The list without its entry for r.
Without(list, r) == RemoveAt(list, CHOOSE i \in 1 .. Len(list) : list[i] = r)

\* Something gets in the wallet's way.
Disturbed == faults < MaxFaults /\ faults' = faults + 1

\* A call to the node fails or its answer does not come in time.
Fault == Polling /\ Disturbed

-----------------------------------------------------------------------------
(* receiveAll and drain.  Each operator sets every variable of drain.      *)

\* A second call that does not ask for another pass.
ReceiveAllOnce(n) ==
    IF closed \/ n = 0 \/ pc # "idle" THEN
         /\ due' = IF closed THEN due ELSE due \cup ToSet(waiting)
         /\ UNCHANGED <<pc, todo, rounds, receiveAgain, failure>>
    ELSE /\ pc' = "fetch"
         /\ rounds' = 0
         /\ receiveAgain' = FALSE
         /\ failure' = "none"
         /\ due' = due \cup ToSet(waiting)
         /\ UNCHANGED todo

\* n calls of receiveAll, one after the other.  The first may start a drain;
\* a call that finds one running asks it to go round again.
ReceiveAll(n) ==
    IF closed \/ n = 0 THEN UNCHANGED drain
    ELSE /\ pc' = IF pc = "idle" THEN "fetch" ELSE pc
         /\ rounds' = IF pc = "idle" THEN 0 ELSE rounds
         /\ receiveAgain' = (pc # "idle" \/ n > 1)
         /\ failure' = IF pc = "idle" THEN "none" ELSE failure
         /\ due' = due \cup ToSet(waiting)
         /\ UNCHANGED todo

\* The promise of the drain settles.  Over HTTP its callers run before anything
\* else can; MockNode's notices are microtasks too and may come first.
PromiseSettles ==
    IF Polling THEN pc' = "idle" /\ due' = {}
               ELSE pc' = "settled" /\ UNCHANGED due

Throws(reason) ==
    /\ PromiseSettles
    /\ failure' = reason
    /\ todo' = <<>>
    /\ UNCHANGED <<rounds, receiveAgain>>

\* The loop without the reset of its condition.
EndRoundsUnreset ==
    /\ IF receiveAgain /\ ~closed
       THEN pc' = "fetch" /\ rounds' = 0 /\ UNCHANGED <<receiveAgain, due>>
       ELSE PromiseSettles /\ UNCHANGED <<receiveAgain, rounds>>
    /\ todo' = <<>>
    /\ UNCHANGED failure

\* The rounds are over: once more if a call asked for it, and not closed.
EndRounds ==
    /\ IF receiveAgain /\ ~closed
       THEN pc' = "fetch" /\ receiveAgain' = FALSE /\ rounds' = 0 /\ UNCHANGED due
       ELSE PromiseSettles /\ UNCHANGED <<receiveAgain, rounds>>
    /\ todo' = <<>>
    /\ UNCHANGED failure

\* The round goes on with the rest of its list: a token's symbol and decimals
\* are read first, Kei is submitted at once.
Continue(list) ==
    IF list # <<>>
    THEN /\ pc' = IF Head(list) \in Assets THEN "meta" ELSE "submit"
         /\ todo' = list
         /\ UNCHANGED <<rounds, receiveAgain, due, failure>>
    ELSE IF rounds + 1 < MaxRounds
    THEN /\ pc' = "fetch"
         /\ todo' = <<>>
         /\ rounds' = rounds + 1
         /\ UNCHANGED <<receiveAgain, due, failure>>
    ELSE EndRounds

\* What receiveOne makes of the answer to a collection.  MockNode's errors keep
\* their code; HttpNode's are all 'node-error'.
Collected(answer) ==
    IF answer = "ok" \/ (answer = "gone" /\ ~Polling)
    THEN Continue(Tail(todo))
    ELSE Throws(answer)

\* start() resumes when the drain it awaits has settled.
StartResumes ==
    phase' = IF phase = "starting" /\ pc' = "idle"
             THEN IF failure' = "none" THEN "subscribing" ELSE "failed"
             ELSE phase

\* The block of the receivable the drain has come to joins the queue.
Submitting == IF pc' = "submit" THEN <<Head(todo')>> ELSE <<>>

\* await this.node.receivables(...): asked and answered.
Fetch ==
    /\ pc = "fetch"
    /\ pc' = "answered"
    /\ todo' = waiting
    /\ UNCHANGED <<rounds, receiveAgain, due, failure>>
    /\ UNCHANGED <<node, submits, reported, lifecycle, watch, faults>>

FetchAnswer ==
    /\ pc = "answered"
    /\ IF todo = <<>> THEN EndRounds ELSE Continue(todo)
    /\ queue' = queue \o Submitting
    /\ StartResumes
    /\ UNCHANGED <<node, flight, outcome, unheard, reported, closed, subscribed, watch, faults>>

\* assetMetaFor, of a token this client has not met before.
AssetMeta ==
    /\ pc = "meta"
    /\ pc' = "submit"
    /\ queue' = queue \o <<Head(todo)>>
    /\ UNCHANGED <<todo, rounds, receiveAgain, due, failure>>
    /\ UNCHANGED <<node, flight, outcome, unheard, reported, lifecycle, watch, faults>>

ReadFails ==
    /\ pc \in {"fetch", "answered", "meta"}
    /\ Fault
    /\ Throws("lost")
    /\ StartResumes
    /\ UNCHANGED <<node, submits, reported, closed, subscribed, watch>>

\* `finally { this.receiving = null }`, where that is a microtask of its own.
Settle ==
    /\ pc = "settled"
    /\ pc' = "idle"
    /\ due' = {}
    /\ UNCHANGED <<todo, rounds, receiveAgain, failure>>
    /\ StartResumes
    /\ UNCHANGED <<node, submits, reported, closed, subscribed, watch, faults>>

-----------------------------------------------------------------------------
(* submit *)

\* Every job at once.
MayRunAtOnce == ToSet(queue)

\* The jobs whose turn has come: `this.queue.then(...)`.
MayRun == IF queue = <<>> THEN {} ELSE {queue[1]}

\* The event is emitted before the answer is looked at.
ReceivedAnyway(job, answer) == IF ~closed THEN {job} ELSE {}

\* The `received` or `asset-received` event; close() has dropped the listeners.
Received(job, answer) == IF answer = "ok" /\ ~closed THEN {job} ELSE {}

\* How the job's caller goes on, and what it leaves in the queue.
Answers(job, answer) ==
    IF job \in Payments
    THEN /\ outcome' = [outcome EXCEPT ![job] = answer]
         /\ queue' = Tail(queue)
         /\ UNCHANGED <<drain, phase, reported>>
    ELSE /\ Collected(answer)
         /\ queue' = Tail(queue) \o Submitting
         /\ reported' = reported \cup Received(job, answer)
         /\ StartResumes
         /\ UNCHANGED outcome

\* accountInfo answered, the block built, worked for, signed and sent.
Draft(job) ==
    /\ job \in MayRun
    /\ ~\E b \in flight : b.job = job /\ b.awaited
    /\ IF job \in Payments /\ balance < 1
       THEN Answers(job, "insufficient-kei") /\ UNCHANGED flight
       ELSE /\ flight' = flight \cup
                 {[job |-> job, standing |-> "fits", fate |-> "sent", awaited |-> TRUE]}
            /\ UNCHANGED <<queue, outcome, drain, phase, reported>>
    /\ UNCHANGED <<node, unheard, closed, subscribed, watch, faults>>

DraftFails(job) ==
    /\ job \in MayRun
    /\ ~\E b \in flight : b.job = job /\ b.awaited
    /\ Fault
    /\ Answers(job, "lost")
    /\ UNCHANGED <<flight, unheard, node, closed, subscribed, watch>>

\* The frontier has moved: what was drafted on the old one no longer fits,
\* unless it is the very block that moved it.
Overtaken(bs, applied) ==
    {[b EXCEPT !.standing = IF @ # "fits" THEN @
                            ELSE IF b.job = applied THEN "known" ELSE "stale"] : b \in bs}

\* The node's process, at one moment (LedgerProcess.tla splits it).
Verdict(b) ==
    IF b.standing = "known" THEN "ok"
    ELSE IF b.standing = "stale" THEN "fork"
    ELSE IF b.job \in Receivables /\ b.job \notin ToSet(waiting) THEN "gone"
    ELSE "ok"

Judged(b) == IF b.awaited THEN {[b EXCEPT !.fate = Verdict(b)]} ELSE {}

Process(b) ==
    /\ b.fate = "sent"
    /\ IF Verdict(b) = "ok" /\ b.standing = "fits"
       THEN /\ flight' = Overtaken(flight \ {b}, b.job) \cup Judged(b)
            /\ IF b.job \in Payments
               THEN /\ paid' = paid \cup {b.job}
                    /\ balance' = balance - 1
                    /\ UNCHANGED <<waiting, taker>>
               ELSE /\ waiting' = Without(waiting, b.job)
                    /\ taker' = [taker EXCEPT ![b.job] = "us"]
                    /\ balance' = balance + 1
                    /\ UNCHANGED paid
       ELSE /\ flight' = (flight \ {b}) \cup Judged(b)
            /\ UNCHANGED node
    /\ UNCHANGED <<transport, queue, outcome, unheard, drain, reported, lifecycle, watch, faults>>

ProcessAnswer(b) ==
    /\ b.awaited /\ b.fate # "sent"
    /\ flight' = flight \ {b}
    /\ Answers(b.job, b.fate)
    /\ UNCHANGED <<node, unheard, closed, subscribed, watch, faults>>

\* The deadline passes.  The block may never arrive, may have been judged
\* already, or may be on its way still.
ProcessTimesOut(b) ==
    /\ b.awaited
    /\ Fault
    /\ \/ flight' = flight \ {b}
       \/ b.fate = "sent" /\ flight' = (flight \ {b}) \cup {[b EXCEPT !.awaited = FALSE]}
    /\ Answers(b.job, "lost")
    /\ unheard' = unheard \cup {b.job}
    /\ UNCHANGED <<node, closed, subscribed, watch>>

-----------------------------------------------------------------------------
(* The application, the subscription and everybody else *)

Pay(p) ==
    /\ outcome[p] = "none"
    /\ outcome' = [outcome EXCEPT ![p] = "asked"]
    /\ queue' = Append(queue, p)
    /\ UNCHANGED <<node, flight, unheard, drain, reported, lifecycle, watch, faults>>

\* kei.sync(), and what else calls receiveAll for its caller.
Sync ==
    /\ ReceiveAll(1)
    /\ UNCHANGED <<node, submits, reported, lifecycle, watch, faults>>

Start ==
    /\ phase = "new"
    /\ phase' = "starting"
    /\ ReceiveAll(1)
    /\ UNCHANGED <<node, submits, reported, closed, subscribed, watch, faults>>

Subscribe ==
    /\ phase = "subscribing"
    /\ phase' = "live"
    /\ subscribed' = TRUE
    /\ poll' = IF Polling THEN "scheduled" ELSE "off"
    /\ UNCHANGED <<node, submits, drain, reported, closed, notices, seen, news, faults>>

\* kei.close(): Kei.start() has returned, so start() is over.
Close ==
    /\ phase = "live"
    /\ ~closed
    /\ closed' = TRUE
    /\ subscribed' = FALSE
    /\ poll' = "off"
    /\ news' = {}
    /\ seen' = {}
    /\ UNCHANGED <<node, submits, drain, reported, phase, notices, faults>>

\* A microtask of MockNode's notify.
Notice ==
    /\ notices > 0
    /\ notices' = notices - 1
    /\ ReceiveAll(1)
    /\ UNCHANGED <<node, submits, reported, lifecycle, poll, seen, news, faults>>

Poll ==
    /\ poll = "scheduled"
    /\ poll' = "asked"
    /\ news' = ToSet(waiting)
    /\ UNCHANGED <<node, submits, drain, reported, lifecycle, notices, seen, faults>>

\* What the poll announces, and what it remembers having announced.
Announced == news \ seen
Remembered == news

PollAnswer ==
    /\ poll = "asked"
    /\ poll' = "scheduled"
    /\ ReceiveAll(Cardinality(Announced))
    /\ seen' = Remembered
    /\ news' = {}
    /\ UNCHANGED <<node, submits, reported, lifecycle, notices, faults>>

PollFails ==
    /\ poll = "asked"
    /\ Fault
    /\ poll' = "scheduled"
    /\ news' = {}
    /\ UNCHANGED <<node, submits, drain, reported, lifecycle, notices, seen>>

\* Somebody sends to this account.
Arrive(r) ==
    /\ r \notin ToSet(waiting)
    /\ taker[r] = "nobody"
    /\ waiting' = Append(waiting, r)
    /\ notices' = IF subscribed /\ ~Polling THEN notices + 1 ELSE notices
    /\ UNCHANGED <<transport, taker, paid, balance, submits, drain, reported, lifecycle>>
    /\ UNCHANGED <<poll, seen, news, faults>>

RivalCollects(r) ==
    /\ Disturbed
    /\ r \in ToSet(waiting)
    /\ waiting' = Without(waiting, r)
    /\ taker' = [taker EXCEPT ![r] = "rival"]
    /\ balance' = balance + 1
    /\ flight' = Overtaken(flight, "rival")
    /\ UNCHANGED <<transport, paid, queue, outcome, unheard, drain, reported, lifecycle, watch>>

Drain == Fetch \/ FetchAnswer \/ AssetMeta \/ Settle

Submit ==
    \/ \E job \in Job : Draft(job)
    \/ \E b \in flight : Process(b)
    \/ \E b \in flight : ProcessAnswer(b)

Watch == Subscribe \/ Notice \/ Poll \/ PollAnswer

Failures ==
    \/ ReadFails
    \/ \E job \in Job : DraftFails(job)
    \/ \E b \in flight : ProcessTimesOut(b)
    \/ PollFails

Application == Start \/ Sync \/ Close \/ \E p \in Payments : Pay(p)

World == \E r \in Receivables : Arrive(r) \/ RivalCollects(r)

Next == Drain \/ Submit \/ Watch \/ Failures \/ Application \/ World

Spec == Init /\ [][Next]_vars

\* Promises go on settling, the node answering and the timer of the poll firing;
\* the application and the other accounts owe nothing.
Promises == Drain \/ Submit \/ Subscribe \/ Notice
Timer == Poll \/ PollAnswer

FairSpec == Spec /\ WF_vars(Promises) /\ WF_vars(Timer)

-----------------------------------------------------------------------------
(* Properties *)

TypeOK ==
    /\ transport \in Transports
    /\ waiting \in Seq(Receivables)
    /\ taker \in [Receivables -> {"nobody", "us", "rival"}]
    /\ paid \subseteq Payments
    /\ balance \in Nat
    /\ queue \in Seq(Job)
    /\ flight \subseteq Block
    /\ outcome \in [Payments -> {"none", "asked", "ok", "fork", "lost", "insufficient-kei"}]
    /\ unheard \subseteq Job
    /\ pc \in {"idle", "fetch", "answered", "meta", "submit", "settled"}
    /\ todo \in Seq(Receivables)
    /\ rounds \in 0 .. MaxRounds - 1
    /\ receiveAgain \in BOOLEAN
    /\ due \subseteq Receivables
    /\ failure \in {"none", "lost", "fork", "gone"}
    /\ reported \subseteq Receivables
    /\ phase \in {"new", "starting", "subscribing", "live", "failed"}
    /\ {closed, subscribed} \subseteq BOOLEAN
    /\ notices \in Nat
    /\ poll \in {"off", "scheduled", "asked"}
    /\ {seen, news} \subseteq SUBSET Receivables
    /\ faults \in 0 .. MaxFaults

\* Nothing has got in the wallet's way: no call to its node was lost, and no
\* other client of its seed has collected.
Undisturbed == faults = 0

\* Somebody besides the queue may move the frontier: another client of the seed
\* has collected, or a block nobody waits for any more may still land.
Overtakable == unheard # {} \/ \E r \in Receivables : taker[r] = "rival"

\* No block of this wallet loses its place to another block of the same
\* account while it is worked for, signed or sent: submit is serialised.
NoSelfFork == ~Overtakable => \A b \in flight : b.standing # "stale"

\* Whatever a caller was told happened did happen, and what it was told failed
\* has not happened and cannot happen later.  A time-out says neither.
AnswersAreTrue ==
    /\ \A p \in Payments :
         /\ outcome[p] = "ok" => p \in paid
         /\ outcome[p] \in {"fork", "insufficient-kei"} =>
              p \notin paid /\ \A b \in flight : b.job # p
    /\ \A r \in reported : taker[r] = "us"

\* A payment that was collected is announced to onPayment by the time the
\* block's submit has answered, unless that answer was lost or the wallet
\* closed, whatever else fails and whoever else collects.
CollectedIsReported ==
    \A r \in Receivables :
        /\ taker[r] = "us" /\ ~closed /\ r \notin unheard
        /\ \A b \in flight : b.job # r
        => r \in reported

\* A drain that stops, or a payment that is refused, because somebody was
\* faster: somebody was.  Neither a failed read, nor what arrives, nor a payment
\* between two collections makes the wallet lose such a race to itself.  (A
\* rival that moves the frontier under a block of the drain does stop it, with
\* "fork", in process too; receiveOne forgives only the code of a receivable
\* that is gone, and HttpNode does not keep that.)
RacesAreReal ==
    failure \in {"fork", "gone"} \/ (\E p \in Payments : outcome[p] = "fork") => Overtakable

\* What this wallet's callers and listeners are told, in one.
ToldTruly == TypeOK /\ AnswersAreTrue /\ CollectedIsReported /\ RacesAreReal

\* Over HTTP, when receiveAll returns without an error, everything that was
\* waiting when it was called has been collected, whichever drain it joined.
CallersServed ==
    [][Polling /\ pc # "idle" /\ pc' = "idle" /\ failure' = "none" /\ ~closed
         => due \cap ToSet(waiting) = {}]_vars

\* Once started, the wallet over HTTP collects whatever arrives until it is
\* closed or disturbed, without the application calling anything.
EveryArrivalCollected ==
    Polling /\ waiting # <<>> /\ phase = "live" ~> waiting = <<>> \/ closed \/ ~Undisturbed

\* Whoever awaits receiveAll gets an answer, unless the application itself
\* keeps calling it while it runs.
DrainsEnd == <>[][~Sync]_vars => (pc = "fetch" ~> pc = "idle")
=============================================================================
