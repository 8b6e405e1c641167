---------------------------- MODULE MarketStorage ----------------------------
(***************************************************************************)
(* updateEnvelope and loadEnvelope of packages/market/src/storage.ts: any  *)
(* number of callers of one store, each loading the envelope, computing    *)
(* its change, and replacing the envelope if the revision is still the one *)
(* it loaded.  The adapter is the memory adapter of that file or a durable *)
(* one, which the SDK reads back before it believes it.                    *)
(*                                                                         *)
(* A page that is malformed is refused before the store is touched.  A    *)
(* caller's deadline or signal may end any wait.  A replacement already sent  *)
(* to the adapter then happens all the same, later: it is `adrift'.  A     *)
(* durable adapter may drop any write it acknowledges, and keep the next   *)
(* one: a quota that is full for a while, a write that was lost.           *)
(***************************************************************************)
EXTENDS MarketEnvelope

CONSTANTS
    Jobs,          \* what may be asked of the store
    Callers,       \* calls that may be under way at once
    MaxAttempts,   \* 8 in the code
    None,          \* no envelope stored
    MaxCalls, MaxStops, MaxClears   \* bounds of a run

ASSUME StorageAssumption ==
    /\ MaxAttempts \in Nat \ {0}
    /\ MaxCalls \in Nat /\ MaxStops \in Nat /\ MaxClears \in Nat
    /\ None \notin Nat /\ None \notin Envelope
    /\ Jobs \subseteq Job

VARIABLES
    durable,       \* what the adapter declares: kept, or in memory
    stored,        \* what the adapter keeps, or None
    life,          \* clears so far: stands for the random cursor key
    call,          \* the state of each caller
    adrift,        \* replacements whose caller has stopped waiting
    calls, stops,  \* counted against the bounds
    landed,        \* history: calls whose replacement the adapter has kept
    lost,          \* history: writes acknowledged and dropped
    outrun,        \* history: calls whose dropped write another's has replaced,
                   \* under the very revision it was to have
    told,          \* history: what each call that has ended was answered
    counted,       \* history: announcements kept as new ones, in this life
    reading        \* one read, page after page

asked == <<calls, stops>>
kept == <<stored, landed, counted>>
losses == <<lost, outrun>>
vars == <<durable, stored, life, call, adrift, calls, stops, landed, lost, outrun,
          told, counted, reading>>

Idle == [pc |-> "idle"]

Current == IF stored = None THEN EmptyEnvelope(life) ELSE stored

\* The revision that compare-and-swap is to find.
Expected == IF stored = None THEN None ELSE stored.revision

Init ==
    /\ durable \in BOOLEAN
    /\ stored = None
    /\ life = 0
    /\ call = [c \in Callers |-> Idle]
    /\ adrift = {}
    /\ calls = 0
    /\ stops = 0
    /\ landed = {}
    /\ lost = {}
    /\ outrun = {}
    /\ told = [id \in 1..MaxCalls |-> "nothing"]
    /\ counted = 0
    /\ reading = Idle

-----------------------------------------------------------------------------
(***************************************************************************)
(* updateEnvelope.                                                         *)
(***************************************************************************)
Answer(c, answer) ==
    /\ told' = [told EXCEPT ![call[c].id] = answer]
    /\ call' = [call EXCEPT ![c] = Idle]

Loading(id, job, attempt) ==
    [pc |-> "loading", id |-> id, job |-> job, attempt |-> attempt]

Start(c, job) ==
    /\ call[c] = Idle
    /\ calls < MaxCalls
    /\ calls' = calls + 1
    /\ IF WellFormed(job)
       THEN /\ call' = [call EXCEPT ![c] = Loading(calls + 1, job, 1)]
            /\ UNCHANGED told
       ELSE /\ told' = [told EXCEPT ![calls + 1] = "refused"]
            /\ UNCHANGED call
    /\ UNCHANGED <<durable, kept, losses, life, adrift, stops, reading>>

\* load() resolves, and the change is computed from it before anything else
\* runs.  A change that throws leaves the store as it is.
Load(c) ==
    /\ call[c].pc = "loading"
    /\ LET job == call[c].job
       IN  IF Refuses(Current, job)
           THEN Answer(c, "refused")
           ELSE /\ call' = [call EXCEPT ![c] =
                     [pc |-> "swapping", id |-> call[c].id, job |-> job,
                      attempt |-> call[c].attempt, expected |-> Expected,
                      next |-> After(Current, job),
                      isNew |-> job.kind = "announce" /\ ~Replayed(Current, job)]]
                /\ UNCHANGED told
    /\ UNCHANGED <<durable, kept, losses, life, adrift, asked, reading>>

\* The adapter's replacement, atomic; `true' is acknowledged if Matches.
\* Mutant: the adapter replaces whatever is there.
MatchesAnything(p) == TRUE

Matches(p) == Expected = p.expected

\* The calls whose dropped write was to have this revision.
Under(revision) == {w.id : w \in {v \in lost : v.revision = revision}}

Keep(p) ==
    \/ /\ ~Matches(p)
       /\ UNCHANGED <<kept, losses>>
    \/ /\ Matches(p)
       /\ stored' = p.next
       /\ landed' = landed \cup {p.id}
       /\ counted' = IF p.isNew THEN counted + 1 ELSE counted
       /\ outrun' = outrun \cup Under(p.next.revision)
       /\ UNCHANGED lost
    \/ /\ Matches(p)
       /\ durable
       /\ lost' = lost \cup {[id |-> p.id, revision |-> p.next.revision]}
       /\ UNCHANGED <<kept, outrun>>

Swap(c) ==
    /\ call[c].pc = "swapping"
    /\ Keep(call[c])
    /\ \/ /\ Matches(call[c])
          /\ IF durable
             THEN /\ call' = [call EXCEPT ![c].pc = "confirming"]
                  /\ UNCHANGED told
             ELSE Answer(c, "done")
       \/ /\ ~Matches(call[c])
          /\ call[c].attempt < MaxAttempts
          /\ call' = [call EXCEPT ![c] =
                        Loading(call[c].id, call[c].job, call[c].attempt + 1)]
          /\ UNCHANGED told
       \/ /\ ~Matches(call[c])
          /\ call[c].attempt = MaxAttempts
          /\ Answer(c, "conflict")
    /\ UNCHANGED <<durable, life, adrift, asked, reading>>

\* Only the number is compared, not what it is the number of.
Confirms(p) == stored # None /\ stored.revision = p.next.revision

Confirm(c) ==
    /\ call[c].pc = "confirming"
    /\ Answer(c, IF Confirms(call[c]) THEN "done" ELSE "unconfirmed")
    /\ UNCHANGED <<durable, kept, losses, life, adrift, asked, reading>>

\* The deadline passes or the signal aborts while the call waits.
Stop(c) ==
    /\ call[c] # Idle
    /\ stops < MaxStops
    /\ stops' = stops + 1
    /\ adrift' = IF call[c].pc = "swapping" THEN adrift \cup {call[c]} ELSE adrift
    /\ Answer(c, "stopped")
    /\ UNCHANGED <<durable, kept, losses, life, calls, reading>>

\* A replacement nobody waits for any more reaches the adapter.
Land(p) ==
    /\ Keep(p)
    /\ adrift' = adrift \ {p}
    /\ UNCHANGED <<durable, life, call, asked, told, reading>>

-----------------------------------------------------------------------------
(***************************************************************************)
(* What happens to the store from outside.                                 *)
(***************************************************************************)
\* A memory store is cleared between calls, as its tests do.  The method itself
\* waits for nothing: cleared between a call's load and its replacement, a
\* store takes in what was computed for its former life, and that is left out.
Clear ==
    /\ ~durable
    /\ life < MaxClears
    /\ adrift = {}
    /\ \A c \in Callers : call[c].pc # "swapping"
    /\ stored' = None
    /\ life' = life + 1
    /\ counted' = 0
    /\ UNCHANGED <<durable, call, adrift, asked, landed, losses, told, reading>>

-----------------------------------------------------------------------------
(***************************************************************************)
(* offers(), trades() and participants(), read to the end.  A page ends at *)
(* its limit or its byte budget, after at least one row.                   *)
(***************************************************************************)
Page(kind, rest, n, read) ==
    reading' =
        [pc |-> IF n = Len(rest) THEN "complete" ELSE "paging",
         kind |-> kind, shot |-> read.shot, since |-> read.since,
         got |-> read.got \o SubSeq(rest, 1, n),
         sights |-> read.sights \cup
                      Sights(Shown(kind, Current, SubSeq(rest, 1, n))),
         cursor |-> IF n = Len(rest) THEN None
                                     ELSE Cursor(kind, Current, rest[n])]

\* What is there when a read begins: its rows, and when each was last observed.
Begun(kind) ==
    [shot |-> View(kind, Current), since |-> Sights(Current.offers),
     got |-> <<>>, sights |-> {}]

FirstPage(kind) ==
    /\ reading = Idle
    /\ LET rest == View(kind, Current)
       IN  \E n \in (IF rest = <<>> THEN {0} ELSE 1..Len(rest)) :
             Page(kind, rest, n, Begun(kind))
    /\ UNCHANGED <<durable, kept, losses, life, call, adrift, asked, told>>

NextPage ==
    /\ reading.pc = "paging"
    /\ IF Accepts(reading.kind, Current, reading.cursor)
       THEN LET rest == Beyond(reading.kind, Current, reading.cursor)
            IN  \E n \in 1..Len(rest) :
                  Page(reading.kind, rest, n, reading)
       ELSE reading' = [pc |-> "refused"]
    /\ UNCHANGED <<durable, kept, losses, life, call, adrift, asked, told>>

-----------------------------------------------------------------------------
Next ==
    \/ \E c \in Callers :
         \/ \E job \in Jobs : Start(c, job)
         \/ Load(c) \/ Swap(c) \/ Confirm(c) \/ Stop(c)
    \/ \E p \in adrift : Land(p)
    \/ Clear
    \/ \E kind \in Kinds : FirstPage(kind)
    \/ NextPage

Spec == Init /\ [][Next]_vars

-----------------------------------------------------------------------------
(***************************************************************************)
(* Properties.                                                             *)
(***************************************************************************)
\* The store always opens again: every table is within its retention and no
\* revision of a table is ahead of the store's, whatever was committed
\* (validateEnvelope); calls, answers and counts are what they should be.
TypeOK ==
    /\ stored # None => Opens(stored) /\ stored.cursorKey = life
    /\ life \in 0..MaxClears
    /\ durable \in BOOLEAN
    /\ \A c \in Callers :
         call[c].pc \in {"idle", "loading", "swapping", "confirming"}
    /\ \A p \in adrift : p.pc = "swapping"
    /\ calls \in 0..MaxCalls
    /\ stops \in 0..MaxStops
    /\ landed \subseteq 1..calls
    /\ \A id \in 1..MaxCalls :
         told[id] \in {"nothing", "done", "refused", "conflict",
                       "unconfirmed", "stopped"}
    /\ counted \in 0..calls
    /\ reading.pc \in {"idle", "paging", "complete", "refused"}

\* A call that was answered `done' has been committed, but for one case that
\* confirmDurable cannot tell: the adapter dropped its write, and before the
\* read-back another call's commit took the revision it was to have
\* (storage.ts:319).  One reported as refused or lost to eight competing writers
\* has left nothing in the store, then or later (storage.ts:288-299).
AnswersAreTrue ==
    \A id \in 1..MaxCalls :
        /\ told[id] = "done" => id \in landed \/ id \in outrun
        /\ told[id] \in {"refused", "conflict"} =>
             /\ id \notin landed
             /\ \A p \in adrift : p.id # id

\* Whatever callers overlap, are stopped, retry or land late: the store only
\* ever changes by one whole job applied to what it held at that moment.
Atomic == INSTANCE AtomicMarketStore

ImplementsAtomic == Atomic!Spec

NeverEarlier(sights, since) ==
    \A s \in sights, f \in since : s.hash = f.hash => s.last >= f.last

\* Pages read one after the other with accepted cursors are one snapshot:
\* together exactly the rows of the first page's moment, without a gap or a
\* duplicate, whatever was committed, compacted or cleared meanwhile (offers(),
\* trades() and participants() and the cursors they check).  Only when an offer
\* was last observed, which moves no revision, may be shown later than it was
\* at that moment, and never earlier (store.ts:675-680).
OneSnapshot ==
    /\ reading.pc = "paging" => IsPrefix(reading.got, reading.shot)
    /\ reading.pc = "complete" => reading.got = reading.shot
    /\ reading.pc \in {"paging", "complete"} =>
         NeverEarlier(reading.sights, reading.since)

\* Folding loses no announcement: as long as no roster row had to be evicted,
\* the counts add up to the announcements accepted as new ones (compact).
NothingForgotten ==
    stored # None /\ "observations" \notin stored.dropped =>
        Sightings(stored.observations) = counted

\* While a row stays in the store its terms never change and a settlement is
\* final, in whatever order stale and fresh pages are committed (reconcileOffer).
SettledStays ==
    [][stored # None /\ stored' # None =>
         \A o \in stored.offers, n \in stored'.offers :
            o.hash = n.hash =>
                /\ n.terms = o.terms
                /\ Settled(o) => n.state = o.state /\ n.by = o.by]_stored

\* While a watermark stays in the store it never moves back, though a poll
\* that read earlier may commit later (materialize).
WatermarksForward ==
    [][stored # None /\ stored' # None =>
         \A c \in stored.checkpoints, d \in stored'.checkpoints :
            c.key = d.key => d = c \/ Newer(d, c)]_stored

\* What a caller of the store may rely on, in one.
StoreKeepsItsWord == TypeOK /\ AnswersAreTrue /\ OneSnapshot /\ NothingForgotten

\* What has been told of the market is not taken back.
NothingTakenBack == SettledStays /\ WatermarksForward
=============================================================================
