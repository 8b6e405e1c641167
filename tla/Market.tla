-------------------------------- MODULE Market --------------------------------
(***************************************************************************)
(* createMarket of packages/market/src/market.ts: offer, accept, cancel    *)
(* and cancelExpired of one wallet, and the timer that sweeps its expired  *)
(* listings, while other wallets take and withdraw offers, calls fail and  *)
(* the market is closed.                                                   *)
(*                                                                         *)
(* Between the reads of a call and the moment its block reaches the ledger *)
(* (submit's queue, KeiClient) anything may happen.  Balances are not kept *)
(* here: whether the wallet has enough is a choice at both places where it *)
(* is asked.  What the ledger does with an offer is in Ledger.             *)
(***************************************************************************)
EXTENDS Integers, FiniteSets, FiniteSetsExt

CONSTANTS
    None,
    Callers,        \* calls of the application that may be under way at once
    Sweepers,       \* background sweeps that may be under way at once
    Listed,         \* rows accountSwaps answers: 100 in the code
    Expiries,       \* what the application gives its offers
    Horizon,        \* the longest delay of a timer
    SweepInterval,
    MaxOffers, MaxClock, MaxCalls, MaxFaults   \* bounds of a run

Offers == 1..MaxOffers

Workers == Callers \cup Sweepers

Never == MaxClock + 1

OfferTerms ==
    [author : {"me", "them"}, to : {"anybody", "another"}, expires : 1..Never,
     state : {"open", "accepted", "cancelled"}]

Alarm == [for : 0..MaxClock, due : 0..MaxClock]

ASSUME MarketAssumption ==
    /\ None \notin Nat /\ None \notin OfferTerms /\ None \notin Alarm
    /\ IsFiniteSet(Callers) /\ Callers \cap Sweepers = {}
    /\ Listed \in Nat \ {0}
    /\ Expiries \subseteq 1..MaxClock
    /\ Horizon \in Nat \ {0} /\ SweepInterval \in Nat
    /\ MaxOffers \in Nat \ {0}
    /\ MaxClock \in Nat /\ MaxCalls \in Nat /\ MaxFaults \in Nat

VARIABLES
    clock,
    coded,      \* the node is in process, and its refusals keep their codes
    lot,        \* the offers, in the order of their blocks
    call,       \* what each caller and each sweep is doing
    timer,      \* the one timer: what it is armed for, and when it is due
    closed,
    begun, faults,  \* counted against the bounds
    blind,      \* history: a listing came back empty unread
    promised    \* history: own offers whose call was answered `published'

ledger == <<coded, lot>>
bounds == <<begun, faults, blind>>
vars == <<clock, ledger, call, timer, closed, bounds, promised>>

Idle == [pc |-> "idle", offer |-> None, expires |-> Never, loops |-> FALSE,
         rest |-> {}, answer |-> "none", landed |-> FALSE]

Offer(author, to, expires) ==
    [author |-> author, to |-> to, expires |-> expires, state |-> "open"]

\* The first offer is somebody else's.
Init ==
    /\ clock = 0
    /\ coded \in BOOLEAN
    /\ \E to \in {"anybody", "another"} :
         lot = [h \in Offers |->
                  IF h = 1 THEN Offer("them", to, Never) ELSE None]
    /\ call = [w \in Workers |-> Idle]
    /\ timer = None
    /\ closed = FALSE
    /\ begun = 0 /\ faults = 0 /\ blind = FALSE
    /\ promised = {}

Published == {h \in Offers : lot[h] # None}

Open(h) == lot[h].state = "open"

Mine == {h \in Published : lot[h].author = "me"}

Expired(h) == lot[h].expires <= clock

RaceCode(h) == IF lot[h].state = "accepted" THEN "offer-taken" ELSE "offer-cancelled"

-----------------------------------------------------------------------------
(***************************************************************************)
(* The timer.                                                              *)
(***************************************************************************)
\* The last moment of a run stands for every later one.
Soon(t) == Min({t, MaxClock})

\* An earlier wake-up serves a later expiry too.
KeepsTimer(expires) == timer # None /\ timer.for <= expires

Delay(expires) == Min({Horizon, Max({0, expires - clock}) + 1})

\* arm(): nothing without an expiry, and nothing once closed.
Arm(expires) ==
    timer' = IF closed \/ expires = Never \/ KeepsTimer(expires)
             THEN timer
             ELSE [for |-> Soon(expires), due |-> Soon(clock + Delay(expires))]

\* cancelExpired() is a loop over listings, whoever calls it.
Loop == [Idle EXCEPT !.pc = "listing", !.loops = TRUE]

\* Room for one more sweep: a bound of the run.
Resting == {s \in Sweepers : call[s].pc = "idle"}

AnyOf(set) == CHOOSE x \in set : TRUE

\* Mutant: a checkpoint of a long wait is taken for its end, and then forgotten.
FireAndForget ==
    /\ timer # None
    /\ clock >= timer.due
    /\ timer' = None
    /\ IF timer.for > clock
       THEN UNCHANGED call
       ELSE Resting # {} /\ call' = [call EXCEPT ![AnyOf(Resting)] = Loop]
    /\ UNCHANGED <<clock, ledger, closed, bounds, promised>>

\* The callback: armed again when this was a checkpoint of a longer wait, and
\* otherwise a sweep, beside any that is still running.
Fire ==
    /\ timer # None
    /\ clock >= timer.due
    /\ IF timer.for > clock
       THEN /\ timer' = [timer EXCEPT !.due = Soon(clock + Delay(timer.for))]
            /\ UNCHANGED call
       ELSE /\ timer' = None
            /\ Resting # {} /\ call' = [call EXCEPT ![AnyOf(Resting)] = Loop]
    /\ UNCHANGED <<clock, ledger, closed, bounds, promised>>

Close ==
    /\ ~closed
    /\ closed' = TRUE
    /\ timer' = None
    /\ UNCHANGED <<clock, ledger, call, bounds, promised>>

Tick ==
    /\ clock < MaxClock
    /\ clock' = clock + 1
    /\ UNCHANGED <<ledger, call, timer, closed, bounds, promised>>

-----------------------------------------------------------------------------
(***************************************************************************)
(* How a call begins and ends.                                             *)
(***************************************************************************)
Free(c) == call[c].pc \in {"idle", "answered"}

Begin(c, state) ==
    /\ Free(c)
    /\ begun < MaxCalls
    /\ begun' = begun + 1
    /\ call' = [call EXCEPT ![c] = state]

Answered(w, answer) ==
    [Idle EXCEPT !.pc = "answered", !.offer = call[w].offer,
                 !.landed = call[w].landed, !.answer = answer]

Refused(h, answer) ==
    [Idle EXCEPT !.pc = "answered", !.offer = h, !.answer = answer]

Answer(c, answer) == call' = [call EXCEPT ![c] = Answered(c, answer)]

Goes(w, pc) == call' = [call EXCEPT ![w] = [@ EXCEPT !.pc = pc]]

\* Mutant: a sweep that throws is over.
ThrowQuietly(w) ==
    IF w \in Sweepers
    THEN call' = [call EXCEPT ![w] = Idle] /\ UNCHANGED timer
    ELSE Answer(w, "threw") /\ UNCHANGED timer

\* A sweep that throws asks for the next one.
Throw(w) ==
    IF w \in Sweepers
    THEN call' = [call EXCEPT ![w] = Idle] /\ Arm(Soon(clock + SweepInterval))
    ELSE Answer(w, "threw") /\ UNCHANGED timer

\* A read fails, a submission does not reach the node, or its answer is lost.
Fails(w) ==
    /\ ~Free(w)
    /\ faults < MaxFaults
    /\ faults' = faults + 1
    /\ Throw(w)
    /\ UNCHANGED <<clock, ledger, closed, begun, blind, promised>>

-----------------------------------------------------------------------------
(***************************************************************************)
(* offer(): sell() and bid() are the same.                                 *)
(***************************************************************************)
Offering(c, expires) ==
    /\ Cardinality(Published) + Cardinality({d \in Callers : call[d].pc = "offering"})
         < MaxOffers
    /\ \/ Begin(c, [Idle EXCEPT !.pc = "offering", !.expires = expires])
       \/ Begin(c, Refused(None, "insufficient-balance"))
    /\ UNCHANGED <<clock, ledger, timer, closed, faults, blind, promised>>

\* The ledger counts the balance again at landing.  Over HTTP the code of a
\* refusal is lost (KeiClient).
NotEnough == IF coded THEN "insufficient-balance" ELSE "node-error"

OfferLands(c) ==
    /\ call[c].pc = "offering"
    /\ \/ LET h == Cardinality(Published) + 1
          IN  /\ lot' = [lot EXCEPT ![h] =
                           Offer("me", "anybody", call[c].expires)]
              /\ call' = [call EXCEPT ![c] =
                            [@ EXCEPT !.pc = "published", !.offer = h, !.landed = TRUE]]
       \/ Answer(c, NotEnough) /\ UNCHANGED lot
    /\ UNCHANGED <<clock, coded, timer, closed, bounds, promised>>

\* The offer is read back, and only then is the timer armed for it.
ReadBack(c) ==
    /\ call[c].pc = "published"
    /\ Arm(call[c].expires)
    /\ Answer(c, "published")
    /\ promised' = promised \cup {call[c].offer}
    /\ UNCHANGED <<clock, ledger, closed, bounds>>

-----------------------------------------------------------------------------
(***************************************************************************)
(* accept().                                                               *)
(***************************************************************************)
Accepting(c, h) ==
    /\ \/ h \in Mine /\ Begin(c, Refused(h, "self-accept"))
       \/ /\ h \notin Mine /\ ~Open(h)
          /\ Begin(c, Refused(h, RaceCode(h)))
       \/ /\ h \notin Mine /\ Open(h)
          /\ lot[h].to = "another"
          /\ Begin(c, Refused(h, "not-the-counterparty"))
       \/ /\ h \notin Mine /\ Open(h)
          /\ lot[h].to = "anybody"
          /\ \/ Begin(c, [Idle EXCEPT !.pc = "accepting", !.offer = h])
             \/ Begin(c, Refused(h, "insufficient-balance"))
    /\ UNCHANGED <<clock, ledger, timer, closed, faults, blind, promised>>

LostRace(h) == IF coded THEN RaceCode(h) ELSE "node-error"

\* Mutant: the state an accept or a cancel read is taken for the state it finds.
StillOpenIfRead(h) == TRUE

StillOpen(h) == Open(h)

AcceptLands(c) ==
    /\ call[c].pc = "accepting"
    /\ LET h == call[c].offer
       IN  \/ /\ StillOpen(h)
              /\ lot' = [lot EXCEPT ![h].state = "accepted"]
              /\ call' = [call EXCEPT ![c] = [@ EXCEPT !.pc = "collecting", !.landed = TRUE]]
           \/ ~StillOpen(h) /\ Answer(c, LostRace(h)) /\ UNCHANGED lot
           \/ StillOpen(h) /\ Answer(c, NotEnough) /\ UNCHANGED lot
    /\ UNCHANGED <<clock, coded, timer, closed, bounds, promised>>

Collected(c) ==
    /\ call[c].pc = "collecting"
    /\ Answer(c, "settled")
    /\ UNCHANGED <<clock, ledger, timer, closed, bounds, promised>>

-----------------------------------------------------------------------------
(***************************************************************************)
(* cancel(), cancelExpired() and the background sweep.                     *)
(***************************************************************************)
Cancelling(c, h) ==
    /\ \/ h \notin Mine /\ Begin(c, Refused(h, "not-your-offer"))
       \/ h \in Mine /\ ~Open(h) /\ Begin(c, Refused(h, RaceCode(h)))
       \/ /\ h \in Mine /\ Open(h)
          /\ Begin(c, [Idle EXCEPT !.pc = "cancelling", !.offer = h])
    /\ UNCHANGED <<clock, ledger, timer, closed, faults, blind, promised>>

CancellingExpired(c) ==
    /\ Begin(c, Loop)
    /\ UNCHANGED <<clock, ledger, timer, closed, faults, blind, promised>>

\* The newest of the wallet's open offers.
OpenOffers ==
    LET own == {h \in Mine : Open(h)}
    IN  {h \in own : Cardinality({i \in own : i > h}) < Listed}

\* mine(): a chain that cannot be read is a gap in its coverage, and the
\* listings come back empty.
Listing(rows) ==
    \/ rows = OpenOffers /\ UNCHANGED <<faults, blind>>
    \/ /\ rows = {}
       /\ faults < MaxFaults
       /\ faults' = faults + 1
       /\ blind' = TRUE

ToCancel(rows) == {h \in rows : Expired(h)}

ListExpired(w) ==
    /\ call[w].pc = "listing"
    /\ \E rows \in {OpenOffers, {}} :
         /\ Listing(rows)
         /\ call' = [call EXCEPT ![w] = [@ EXCEPT !.pc = "sweeping", !.rest = ToCancel(rows)]]
    /\ UNCHANGED <<clock, ledger, timer, closed, begun, promised>>

\* Mutant: the market is not asked again before the cancel is signed.
GoesOn(w) == TRUE

MayGoOn(w) == w \in Callers \/ ~closed

\* Each is read once more.  One that has settled meanwhile is passed over.
SweepNext(w) ==
    /\ call[w].pc = "sweeping"
    /\ call[w].rest # {}
    /\ LET h == Min(call[w].rest)
       IN  IF MayGoOn(w)
           THEN call' = [call EXCEPT ![w] =
                    [@ EXCEPT !.pc = IF Open(h) THEN "cancelling" ELSE "sweeping",
                              !.offer = h, !.rest = call[w].rest \ {h}, !.landed = FALSE]]
           ELSE call' = [call EXCEPT ![w] = Idle]
    /\ UNCHANGED <<clock, ledger, timer, closed, bounds, promised>>

\* A cancel that lost to a buyer: a loop knows it by the code, and goes on.
Lost(w, h) ==
    \/ ~call[w].loops /\ Answer(w, LostRace(h)) /\ UNCHANGED timer
    \/ call[w].loops /\ coded /\ Goes(w, "sweeping") /\ UNCHANGED timer
    \/ call[w].loops /\ ~coded /\ Throw(w)

CancelLands(w) ==
    /\ call[w].pc = "cancelling"
    /\ LET h == call[w].offer
       IN  \/ /\ StillOpen(h)
              /\ lot' = [lot EXCEPT ![h].state = "cancelled"]
              /\ call' = [call EXCEPT ![w] = [@ EXCEPT !.pc = "cancelled", !.landed = TRUE]]
              /\ UNCHANGED timer
           \/ ~StillOpen(h) /\ Lost(w, h) /\ UNCHANGED lot
    /\ UNCHANGED <<clock, coded, closed, bounds, promised>>

Cancelled(w) ==
    /\ call[w].pc = "cancelled"
    /\ IF call[w].loops THEN Goes(w, "sweeping") ELSE Answer(w, "cancelled")
    /\ UNCHANGED <<clock, ledger, timer, closed, bounds, promised>>

SweepEnds(w) ==
    /\ call[w].pc = "sweeping"
    /\ call[w].rest = {}
    /\ IF w \in Callers
       THEN Answer(w, "swept")
       ELSE IF closed THEN call' = [call EXCEPT ![w] = Idle]
                      ELSE Goes(w, "rereading")
    /\ UNCHANGED <<clock, ledger, timer, closed, bounds, promised>>

Earliest(rows) == Min({Never} \cup {lot[h].expires : h \in rows})

\* The sweep ends by arming the timer for the next of what is still open.
Reread(s) ==
    /\ call[s].pc = "rereading"
    /\ \E rows \in {OpenOffers, {}} :
         /\ Listing(rows)
         /\ Arm(Earliest(rows))
    /\ call' = [call EXCEPT ![s] = Idle]
    /\ UNCHANGED <<clock, ledger, closed, begun, promised>>

-----------------------------------------------------------------------------
(***************************************************************************)
(* Other wallets.                                                          *)
(***************************************************************************)
Settles(h, state) ==
    /\ Open(h)
    /\ lot' = [lot EXCEPT ![h].state = state]
    /\ UNCHANGED <<clock, coded, call, timer, closed, bounds, promised>>

Taken(h) == Settles(h, "accepted")

Withdrawn(h) == h \notin Mine /\ Settles(h, "cancelled")

-----------------------------------------------------------------------------
Proceed(w) ==
    \/ OfferLands(w) \/ ReadBack(w)
    \/ AcceptLands(w) \/ Collected(w)
    \/ ListExpired(w) \/ SweepNext(w) \/ CancelLands(w) \/ Cancelled(w)
    \/ SweepEnds(w) \/ Reread(w)

Next ==
    \/ \E c \in Callers :
         \/ \E expires \in Expiries \cup {Never} : Offering(c, expires)
         \/ \E h \in Published : Accepting(c, h) \/ Cancelling(c, h)
         \/ CancellingExpired(c)
    \/ \E w \in Workers : Proceed(w) \/ Fails(w)
    \/ \E h \in Published : Taken(h) \/ Withdrawn(h)
    \/ Fire \/ Close \/ Tick

Spec == Init /\ [][Next]_vars

\* Time passes, timers fire, and whatever is awaited comes back.
FairSpec ==
    /\ Spec
    /\ WF_vars(Tick)
    /\ WF_vars(Fire)
    /\ \A w \in Workers : WF_vars(Proceed(w))

-----------------------------------------------------------------------------
(***************************************************************************)
(* Properties.                                                             *)
(***************************************************************************)
TypeOK ==
    /\ clock \in 0..MaxClock
    /\ timer # None => timer.for \in 0..MaxClock /\ timer.due \in 0..MaxClock
    /\ closed => timer = None
    /\ \A h \in Published :
         /\ lot[h].state \in {"open", "accepted", "cancelled"}
         /\ lot[h].expires \in 1..Never
    /\ \A w \in Workers : call[w].rest \subseteq Mine
    /\ \A s \in Sweepers : call[s].pc # "answered"
    /\ promised \subseteq Mine

Refusals == {"insufficient-balance", "self-accept", "not-the-counterparty",
             "not-your-offer", "offer-taken", "offer-cancelled", "node-error"}

\* What a call is answered is what happened to the offer: a refused call has
\* not moved anything, a race is reported as the race it was, and nothing that
\* was reported as settled or cancelled turns out otherwise (accept, cancel).
AnswersAreTrue ==
    \A c \in Callers :
        LET answer == call[c].answer
            state == IF call[c].offer = None THEN "none" ELSE lot[call[c].offer].state
        IN  /\ answer \in Refusals => ~call[c].landed
            /\ answer \in {"settled", "cancelled", "published"} => call[c].landed
            /\ answer \in {"settled", "offer-taken"} => state = "accepted"
            /\ answer \in {"cancelled", "offer-cancelled"} => state = "cancelled"

Awake == timer # None \/ \E s \in Sweepers : call[s].pc # "idle"

\* As long as an own listing that was published with an expiry is open, the
\* timer is armed or a sweep under way, through failed sweeps, sweeps side by
\* side and settlements in between (arm, sweep); provided that no listing of
\* the wallet's own chain came back empty because the node could not be read,
\* and that one listing shows all of the wallet's open offers: those beyond the
\* newest Listed are passed over.
NoListingForgotten ==
    ~closed /\ ~blind =>
        \A h \in promised : Open(h) /\ lot[h].expires # Never => Awake

\* "A transient read failure must not orphan an expired lock until another
\* offer happens to be written" (market.ts:475), without the proviso.
NoListingOrphaned ==
    ~closed => \A h \in promised : Open(h) /\ lot[h].expires # Never => Awake

\* After close() no sweep begins another cancel, wherever it was caught
\* (cancelOfferChecked's shouldSubmit).
ClosedMeansClosed ==
    [][closed => \A s \in Sweepers :
         call'[s].pc = "cancelling" => call[s].pc = "cancelling"]_vars

\* Nothing but an expired listing is ever cancelled without the application
\* having asked for it (cancelExpired).
OnlyExpiredAreSwept ==
    [][\A h \in Mine :
        Open(h) /\ lot'[h].state = "cancelled" /\ ~Expired(h) =>
         \E c \in Callers : call[c].pc = "cancelling" /\ ~call[c].loops
                              /\ call[c].offer = h]_vars

\* An expired listing comes home: it is taken or cancelled in the end, unless
\* the market is closed, with the provisos of NoListingForgotten.
ExpiredComesHome ==
    \A h \in Offers :
        (h \in promised /\ Expired(h)) ~>
            (closed \/ blind \/ (h \in Published /\ ~Open(h)))

\* What callers of the market are told, in one.
CallersToldTruly == TypeOK /\ AnswersAreTrue

\* The sweep keeps to what it is for, and stops when it is told to.
SweepKeepsOut == ClosedMeansClosed /\ OnlyExpiredAreSwept
=============================================================================
