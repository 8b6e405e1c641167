---------------------------- MODULE MarketProofs ----------------------------
(***************************************************************************)
(* Proofs about Market: what callers are told, what the sweep leaves       *)
(* alone, and that an expiring listing keeps it awake, for any number of   *)
(* callers, sweeps and offers. And about MarketBooks: what books and       *)
(* reconciliations say, for any market, directory and questions.           *)
(***************************************************************************)
EXTENDS Market, MarketBooks, SumTheorems

(***************************************************************************)
(* The inductive invariant: what a call may rely on where it is.           *)
(***************************************************************************)

\* Where only a call of the application comes, and where a loop of cancels does.
OfCallers == {"offering", "published", "accepting", "collecting", "answered"}
OfLoops == {"listing", "sweeping", "rereading"}
Places == {"idle", "cancelling", "cancelled"} \cup OfCallers \cup OfLoops

Answers == Refusals \cup {"none", "settled", "cancelled", "published", "swept", "threw"}

CallType ==
    [pc : Places, offer : Offers \cup {None}, expires : 1..Never, loops : BOOLEAN,
     rest : SUBSET Offers, answer : Answers, landed : BOOLEAN]

\* The answer of a call and the offer it is about.
Told(k, lots) ==
    /\ k.answer \in Refusals => ~k.landed
    /\ k.answer \in {"settled", "cancelled", "published"} => k.landed
    /\ k.answer \in {"settled", "offer-taken"} =>
           k.offer # None /\ lots[k.offer].state = "accepted"
    /\ k.answer \in {"cancelled", "offer-cancelled"} =>
           k.offer # None /\ lots[k.offer].state = "cancelled"

\* What call w knows of its offer stays true: what it has read of it cannot
\* change any more, or has not been acted on yet.
Sound(k, w, lots, now) ==
    /\ k \in CallType
    /\ \A h \in k.rest : lots[h] # None /\ lots[h].author = "me" /\ lots[h].expires <= now
    /\ k.offer # None => lots[k.offer] # None
    /\ w \in Sweepers => k.pc \notin OfCallers /\ (k.pc # "idle" => k.loops)
    /\ k.pc \in OfLoops => k.loops
    /\ k.pc = "offering" => k.offer = None /\ ~k.landed
    /\ k.pc = "published" => /\ k.landed /\ k.offer # None
                             /\ lots[k.offer].author = "me"
                             /\ lots[k.offer].expires = k.expires
    /\ k.pc \in {"accepting", "cancelling"} => k.offer # None /\ ~k.landed
    /\ k.pc = "cancelling" /\ k.loops => lots[k.offer].expires <= now
    /\ k.pc = "collecting" => /\ k.offer # None /\ k.landed
                              /\ lots[k.offer].state = "accepted"
    /\ k.pc = "cancelled" => /\ k.offer # None /\ k.landed
                             /\ lots[k.offer].state = "cancelled"
    /\ k.pc # "answered" => k.answer = "none"
    /\ Told(k, lots)

CallsSound(cs, lots, now) ==
    /\ cs = [w \in Workers |-> cs[w]]
    /\ \A w \in Workers : Sound(cs[w], w, lots, now)

OfferingIn(cs) == {c \in Callers : cs[c].pc = "offering"}
PublishedIn(lots) == {h \in Offers : lots[h] # None}

\* Every offer under way has a place in the lot.
PlacesLeft(cs, lots) ==
    \E n \in 1..MaxOffers :
        PublishedIn(lots) = 1..n /\ n + Cardinality(OfferingIn(cs)) <= MaxOffers

LotsType == [Offers -> OfferTerms \cup {None}]

MarketInv ==
    /\ clock \in 0..MaxClock
    /\ lot \in LotsType
    /\ CallsSound(call, lot, clock)
    /\ PlacesLeft(call, lot)
    /\ timer \in Alarm \cup {None}
    /\ closed => timer = None
    /\ promised \subseteq Mine
-----------------------------------------------------------------------------
(* numbers                                                                 *)

LEMMA MinIs ==
    ASSUME NEW S \in SUBSET Nat, S # {}
    PROVE  Min(S) \in S /\ \A n \in S : Min(S) <= n
BY LeastNumber DEF Min

LEMMA SoonIs ==
    ASSUME NEW t \in Nat
    PROVE  Soon(t) \in 0..MaxClock
<1>1. MaxClock \in Nat
  BY MarketAssumption
<1>2. {t, MaxClock} \in SUBSET Nat /\ {t, MaxClock} # {}
  BY <1>1
<1>3. Min({t, MaxClock}) \in {t, MaxClock} /\ Min({t, MaxClock}) <= MaxClock
  BY <1>2, MinIs
<1> QED BY <1>1, <1>3 DEF Soon

LEMMA DelayIs ==
    ASSUME NEW expires \in Nat, NEW now \in Nat, clock = now
    PROVE  Delay(expires) \in Nat
<1> DEFINE left == Max({0, expires - clock})
<1>1. left \in Nat
  <2> DEFINE x == expires - clock
  <2>1. x \in Int
    OBVIOUS
  <2> HIDE DEF x
  <2>2. \E m \in {0, x} : \A y \in {0, x} : m >= y
    <3>1. CASE x <= 0
      BY <2>1, <3>1
    <3>2. CASE ~(x <= 0)
      BY <2>1, <3>2
    <3> QED BY <3>1, <3>2
  <2>3. Max({0, x}) \in {0, x} /\ \A y \in {0, x} : Max({0, x}) >= y
    BY <2>2 DEF Max
  <2>4. Max({0, x}) \in Nat
    BY <2>1, <2>3
  <2> QED BY <2>4 DEF x
<1> HIDE DEF left
<1>2. {Horizon, left + 1} \in SUBSET Nat /\ {Horizon, left + 1} # {}
  BY <1>1, MarketAssumption
<1>3. Min({Horizon, left + 1}) \in Nat
  BY <1>2, MinIs
<1> QED BY <1>3 DEF Delay, left

\* Arming leaves an alarm, and the timer as it was when nothing is to be done.
LEMMA ArmIs ==
    ASSUME NEW expires \in Nat, clock \in 0..MaxClock, timer \in Alarm \cup {None},
           closed => timer = None, Arm(expires)
    PROVE  /\ timer' \in Alarm \cup {None}
           /\ closed => timer' = None
           /\ ~closed /\ expires # Never => timer' # None
           /\ timer # None => timer' # None
<1>1. clock \in Nat
  BY MarketAssumption
<1>2. /\ Soon(expires) \in 0..MaxClock
      /\ Soon(clock + Delay(expires)) \in 0..MaxClock
  <2>1. Delay(expires) \in Nat
    BY <1>1, DelayIs
  <2>2. clock + Delay(expires) \in Nat
    BY <1>1, <2>1
  <2> QED BY <2>2, SoonIs
<1>3. [for |-> Soon(expires), due |-> Soon(clock + Delay(expires))] \in Alarm
  BY <1>2 DEF Alarm
<1>4. None \notin Alarm
  BY MarketAssumption
<1>5. CASE closed \/ expires = Never \/ KeepsTimer(expires)
  BY <1>5 DEF Arm, KeepsTimer
<1>6. CASE ~(closed \/ expires = Never \/ KeepsTimer(expires))
  <2>1. timer' = [for |-> Soon(expires), due |-> Soon(clock + Delay(expires))]
    BY <1>6 DEF Arm
  <2> HIDE DEF Arm
  <2> QED BY <1>3, <1>4, <1>6, <2>1
<1> QED BY <1>5, <1>6

-----------------------------------------------------------------------------
(* the offers only move on                                                 *)

MovesOn(lots, lots2) ==
    \A h \in Offers :
        lots[h] # None =>
            /\ lots2[h] # None
            /\ lots2[h].author = lots[h].author
            /\ lots2[h].expires = lots[h].expires
            /\ lots[h].state # "open" => lots2[h].state = lots[h].state

LEMMA StaysSound ==
    ASSUME NEW k, NEW w, NEW lots, NEW lots2, NEW now \in Nat, NEW now2 \in Nat,
           lots \in LotsType, Sound(k, w, lots, now), MovesOn(lots, lots2), now <= now2
    PROVE  Sound(k, w, lots2, now2)
<1>1. /\ k \in CallType /\ k.rest \in SUBSET Offers /\ k.offer \in Offers \cup {None}
      /\ \A h \in k.rest : lots[h] # None /\ lots[h].author = "me" /\ lots[h].expires <= now
      /\ k.offer # None => lots[k.offer] # None
  BY DEF Sound, CallType
<1>2. \A h \in Offers : lots[h] # None => lots[h].expires \in Nat
  <2>1. \A h \in Offers : lots[h] # None => lots[h] \in OfferTerms
    BY DEF LotsType
  <2>2. Never \in Nat
    BY MarketAssumption DEF Never
  <2> QED BY <2>1, <2>2 DEF OfferTerms
<1>3. \A h \in k.rest : lots2[h] # None /\ lots2[h].author = "me" /\ lots2[h].expires <= now2
  BY <1>1, <1>2 DEF MovesOn
<1>4. k.offer # None =>
          /\ lots2[k.offer] # None
          /\ lots2[k.offer].author = lots[k.offer].author
          /\ lots2[k.offer].expires = lots[k.offer].expires
          /\ lots[k.offer].state # "open" => lots2[k.offer].state = lots[k.offer].state
  BY <1>1 DEF MovesOn
<1>5. Told(k, lots2)
  BY <1>4 DEF Sound, Told
<1>6. (k.pc = "cancelling" /\ k.loops) => lots2[k.offer].expires <= now2
  BY <1>1, <1>2, <1>4 DEF Sound
<1> QED BY <1>3, <1>4, <1>5, <1>6 DEF Sound

\* One call moves, its offer perhaps with it.
LEMMA CallsStaySound ==
    ASSUME NEW cs, NEW lots, NEW lots2, NEW now \in Nat,
           lots \in LotsType, CallsSound(cs, lots, now), MovesOn(lots, lots2),
           NEW w \in Workers, NEW k, Sound(k, w, lots2, now)
    PROVE  CallsSound([cs EXCEPT ![w] = k], lots2, now)
<1> DEFINE cs2 == [cs EXCEPT ![w] = k]
<1>1. /\ cs2 = [v \in Workers |-> cs2[v]]
      /\ cs2[w] = k /\ \A v \in Workers : v # w => cs2[v] = cs[v]
  BY DEF CallsSound
<1>2. ASSUME NEW v \in Workers, v # w
      PROVE  Sound(cs[v], v, lots2, now)
  <2>1. Sound(cs[v], v, lots, now) /\ now <= now
    BY DEF CallsSound
  <2> QED BY <2>1, StaysSound
<1> HIDE DEF cs2
<1>3. CallsSound(cs2, lots2, now)
  BY <1>1, <1>2 DEF CallsSound
<1> QED BY <1>3 DEF cs2

LEMMA OfferingCounts ==
    ASSUME NEW cs
    PROVE  /\ IsFiniteSet(OfferingIn(cs)) /\ Cardinality(OfferingIn(cs)) \in Nat
BY MarketAssumption, FS_Subset, FS_CardinalityType DEF OfferingIn

\* Nobody new is offering: what had a place has one.
LEMMA PlacesStay ==
    ASSUME NEW cs, NEW cs2, NEW lots, NEW lots2,
           PlacesLeft(cs, lots), PublishedIn(lots2) = PublishedIn(lots),
           OfferingIn(cs2) \subseteq OfferingIn(cs)
    PROVE  PlacesLeft(cs2, lots2)
<1>1. PICK n \in 1..MaxOffers : PublishedIn(lots) = 1..n /\ n + Cardinality(OfferingIn(cs)) <= MaxOffers
  BY DEF PlacesLeft
<1>2. /\ Cardinality(OfferingIn(cs)) \in Nat /\ Cardinality(OfferingIn(cs2)) \in Nat
      /\ Cardinality(OfferingIn(cs2)) <= Cardinality(OfferingIn(cs))
  BY OfferingCounts, FS_Subset
<1>3. n + Cardinality(OfferingIn(cs2)) <= MaxOffers
  BY <1>1, <1>2, MarketAssumption
<1> QED BY <1>1, <1>3 DEF PlacesLeft

-----------------------------------------------------------------------------
(* what the actions have in common                                         *)

LEMMA InvFacts ==
    ASSUME MarketInv
    PROVE  /\ clock \in Nat /\ clock \in 0..MaxClock
           /\ lot \in LotsType
           /\ \A h \in Published : lot[h] \in OfferTerms
           /\ \A w \in Workers : Sound(call[w], w, lot, clock) /\ call[w] \in CallType
           /\ Published = PublishedIn(lot) /\ Published \subseteq Offers
           /\ Never \in Nat /\ Never \in 1..Never /\ MaxClock < Never
<1>1. MaxClock \in Nat
  BY MarketAssumption
<1>2. \A w \in Workers : Sound(call[w], w, lot, clock)
  BY DEF MarketInv, CallsSound
<1> QED BY <1>1, <1>2 DEF MarketInv, LotsType, Published, PublishedIn, Never, Sound

LEMMA Disjoint ==
    ASSUME NEW c \in Callers
    PROVE  c \in Workers /\ c \notin Sweepers
BY MarketAssumption DEF Workers

\* A step of call w that leaves the offers as they are, and arms the timer or not.
LEMMA CallStep ==
    ASSUME MarketInv, NEW w \in Workers, NEW k, call' = [call EXCEPT ![w] = k],
           Sound(k, w, lot, clock), k.pc # "offering",
           UNCHANGED <<clock, lot, closed>>,
           timer' = timer \/ \E expires \in Nat : Arm(expires),
           promised' \subseteq Mine
    PROVE  MarketInv'
<1>1. /\ CallsSound(call, lot, clock) /\ PlacesLeft(call, lot)
      /\ timer \in Alarm \cup {None} /\ (closed => timer = None)
  BY DEF MarketInv
<1>2. clock \in Nat /\ clock \in 0..MaxClock /\ lot \in LotsType
  BY InvFacts
<1>3. MovesOn(lot, lot)
  BY DEF MovesOn
<1>4. CallsSound(call', lot, clock)
  BY <1>1, <1>2, <1>3, CallsStaySound
<1>5. PlacesLeft(call', lot)
  <2>1. call = [v \in Workers |-> call[v]]
    BY <1>1 DEF CallsSound
  <2>2. \A c \in Callers : c \in Workers
    BY DEF Workers
  <2>3. OfferingIn(call') \subseteq OfferingIn(call)
    BY <2>1, <2>2 DEF OfferingIn
  <2> QED BY <1>1, <2>3, PlacesStay
<1>6. timer' \in Alarm \cup {None} /\ (closed' => timer' = None)
  BY <1>1, <1>2, ArmIs
<1>7. promised' \subseteq Mine'
  BY DEF Mine, Published
<1> QED BY <1>2, <1>4, <1>5, <1>6, <1>7 DEF MarketInv

\* Call w finds its offer, or somebody an open one, and moves it on.
LEMMA OfferMoves ==
    ASSUME MarketInv, NEW h \in Published, Open(h), NEW state \in {"accepted", "cancelled"},
           lot' = [lot EXCEPT ![h].state = state]
    PROVE  /\ lot' \in LotsType /\ MovesOn(lot, lot')
           /\ PublishedIn(lot') = PublishedIn(lot) /\ Mine' = Mine
           /\ lot'[h].state = state
<1>1. /\ lot \in LotsType /\ h \in Offers /\ lot[h] \in OfferTerms
      /\ Published = PublishedIn(lot)
  BY InvFacts
<1> DEFINE o == [lot[h] EXCEPT !.state = state]
<1>2. /\ lot' = [lot EXCEPT ![h] = o] /\ o \in OfferTerms
      /\ o.author = lot[h].author /\ o.expires = lot[h].expires /\ o.state = state
  BY <1>1 DEF OfferTerms
<1> HIDE DEF o
<1>3. o # None
  BY <1>2, MarketAssumption
<1>4. lot'[h] = o /\ \A g \in Offers : g # h => lot'[g] = lot[g]
  BY <1>1, <1>2 DEF LotsType
<1>5. lot' \in LotsType
  BY <1>1, <1>2 DEF LotsType
<1>6. MovesOn(lot, lot')
  BY <1>2, <1>3, <1>4 DEF MovesOn, Open
<1>7. PublishedIn(lot') = PublishedIn(lot)
  BY <1>1, <1>3, <1>4 DEF PublishedIn, Published
<1>8. Mine' = Mine
  BY <1>2, <1>4, <1>7 DEF Mine, Published, PublishedIn
<1> QED BY <1>2, <1>4, <1>5, <1>6, <1>7, <1>8

LEMMA OfferStep ==
    ASSUME MarketInv, NEW w \in Workers, NEW k, call' = [call EXCEPT ![w] = k],
           NEW h \in Published, Open(h), NEW state \in {"accepted", "cancelled"},
           lot' = [lot EXCEPT ![h].state = state],
           Sound(k, w, lot', clock), k.pc # "offering",
           UNCHANGED <<clock, timer, closed, promised>>
    PROVE  MarketInv'
<1>1. /\ CallsSound(call, lot, clock) /\ PlacesLeft(call, lot)
      /\ timer \in Alarm \cup {None} /\ (closed => timer = None) /\ promised \subseteq Mine
  BY DEF MarketInv
<1>2. clock \in Nat /\ clock \in 0..MaxClock /\ lot \in LotsType
  BY InvFacts
<1>3. /\ lot' \in LotsType /\ MovesOn(lot, lot')
      /\ PublishedIn(lot') = PublishedIn(lot) /\ Mine' = Mine
  BY OfferMoves
<1>4. CallsSound(call', lot', clock)
  BY <1>1, <1>2, <1>3, CallsStaySound
<1>5. PlacesLeft(call', lot')
  <2>1. call = [v \in Workers |-> call[v]]
    BY <1>1 DEF CallsSound
  <2>2. \A c \in Callers : c \in Workers
    BY DEF Workers
  <2>3. OfferingIn(call') \subseteq OfferingIn(call)
    BY <2>1, <2>2 DEF OfferingIn
  <2> QED BY <1>1, <1>3, <2>3, PlacesStay
<1> QED BY <1>1, <1>2, <1>3, <1>4, <1>5 DEF MarketInv

LEMMA IdleSound ==
    ASSUME MarketInv, NEW w \in Workers
    PROVE  Sound(Idle, w, lot, clock) /\ Idle.pc = "idle"
<1>1. Never \in 1..Never
  BY InvFacts
<1>2. Idle \in CallType
  BY <1>1 DEF Idle, CallType, Places, Answers
<1>3. /\ Idle.pc = "idle" /\ Idle.offer = None /\ Idle.rest = {}
      /\ Idle.answer = "none" /\ Idle.landed = FALSE
  BY DEF Idle
<1>4. Told(Idle, lot)
  BY <1>3 DEF Told, Refusals
<1> QED BY <1>2, <1>3, <1>4 DEF Sound, OfCallers, OfLoops

LEMMA LoopSound ==
    ASSUME MarketInv, NEW w \in Workers
    PROVE  Sound(Loop, w, lot, clock) /\ Loop.pc = "listing"
<1>1. Never \in 1..Never
  BY InvFacts
<1>2. Loop \in CallType
  BY <1>1 DEF Loop, Idle, CallType, Places, OfLoops, Answers
<1>3. /\ Loop.pc = "listing" /\ Loop.offer = None /\ Loop.rest = {} /\ Loop.loops = TRUE
      /\ Loop.answer = "none" /\ Loop.landed = FALSE
  BY DEF Loop, Idle
<1>4. Told(Loop, lot)
  BY <1>3 DEF Told, Refusals
<1> QED BY <1>2, <1>3, <1>4 DEF Sound, OfCallers, OfLoops

\* An answer is right when it fits whether the call moved its offer.
LEMMA AnsweredSound ==
    ASSUME MarketInv, NEW c \in Callers, NEW answer \in Answers,
           answer \in Refusals => ~call[c].landed,
           answer \in {"settled", "cancelled", "published"} => call[c].landed,
           answer \in {"settled", "offer-taken"} =>
               call[c].offer # None /\ lot[call[c].offer].state = "accepted",
           answer \in {"cancelled", "offer-cancelled"} =>
               call[c].offer # None /\ lot[call[c].offer].state = "cancelled"
    PROVE  Sound(Answered(c, answer), c, lot, clock) /\ Answered(c, answer).pc = "answered"
<1> DEFINE k == Answered(c, answer)
<1>1. c \in Workers /\ c \notin Sweepers
  BY Disjoint
<1>2. Never \in 1..Never /\ call[c] \in CallType /\ Sound(call[c], c, lot, clock)
  BY <1>1, InvFacts
<1>3. call[c].offer \in Offers \cup {None} /\ call[c].landed \in BOOLEAN
  BY <1>2 DEF CallType
<1>4. k \in CallType
  BY <1>2, <1>3 DEF Answered, Idle, CallType, Places, OfCallers
<1>5. /\ k.pc = "answered" /\ k.offer = call[c].offer /\ k.rest = {}
      /\ k.answer = answer /\ k.landed = call[c].landed
  BY DEF Answered, Idle
<1> HIDE DEF k
<1>6. Told(k, lot)
  BY <1>5 DEF Told
<1>7. k.offer # None => lot[k.offer] # None
  BY <1>2, <1>5 DEF Sound
<1>8. Sound(k, c, lot, clock)
  BY <1>1, <1>4, <1>5, <1>6, <1>7 DEF Sound, OfCallers, OfLoops
<1> QED BY <1>5, <1>8 DEF k

LEMMA RefusedSound ==
    ASSUME MarketInv, NEW c \in Callers, NEW answer \in Refusals,
           NEW h \in Published \cup {None},
           answer = "offer-taken" => h # None /\ lot[h].state = "accepted",
           answer = "offer-cancelled" => h # None /\ lot[h].state = "cancelled"
    PROVE  Sound(Refused(h, answer), c, lot, clock) /\ Refused(h, answer).pc = "answered"
<1> DEFINE k == Refused(h, answer)
<1>1. c \in Workers /\ c \notin Sweepers
  BY Disjoint
<1>2. Never \in 1..Never /\ Published \subseteq Offers
  BY InvFacts
<1>3. k \in CallType
  BY <1>2 DEF Refused, Idle, CallType, Places, OfCallers, Answers
<1>4. /\ k.pc = "answered" /\ k.offer = h /\ k.rest = {}
      /\ k.answer = answer /\ k.landed = FALSE
  BY DEF Refused, Idle
<1> HIDE DEF k
<1>5. Told(k, lot)
  BY <1>4 DEF Told, Refusals
<1>6. k.offer # None => lot[k.offer] # None
  BY <1>4 DEF Published
<1>7. Sound(k, c, lot, clock)
  BY <1>1, <1>3, <1>4, <1>5, <1>6 DEF Sound, OfCallers, OfLoops
<1> QED BY <1>4, <1>7 DEF k

-----------------------------------------------------------------------------
(* every action keeps the invariant                                        *)

LEMMA InitKeeps ==
    ASSUME Init
    PROVE  MarketInv
<1>1. MaxClock \in Nat /\ MaxOffers \in Nat \ {0}
  BY MarketAssumption
<1>2. PICK to \in {"anybody", "another"} :
          lot = [h \in Offers |-> IF h = 1 THEN Offer("them", to, Never) ELSE None]
  BY DEF Init
<1>3. Never \in 1..Never /\ Offer("them", to, Never) \in OfferTerms
  BY <1>1, <1>2 DEF Never, Offer, OfferTerms
<1>4. lot \in LotsType
  BY <1>2, <1>3 DEF LotsType
<1>5. PublishedIn(lot) = 1..1
  BY <1>1, <1>2, <1>3, MarketAssumption DEF PublishedIn, Offers
<1>6. OfferingIn(call) = {}
  BY DEF Init, OfferingIn, Workers, Idle
<1>7. PlacesLeft(call, lot)
  <2>1. Cardinality(OfferingIn(call)) = 0
    BY <1>6, FS_EmptySet
  <2>2. 1 \in 1..MaxOffers /\ 1 + Cardinality(OfferingIn(call)) <= MaxOffers
    BY <1>1, <2>1
  <2> QED BY <1>5, <2>2 DEF PlacesLeft
<1>8. clock = 0 /\ timer = None /\ closed = FALSE /\ promised = {}
      /\ call = [w \in Workers |-> Idle]
  BY DEF Init
<1>9. ASSUME NEW w \in Workers
      PROVE  Sound(Idle, w, lot, clock)
  <2>1. Idle \in CallType
    BY <1>3 DEF Idle, CallType, Places, Answers
  <2>2. /\ Idle.pc = "idle" /\ Idle.offer = None /\ Idle.rest = {}
        /\ Idle.answer = "none" /\ Idle.landed = FALSE
    BY DEF Idle
  <2>3. Told(Idle, lot)
    BY <2>2 DEF Told, Refusals
  <2> QED BY <2>1, <2>2, <2>3 DEF Sound, OfCallers, OfLoops
<1>10. CallsSound(call, lot, clock)
  BY <1>8, <1>9 DEF CallsSound
<1> QED BY <1>1, <1>4, <1>7, <1>8, <1>10 DEF MarketInv

LEMMA OfferingKeeps ==
    ASSUME MarketInv, NEW c \in Callers, NEW expires \in Expiries \cup {Never},
           Offering(c, expires)
    PROVE  MarketInv'
<1>1. c \in Workers /\ c \notin Sweepers
  BY Disjoint
<1>2. promised' \subseteq Mine
  BY DEF MarketInv, Offering
<1>3. CASE Begin(c, Refused(None, "insufficient-balance"))
  <2>1. /\ Sound(Refused(None, "insufficient-balance"), c, lot, clock)
        /\ Refused(None, "insufficient-balance").pc = "answered"
    BY RefusedSound DEF Refusals
  <2> QED BY <1>1, <1>2, <1>3, <2>1, CallStep DEF Offering, Begin, ledger
<1>4. CASE Begin(c, [Idle EXCEPT !.pc = "offering", !.expires = expires])
  <2> DEFINE k == [Idle EXCEPT !.pc = "offering", !.expires = expires]
  <2>1. /\ CallsSound(call, lot, clock) /\ PlacesLeft(call, lot)
        /\ timer \in Alarm \cup {None} /\ (closed => timer = None)
    BY DEF MarketInv
  <2>2. /\ clock \in Nat /\ clock \in 0..MaxClock /\ lot \in LotsType
        /\ Published = PublishedIn(lot) /\ Never \in 1..Never /\ MaxClock < Never
    BY InvFacts
  <2>3. expires \in 1..Never
    BY <2>2, MarketAssumption
  <2>4. /\ k.pc = "offering" /\ k.offer = None /\ k.rest = {} /\ k.landed = FALSE
        /\ k.answer = "none" /\ k \in CallType
    BY <2>3 DEF Idle, CallType, Places, OfCallers, Answers
  <2>5. call' = [call EXCEPT ![c] = k] /\ UNCHANGED <<clock, lot, timer, closed, promised>>
    BY <1>4 DEF Begin, Offering, ledger
  <2> HIDE DEF k
  <2>6. Told(k, lot)
    BY <2>4 DEF Told, Refusals
  <2>7. Sound(k, c, lot, clock)
    BY <1>1, <2>4, <2>6 DEF Sound, OfCallers, OfLoops
  <2>8. MovesOn(lot, lot)
    BY DEF MovesOn
  <2>9. CallsSound(call', lot, clock)
    BY <1>1, <2>1, <2>2, <2>5, <2>7, <2>8, CallsStaySound
  <2>10. PlacesLeft(call', lot)
    <3>1. PICK n \in 1..MaxOffers : PublishedIn(lot) = 1..n
      BY <2>1 DEF PlacesLeft
    <3>2. n \in Nat /\ Cardinality(1..n) = n
      <4>1. n \in Nat
        BY MarketAssumption
      <4> QED BY <4>1, FS_Interval
    <3>3. n + Cardinality(OfferingIn(call)) < MaxOffers
      BY <2>2, <3>1, <3>2 DEF Offering, OfferingIn
    <3>4. OfferingIn(call') \subseteq OfferingIn(call) \cup {c}
      <4>1. call = [v \in Workers |-> call[v]]
        BY <2>1 DEF CallsSound
      <4>2. \A d \in Callers : d \in Workers
        BY DEF Workers
      <4> QED BY <2>5, <4>1, <4>2 DEF OfferingIn
    <3>5. /\ IsFiniteSet(OfferingIn(call)) /\ Cardinality(OfferingIn(call)) \in Nat
          /\ Cardinality(OfferingIn(call')) \in Nat
      BY OfferingCounts
    <3>6. /\ IsFiniteSet(OfferingIn(call) \cup {c})
          /\ Cardinality(OfferingIn(call) \cup {c}) \in Nat
          /\ Cardinality(OfferingIn(call) \cup {c}) <= Cardinality(OfferingIn(call)) + 1
      <4>1. CASE c \in OfferingIn(call)
        <5>1. OfferingIn(call) \cup {c} = OfferingIn(call)
          BY <4>1
        <5> QED BY <3>5, <5>1
      <4>2. CASE c \notin OfferingIn(call)
        BY <3>5, <4>2, FS_AddElement
      <4> QED BY <4>1, <4>2
    <3>7. Cardinality(OfferingIn(call')) <= Cardinality(OfferingIn(call) \cup {c})
      BY <3>4, <3>6, FS_Subset
    <3>8. n + Cardinality(OfferingIn(call')) <= MaxOffers
      BY <3>2, <3>3, <3>5, <3>6, <3>7, MarketAssumption
    <3> QED BY <3>1, <3>8 DEF PlacesLeft
  <2> QED BY <1>2, <2>1, <2>2, <2>5, <2>9, <2>10 DEF MarketInv, Mine, Published
<1> QED BY <1>3, <1>4 DEF Offering

\* A call the ledger refuses for its balance has moved nothing.
LEMMA NotEnoughSound ==
    ASSUME MarketInv, NEW c \in Callers, ~call[c].landed
    PROVE  Sound(Answered(c, NotEnough), c, lot, clock) /\ Answered(c, NotEnough).pc = "answered"
<1>1. /\ NotEnough \in Refusals /\ NotEnough \in Answers
      /\ ~(NotEnough \in {"settled", "cancelled", "published", "offer-taken", "offer-cancelled"})
  BY DEF NotEnough, Refusals, Answers
<1> QED BY <1>1, AnsweredSound

LEMMA OfferLandsKeeps ==
    ASSUME MarketInv, NEW c \in Callers, OfferLands(c)
    PROVE  MarketInv'
<1>1. c \in Workers /\ c \notin Sweepers
  BY Disjoint
<1>2. /\ promised \subseteq Mine /\ CallsSound(call, lot, clock) /\ PlacesLeft(call, lot)
      /\ timer \in Alarm \cup {None} /\ (closed => timer = None)
  BY DEF MarketInv
<1>3. /\ clock \in Nat /\ clock \in 0..MaxClock /\ lot \in LotsType
      /\ Published = PublishedIn(lot) /\ Sound(call[c], c, lot, clock) /\ call[c] \in CallType
  BY <1>1, InvFacts
<1>4. call[c].offer = None /\ ~call[c].landed /\ call[c].answer = "none"
  BY <1>3 DEF OfferLands, Sound
<1>5. CASE Answer(c, NotEnough) /\ UNCHANGED lot
  <2>1. Sound(Answered(c, NotEnough), c, lot, clock) /\ Answered(c, NotEnough).pc = "answered"
    BY <1>4, NotEnoughSound
  <2> QED BY <1>1, <1>2, <1>5, <2>1, CallStep DEF OfferLands, Answer
<1> DEFINE h == Cardinality(Published) + 1
<1> DEFINE o == Offer("me", "anybody", call[c].expires)
<1> DEFINE k == [call[c] EXCEPT !.pc = "published", !.offer = h, !.landed = TRUE]
<1>6. CASE lot' = [lot EXCEPT ![h] = o] /\ call' = [call EXCEPT ![c] = k]
  <2>1. PICK n \in 1..MaxOffers :
            PublishedIn(lot) = 1..n /\ n + Cardinality(OfferingIn(call)) <= MaxOffers
    BY <1>2 DEF PlacesLeft
  <2>2. n \in Nat /\ Cardinality(1..n) = n
    <3>1. n \in Nat
      BY MarketAssumption
    <3> QED BY <3>1, FS_Interval
  <2>3. h = n + 1
    BY <1>3, <2>1, <2>2
  <2>4. /\ IsFiniteSet(OfferingIn(call)) /\ Cardinality(OfferingIn(call)) \in Nat
        /\ c \in OfferingIn(call)
    BY OfferingCounts DEF OfferingIn, OfferLands
  <2>5. /\ Cardinality(OfferingIn(call) \ {c}) = Cardinality(OfferingIn(call)) - 1
        /\ IsFiniteSet(OfferingIn(call) \ {c})
        /\ Cardinality(OfferingIn(call) \ {c}) \in Nat
    BY <2>4, FS_RemoveElement, FS_CardinalityType
  <2>6. n + 1 \in 1..MaxOffers /\ h \in Offers
    BY <2>1, <2>2, <2>3, <2>4, <2>5, MarketAssumption DEF Offers
  <2>7. lot[h] = None
    BY <2>1, <2>2, <2>3, <2>6 DEF PublishedIn
  <2>8. /\ o \in OfferTerms /\ o # None /\ o.author = "me" /\ o.expires = call[c].expires
    BY <1>3, MarketAssumption DEF Offer, OfferTerms, CallType
  <2>9. /\ k.pc = "published" /\ k.offer = h /\ k.landed = TRUE /\ k.rest = call[c].rest
        /\ k.answer = "none" /\ k.expires = call[c].expires /\ k \in CallType
    BY <1>3, <1>4, <2>6 DEF CallType, Places, OfCallers
  <2> HIDE DEF h, o, k
  <2>10. /\ lot' \in LotsType /\ lot'[h] = o
         /\ \A g \in Offers : g # h => lot'[g] = lot[g]
    BY <1>3, <1>6, <2>6, <2>8 DEF LotsType
  <2>11. MovesOn(lot, lot')
    BY <2>7, <2>10 DEF MovesOn
  <2>12. PublishedIn(lot') = 1..(n + 1)
    BY <2>1, <2>2, <2>3, <2>6, <2>8, <2>10, MarketAssumption DEF PublishedIn, Offers
  <2>13. Told(k, lot')
    BY <2>9 DEF Told, Refusals
  <2>14. \A g \in k.rest : lot'[g] # None /\ lot'[g].author = "me" /\ lot'[g].expires <= clock
    <3>1. \A g \in call[c].rest : g \in Offers /\ lot[g] # None /\ lot[g].author = "me"
                                  /\ lot[g].expires <= clock
      BY <1>3 DEF Sound, CallType
    <3> QED BY <2>7, <2>9, <2>10, <3>1
  <2>15. Sound(k, c, lot', clock)
    <3>1. k.offer = h /\ h # None /\ lot'[k.offer] = o
      BY <2>6, <2>9, <2>10, MarketAssumption DEF Offers
    <3>2. k.pc = "published" /\ ~(k.pc \in OfLoops)
      BY <2>9 DEF OfLoops
    <3> QED BY <1>1, <2>8, <2>9, <2>13, <2>14, <3>1, <3>2 DEF Sound, OfCallers
  <2>16. CallsSound(call', lot', clock)
    BY <1>1, <1>2, <1>3, <1>6, <2>11, <2>15, CallsStaySound
  <2>17. PlacesLeft(call', lot')
    <3>1. OfferingIn(call') \subseteq OfferingIn(call) \ {c}
      <4>1. call = [v \in Workers |-> call[v]]
        BY <1>2 DEF CallsSound
      <4>2. \A d \in Callers : d \in Workers
        BY DEF Workers
      <4>3. call'[c] = k /\ \A d \in Callers : d # c => call'[d] = call[d]
        BY <1>1, <1>6, <4>1, <4>2
      <4> QED BY <2>9, <4>3 DEF OfferingIn
    <3>2. /\ Cardinality(OfferingIn(call')) \in Nat
          /\ Cardinality(OfferingIn(call')) <= Cardinality(OfferingIn(call) \ {c})
      BY <2>5, <3>1, OfferingCounts, FS_Subset
    <3>3. (n + 1) + Cardinality(OfferingIn(call')) <= MaxOffers
      BY <2>1, <2>2, <2>4, <2>5, <3>2, MarketAssumption
    <3> QED BY <2>6, <2>12, <3>3 DEF PlacesLeft
  <2>18. promised' \subseteq Mine'
    <3>1. promised' = promised
      BY DEF OfferLands
    <3>2. \A g \in Mine : g \in Offers /\ g # h /\ lot[g] # None /\ lot[g].author = "me"
      BY <1>3, <2>7 DEF Mine, Published, PublishedIn
    <3>3. \A g \in Mine : lot'[g] # None /\ lot'[g].author = "me" /\ g \in Offers
      BY <2>10, <3>2
    <3> QED BY <1>2, <3>1, <3>3 DEF Mine, Published
  <2> QED BY <1>2, <1>3, <2>10, <2>16, <2>17, <2>18 DEF MarketInv, OfferLands
<1> QED BY <1>5, <1>6 DEF OfferLands

\* Where only callers come, and where only a loop is.
LEMMA CallerThere ==
    ASSUME MarketInv, NEW w \in Workers, call[w].pc \in OfCallers \/ ~call[w].loops,
           call[w].pc # "idle"
    PROVE  w \in Callers
<1>1. Sound(call[w], w, lot, clock)
  BY InvFacts
<1> QED BY <1>1 DEF Sound, Workers

LEMMA LoopGoesOn ==
    ASSUME MarketInv, NEW w \in Workers, call[w].loops, ~Free(w),
           NEW pc \in {"sweeping", "rereading"}
    PROVE  Sound([call[w] EXCEPT !.pc = pc], w, lot, clock)
<1> DEFINE k == [call[w] EXCEPT !.pc = pc]
<1>1. Sound(call[w], w, lot, clock) /\ call[w] \in CallType
  BY InvFacts
<1>2. /\ k.pc = pc /\ k.offer = call[w].offer /\ k.rest = call[w].rest /\ k.loops = call[w].loops
      /\ k.landed = call[w].landed /\ k.answer = call[w].answer /\ k \in CallType
  BY <1>1 DEF CallType, Places, OfLoops
<1> HIDE DEF k
<1>3. k.answer = "none"
  BY <1>1, <1>2 DEF Sound, Free
<1>4. Told(k, lot)
  BY <1>3 DEF Told, Refusals
<1>5. k.pc \notin OfCallers /\ k.pc \in OfLoops
  BY <1>2 DEF OfCallers, OfLoops
<1>6. Sound(k, w, lot, clock)
  BY <1>1, <1>2, <1>3, <1>4, <1>5 DEF Sound
<1> QED BY <1>6 DEF k

LEMMA ThrowKeeps ==
    ASSUME MarketInv, NEW w \in Workers, Throw(w), UNCHANGED <<clock, lot, closed, promised>>
    PROVE  MarketInv'
<1>1. promised' \subseteq Mine
  BY DEF MarketInv
<1>2. clock \in Nat /\ SweepInterval \in Nat
  BY InvFacts, MarketAssumption
<1>3. CASE w \in Sweepers
  <2>1. Sound(Idle, w, lot, clock) /\ Idle.pc = "idle"
    BY IdleSound
  <2>2. clock + SweepInterval \in Nat
    BY <1>2
  <2>3. Soon(clock + SweepInterval) \in Nat
    BY <2>2, SoonIs
  <2>4. \E expires \in Nat : Arm(expires)
    BY <1>3, <2>3 DEF Throw
  <2> QED BY <1>1, <1>3, <2>1, <2>4, CallStep DEF Throw
<1>4. CASE w \notin Sweepers
  <2>1. w \in Callers
    BY <1>4 DEF Workers
  <2>2. Sound(Answered(w, "threw"), w, lot, clock) /\ Answered(w, "threw").pc = "answered"
    BY <2>1, AnsweredSound DEF Answers, Refusals
  <2> QED BY <1>1, <1>4, <2>2, CallStep DEF Throw, Answer
<1> QED BY <1>3, <1>4

LEMMA ReadBackKeeps ==
    ASSUME MarketInv, NEW w \in Workers, ReadBack(w)
    PROVE  MarketInv'
<1>1. call[w].pc \in OfCallers /\ call[w].pc # "idle"
  BY DEF ReadBack, OfCallers
<1>2. w \in Callers
  BY <1>1, CallerThere
<1>3. /\ Sound(call[w], w, lot, clock) /\ call[w] \in CallType
      /\ promised \subseteq Mine /\ Published = PublishedIn(lot)
  BY InvFacts DEF MarketInv
<1>4. /\ call[w].landed /\ call[w].offer # None /\ call[w].offer \in Offers
      /\ lot[call[w].offer] # None /\ lot[call[w].offer].author = "me"
  BY <1>3 DEF Sound, CallType, ReadBack
<1>5. promised' \subseteq Mine
  BY <1>3, <1>4 DEF ReadBack, Mine, Published
<1>6. Sound(Answered(w, "published"), w, lot, clock) /\ Answered(w, "published").pc = "answered"
  BY <1>2, <1>4, AnsweredSound DEF Answers, Refusals
<1>7. \E expires \in Nat : Arm(expires)
  <2>1. call[w].expires \in Nat
    BY <1>3, InvFacts DEF CallType
  <2> QED BY <2>1 DEF ReadBack
<1> QED BY <1>5, <1>6, <1>7, CallStep DEF ReadBack, Answer, ledger

\* An offer that is not open has been taken or withdrawn, and the code says which.
LEMMA RaceCodeIs ==
    ASSUME MarketInv, NEW h \in Published, ~Open(h)
    PROVE  /\ RaceCode(h) \in Refusals
           /\ RaceCode(h) = "offer-taken" => lot[h].state = "accepted"
           /\ RaceCode(h) = "offer-cancelled" => lot[h].state = "cancelled"
<1>1. lot[h] \in OfferTerms
  BY InvFacts
<1>2. lot[h].state \in {"open", "accepted", "cancelled"}
  BY <1>1 DEF OfferTerms
<1> QED BY <1>2 DEF RaceCode, Refusals, Open

LEMMA RefusedStep ==
    ASSUME MarketInv, NEW c \in Callers, NEW h \in Published,
           NEW answer \in {"self-accept", "not-the-counterparty", "not-your-offer",
                           "insufficient-balance"},
           \/ Begin(c, Refused(h, answer))
           \/ ~Open(h) /\ Begin(c, Refused(h, RaceCode(h))),
           UNCHANGED <<clock, lot, closed, timer, promised>>
    PROVE  MarketInv'
<1>1. c \in Workers /\ promised' \subseteq Mine
  BY Disjoint DEF MarketInv
<1>2. CASE Begin(c, Refused(h, answer))
  <2>1. answer \in Refusals /\ answer # "offer-taken" /\ answer # "offer-cancelled"
    BY DEF Refusals
  <2>2. Sound(Refused(h, answer), c, lot, clock) /\ Refused(h, answer).pc = "answered"
    BY <2>1, RefusedSound
  <2> QED BY <1>1, <1>2, <2>2, CallStep DEF Begin
<1>3. CASE ~Open(h) /\ Begin(c, Refused(h, RaceCode(h)))
  <2> DEFINE code == RaceCode(h)
  <2>1. /\ code \in Refusals /\ h # None
        /\ code = "offer-taken" => lot[h].state = "accepted"
        /\ code = "offer-cancelled" => lot[h].state = "cancelled"
    BY <1>3, RaceCodeIs, InvFacts, MarketAssumption DEF Offers
  <2>2. call' = [call EXCEPT ![c] = Refused(h, code)]
    BY <1>3 DEF Begin
  <2> HIDE DEF code
  <2>3. Sound(Refused(h, code), c, lot, clock) /\ Refused(h, code).pc = "answered"
    BY <2>1, RefusedSound
  <2> QED BY <1>1, <2>2, <2>3, CallStep
<1> QED BY <1>2, <1>3

\* A call that has read an open offer, and is about to act on it.
LEMMA ActingSound ==
    ASSUME MarketInv, NEW c \in Callers, NEW h \in Published,
           NEW pc \in {"accepting", "cancelling"}
    PROVE  LET k == [Idle EXCEPT !.pc = pc, !.offer = h]
           IN  Sound(k, c, lot, clock) /\ k.pc = pc
<1> DEFINE k == [Idle EXCEPT !.pc = pc, !.offer = h]
<1>1. Never \in 1..Never /\ Published \subseteq Offers /\ c \notin Sweepers
  BY InvFacts, Disjoint
<1>2. k \in CallType
  BY <1>1 DEF Idle, CallType, Places, OfCallers, Answers
<1>3. /\ k.pc = pc /\ k.offer = h /\ k.rest = {} /\ k.answer = "none" /\ k.landed = FALSE
      /\ k.loops = FALSE
  BY DEF Idle
<1>4. h # None /\ lot[h] # None
  BY <1>1, MarketAssumption DEF Offers, Published
<1> HIDE DEF k
<1>5. Told(k, lot)
  BY <1>3 DEF Told, Refusals
<1>6. Sound(k, c, lot, clock)
  BY <1>1, <1>2, <1>3, <1>4, <1>5 DEF Sound, OfCallers, OfLoops
<1> QED BY <1>3, <1>6 DEF k

LEMMA ActingStep ==
    ASSUME MarketInv, NEW c \in Callers, NEW h \in Published,
           NEW pc \in {"accepting", "cancelling"},
           Begin(c, [Idle EXCEPT !.pc = pc, !.offer = h]),
           UNCHANGED <<clock, lot, closed, timer, promised>>
    PROVE  MarketInv'
<1> DEFINE k == [Idle EXCEPT !.pc = pc, !.offer = h]
<1>1. c \in Workers /\ promised' \subseteq Mine
  BY Disjoint DEF MarketInv
<1>2. Sound(k, c, lot, clock) /\ k.pc = pc
  BY ActingSound
<1>3. call' = [call EXCEPT ![c] = k]
  BY DEF Begin
<1> HIDE DEF k
<1> QED BY <1>1, <1>2, <1>3, CallStep

LEMMA AcceptingKeeps ==
    ASSUME MarketInv, NEW c \in Callers, NEW h \in Published, Accepting(c, h)
    PROVE  MarketInv'
<1>1. UNCHANGED <<clock, lot, closed, timer, promised>>
  BY DEF Accepting, ledger
<1>2. \/ Begin(c, Refused(h, "self-accept"))
      \/ ~Open(h) /\ Begin(c, Refused(h, RaceCode(h)))
      \/ Begin(c, Refused(h, "not-the-counterparty"))
      \/ Begin(c, Refused(h, "insufficient-balance"))
      \/ Begin(c, [Idle EXCEPT !.pc = "accepting", !.offer = h])
  BY DEF Accepting
<1> QED BY <1>1, <1>2, RefusedStep, ActingStep

LEMMA CancellingKeeps ==
    ASSUME MarketInv, NEW c \in Callers, NEW h \in Published, Cancelling(c, h)
    PROVE  MarketInv'
<1>1. UNCHANGED <<clock, lot, closed, timer, promised>>
  BY DEF Cancelling, ledger
<1>2. \/ Begin(c, Refused(h, "not-your-offer"))
      \/ ~Open(h) /\ Begin(c, Refused(h, RaceCode(h)))
      \/ Begin(c, [Idle EXCEPT !.pc = "cancelling", !.offer = h])
  BY DEF Cancelling
<1> QED BY <1>1, <1>2, RefusedStep, ActingStep

LEMMA CancellingExpiredKeeps ==
    ASSUME MarketInv, NEW c \in Callers, CancellingExpired(c)
    PROVE  MarketInv'
<1>1. c \in Workers /\ promised' \subseteq Mine
  BY Disjoint DEF MarketInv, CancellingExpired
<1>2. Sound(Loop, c, lot, clock) /\ Loop.pc = "listing"
  BY <1>1, LoopSound
<1> QED BY <1>1, <1>2, CallStep DEF CancellingExpired, Begin, ledger

LEMMA AcceptLandsKeeps ==
    ASSUME MarketInv, NEW c \in Workers, AcceptLands(c)
    PROVE  MarketInv'
<1> DEFINE h == call[c].offer
<1>1. c \in Callers /\ c \notin Sweepers
  BY CallerThere, Disjoint DEF AcceptLands, OfCallers
<1>2. /\ Sound(call[c], c, lot, clock) /\ call[c] \in CallType /\ promised \subseteq Mine
      /\ lot \in LotsType /\ Published = PublishedIn(lot)
  BY InvFacts DEF MarketInv
<1>3. /\ h # None /\ h \in Published /\ ~call[c].landed /\ call[c].answer = "none"
      /\ call[c].rest \subseteq Offers /\ h \in Offers
  BY <1>2 DEF Sound, AcceptLands, CallType, PublishedIn
<1> DEFINE k == [call[c] EXCEPT !.pc = "collecting", !.landed = TRUE]
<1>4. CASE Open(h) /\ lot' = [lot EXCEPT ![h].state = "accepted"] /\ call' = [call EXCEPT ![c] = k]
  <2>1. MovesOn(lot, lot') /\ lot'[h].state = "accepted"
    BY <1>3, <1>4, OfferMoves
  <2>2. /\ k.pc = "collecting" /\ k.offer = h /\ k.landed = TRUE /\ k.rest = call[c].rest
        /\ k.answer = "none" /\ k \in CallType
    BY <1>2, <1>3 DEF CallType, Places, OfCallers
  <2> HIDE DEF k
  <2>3. /\ lot'[h] # None
        /\ \A g \in k.rest : lot'[g] # None /\ lot'[g].author = "me" /\ lot'[g].expires <= clock
    BY <1>2, <1>3, <2>1, <2>2 DEF MovesOn, Sound
  <2>4. Told(k, lot')
    BY <2>2 DEF Told, Refusals
  <2>5. Sound(k, c, lot', clock)
    BY <1>1, <1>3, <2>1, <2>2, <2>3, <2>4 DEF Sound, OfCallers, OfLoops
  <2> HIDE DEF h
  <2>6. "accepted" \in {"accepted", "cancelled"} /\ k.pc # "offering"
    BY <2>2
  <2>7. UNCHANGED <<clock, timer, closed, promised>>
    BY DEF AcceptLands
  <2> QED BY <1>3, <1>4, <2>5, <2>6, <2>7, OfferStep
<1>5. CASE ~Open(h) /\ Answer(c, LostRace(h)) /\ UNCHANGED lot
  <2> DEFINE code == LostRace(h)
  <2>1. /\ code \in Refusals
        /\ code = "offer-taken" => lot[h].state = "accepted"
        /\ code = "offer-cancelled" => lot[h].state = "cancelled"
    BY <1>3, <1>5, RaceCodeIs DEF LostRace, Refusals
  <2>2. /\ code \in Answers
        /\ ~(code \in {"settled", "cancelled", "published"})
    BY <2>1 DEF Answers, Refusals
  <2>3. call' = [call EXCEPT ![c] = Answered(c, code)]
    BY <1>5 DEF Answer
  <2> HIDE DEF code
  <2>4. Sound(Answered(c, code), c, lot, clock) /\ Answered(c, code).pc = "answered"
    BY <1>1, <1>3, <2>1, <2>2, AnsweredSound
  <2> QED BY <1>2, <1>5, <2>3, <2>4, CallStep DEF AcceptLands
<1>6. CASE Answer(c, NotEnough) /\ UNCHANGED lot
  <2>1. Sound(Answered(c, NotEnough), c, lot, clock) /\ Answered(c, NotEnough).pc = "answered"
    BY <1>1, <1>3, NotEnoughSound
  <2> QED BY <1>2, <1>6, <2>1, CallStep DEF AcceptLands, Answer
<1> QED BY <1>4, <1>5, <1>6 DEF AcceptLands, StillOpen

LEMMA CollectedKeeps ==
    ASSUME MarketInv, NEW c \in Workers, Collected(c)
    PROVE  MarketInv'
<1>1. c \in Callers
  BY CallerThere DEF Collected, OfCallers
<1>2. Sound(call[c], c, lot, clock) /\ promised' \subseteq Mine
  BY InvFacts DEF MarketInv, Collected
<1>3. /\ call[c].offer # None /\ call[c].landed /\ lot[call[c].offer].state = "accepted"
  BY <1>2 DEF Sound, Collected
<1>4. Sound(Answered(c, "settled"), c, lot, clock) /\ Answered(c, "settled").pc = "answered"
  BY <1>1, <1>3, AnsweredSound DEF Answers, Refusals
<1> QED BY <1>2, <1>4, CallStep DEF Collected, Answer, ledger

LEMMA ListExpiredKeeps ==
    ASSUME MarketInv, NEW w \in Workers, ListExpired(w)
    PROVE  MarketInv'
<1>1. PICK rows \in {OpenOffers, {}} :
          call' = [call EXCEPT ![w] = [@ EXCEPT !.pc = "sweeping", !.rest = ToCancel(rows)]]
  BY DEF ListExpired
<1> DEFINE k == [call[w] EXCEPT !.pc = "sweeping", !.rest = ToCancel(rows)]
<1>2. /\ Sound(call[w], w, lot, clock) /\ call[w] \in CallType /\ Published \subseteq Offers
      /\ promised' \subseteq Mine
  BY InvFacts DEF MarketInv, ListExpired
<1>3. rows \subseteq Mine
  BY DEF OpenOffers
<1>4. \A g \in ToCancel(rows) : g \in Offers /\ lot[g] # None /\ lot[g].author = "me"
                                /\ lot[g].expires <= clock
  BY <1>2, <1>3 DEF ToCancel, Mine, Published, Expired
<1>5. /\ k.pc = "sweeping" /\ k.offer = call[w].offer /\ k.landed = call[w].landed
      /\ k.rest = ToCancel(rows) /\ k.answer = call[w].answer /\ k.loops = call[w].loops
      /\ k \in CallType
  BY <1>2, <1>4 DEF CallType, Places, OfLoops
<1>6. call' = [call EXCEPT ![w] = k]
  BY <1>1
<1> HIDE DEF k
<1>7. k.answer = "none" /\ k.loops
  BY <1>2, <1>5 DEF Sound, ListExpired, OfLoops
<1>8. Told(k, lot)
  BY <1>7 DEF Told, Refusals
<1>9. Sound(k, w, lot, clock)
  BY <1>2, <1>4, <1>5, <1>7, <1>8 DEF Sound, OfCallers, OfLoops
<1> QED BY <1>2, <1>5, <1>6, <1>9, CallStep DEF ListExpired, ledger

LEMMA SweepNextKeeps ==
    ASSUME MarketInv, NEW w \in Workers, SweepNext(w)
    PROVE  MarketInv'
<1> DEFINE h == Min(call[w].rest)
<1>1. /\ Sound(call[w], w, lot, clock) /\ call[w] \in CallType /\ promised' \subseteq Mine
      /\ UNCHANGED <<clock, lot, timer, closed>>
  BY InvFacts DEF MarketInv, SweepNext, ledger
<1>2. call[w].rest \in SUBSET Nat /\ call[w].rest \in SUBSET Offers /\ call[w].rest # {}
  BY <1>1, MarketAssumption DEF CallType, Offers, SweepNext
<1>3. h \in call[w].rest
  BY <1>2, MinIs
<1>4. /\ h \in Offers /\ h # None /\ lot[h] # None /\ lot[h].expires <= clock
      /\ \A g \in call[w].rest : lot[g] # None /\ lot[g].author = "me" /\ lot[g].expires <= clock
  BY <1>1, <1>2, <1>3, MarketAssumption DEF Sound, Offers
<1>5. CASE MayGoOn(w)
  <2> DEFINE pc == IF Open(h) THEN "cancelling" ELSE "sweeping"
  <2> DEFINE k == [call[w] EXCEPT !.pc = pc, !.offer = h, !.rest = call[w].rest \ {h},
                           !.landed = FALSE]
  <2>1. call' = [call EXCEPT ![w] = k]
    BY <1>5 DEF SweepNext
  <2>2. /\ k.pc = pc /\ k.offer = h /\ k.landed = FALSE /\ k.rest = call[w].rest \ {h}
        /\ k.answer = call[w].answer /\ k.loops = call[w].loops /\ k \in CallType
    BY <1>1, <1>2, <1>4 DEF CallType, Places, OfLoops
  <2>3. pc \in {"cancelling", "sweeping"}
    OBVIOUS
  <2> HIDE DEF k, pc
  <2>4. k.answer = "none" /\ k.loops
    BY <1>1, <2>2 DEF Sound, SweepNext, OfLoops
  <2>5. Told(k, lot)
    BY <2>4 DEF Told, Refusals
  <2>6. Sound(k, w, lot, clock)
    BY <1>4, <2>2, <2>3, <2>4, <2>5 DEF Sound, OfCallers, OfLoops
  <2> QED BY <1>1, <2>1, <2>2, <2>3, <2>6, CallStep
<1>6. CASE ~MayGoOn(w)
  <2>1. call' = [call EXCEPT ![w] = Idle]
    BY <1>6 DEF SweepNext
  <2>2. Sound(Idle, w, lot, clock) /\ Idle.pc = "idle"
    BY IdleSound
  <2> QED BY <1>1, <2>1, <2>2, CallStep
<1> QED BY <1>5, <1>6

LEMMA CancelLandsKeeps ==
    ASSUME MarketInv, NEW w \in Workers, CancelLands(w)
    PROVE  MarketInv'
<1> DEFINE h == call[w].offer
<1>1. /\ Sound(call[w], w, lot, clock) /\ call[w] \in CallType /\ promised' \subseteq Mine
      /\ lot \in LotsType /\ Published = PublishedIn(lot)
      /\ UNCHANGED <<clock, closed, promised>>
  BY InvFacts DEF MarketInv, CancelLands
<1>2. /\ h # None /\ h \in Published /\ ~call[w].landed /\ call[w].answer = "none"
      /\ call[w].rest \subseteq Offers /\ h \in Offers
  BY <1>1 DEF Sound, CancelLands, CallType, PublishedIn
<1> DEFINE k == [call[w] EXCEPT !.pc = "cancelled", !.landed = TRUE]
<1>3. CASE /\ Open(h) /\ lot' = [lot EXCEPT ![h].state = "cancelled"]
           /\ call' = [call EXCEPT ![w] = k] /\ UNCHANGED timer
  <2>1. MovesOn(lot, lot') /\ lot'[h].state = "cancelled"
    BY <1>2, <1>3, OfferMoves
  <2>2. /\ k.pc = "cancelled" /\ k.offer = h /\ k.landed = TRUE /\ k.rest = call[w].rest
        /\ k.answer = "none" /\ k.loops = call[w].loops /\ k \in CallType
    BY <1>1, <1>2 DEF CallType, Places
  <2> HIDE DEF k
  <2>3. /\ lot'[h] # None
        /\ \A g \in k.rest : lot'[g] # None /\ lot'[g].author = "me" /\ lot'[g].expires <= clock
    BY <1>1, <1>2, <2>1, <2>2 DEF MovesOn, Sound
  <2>4. Told(k, lot')
    BY <2>2 DEF Told, Refusals
  <2>5. w \in Sweepers => k.loops
    BY <1>1, <2>2 DEF Sound, CancelLands
  <2>6. Sound(k, w, lot', clock)
    BY <1>2, <2>1, <2>2, <2>3, <2>4, <2>5 DEF Sound, OfCallers, OfLoops
  <2> HIDE DEF h
  <2>7. "cancelled" \in {"accepted", "cancelled"} /\ k.pc # "offering"
    BY <2>2
  <2> QED BY <1>1, <1>2, <1>3, <2>6, <2>7, OfferStep
<1>4. CASE ~Open(h) /\ ~call[w].loops /\ Answer(w, LostRace(h)) /\ UNCHANGED timer /\ UNCHANGED lot
  <2> DEFINE code == LostRace(h)
  <2>1. w \in Callers
    BY <1>4, CallerThere DEF CancelLands
  <2>2. /\ code \in Refusals
        /\ code = "offer-taken" => lot[h].state = "accepted"
        /\ code = "offer-cancelled" => lot[h].state = "cancelled"
    BY <1>2, <1>4, RaceCodeIs DEF LostRace, Refusals
  <2>3. /\ code \in Answers
        /\ ~(code \in {"settled", "cancelled", "published"})
    BY <2>2 DEF Answers, Refusals
  <2>4. call' = [call EXCEPT ![w] = Answered(w, code)]
    BY <1>4 DEF Answer
  <2> HIDE DEF code
  <2>5. Sound(Answered(w, code), w, lot, clock) /\ Answered(w, code).pc = "answered"
    BY <1>2, <2>1, <2>2, <2>3, AnsweredSound
  <2> QED BY <1>1, <1>4, <2>4, <2>5, CallStep
<1>5. CASE call[w].loops /\ Goes(w, "sweeping") /\ UNCHANGED timer /\ UNCHANGED lot
  <2> DEFINE k2 == [call[w] EXCEPT !.pc = "sweeping"]
  <2>1. Sound(k2, w, lot, clock)
    BY <1>5, LoopGoesOn DEF CancelLands, Free
  <2>2. k2.pc # "offering"
    BY <1>1 DEF CallType
  <2>3. call' = [call EXCEPT ![w] = k2]
    BY <1>5 DEF Goes
  <2> HIDE DEF k2
  <2> QED BY <1>1, <1>5, <2>1, <2>2, <2>3, CallStep
<1>6. CASE Throw(w) /\ UNCHANGED lot
  BY <1>1, <1>6, ThrowKeeps
<1> QED BY <1>3, <1>4, <1>5, <1>6 DEF CancelLands, Lost, StillOpen

LEMMA CancelledKeeps ==
    ASSUME MarketInv, NEW w \in Workers, Cancelled(w)
    PROVE  MarketInv'
<1>1. /\ Sound(call[w], w, lot, clock) /\ call[w] \in CallType /\ promised' \subseteq Mine
      /\ UNCHANGED <<clock, lot, timer, closed>>
  BY InvFacts DEF MarketInv, Cancelled, ledger
<1>2. CASE call[w].loops
  <2> DEFINE k == [call[w] EXCEPT !.pc = "sweeping"]
  <2>1. Sound(k, w, lot, clock)
    BY <1>2, LoopGoesOn DEF Cancelled, Free
  <2>2. k.pc # "offering"
    BY <1>1 DEF CallType
  <2>3. call' = [call EXCEPT ![w] = k]
    BY <1>2 DEF Goes, Cancelled
  <2> HIDE DEF k
  <2> QED BY <1>1, <2>1, <2>2, <2>3, CallStep
<1>3. CASE ~call[w].loops
  <2>1. w \in Callers
    BY <1>3, CallerThere DEF Cancelled
  <2>2. call[w].offer # None /\ call[w].landed /\ lot[call[w].offer].state = "cancelled"
    BY <1>1 DEF Sound, Cancelled
  <2>3. Sound(Answered(w, "cancelled"), w, lot, clock) /\ Answered(w, "cancelled").pc = "answered"
    BY <2>1, <2>2, AnsweredSound DEF Answers, Refusals
  <2> QED BY <1>1, <1>3, <2>3, CallStep DEF Cancelled, Answer
<1> QED BY <1>2, <1>3

LEMMA SweepEndsKeeps ==
    ASSUME MarketInv, NEW w \in Workers, SweepEnds(w)
    PROVE  MarketInv'
<1>1. /\ Sound(call[w], w, lot, clock) /\ call[w] \in CallType /\ promised' \subseteq Mine
      /\ UNCHANGED <<clock, lot, timer, closed>> /\ call[w].loops
  BY InvFacts DEF MarketInv, SweepEnds, ledger, Sound, OfLoops
<1>2. CASE w \in Callers
  <2>1. Sound(Answered(w, "swept"), w, lot, clock) /\ Answered(w, "swept").pc = "answered"
    BY <1>2, AnsweredSound DEF Answers, Refusals
  <2> QED BY <1>1, <1>2, <2>1, CallStep DEF SweepEnds, Answer
<1>3. CASE w \notin Callers /\ closed
  <2>1. Sound(Idle, w, lot, clock) /\ Idle.pc = "idle"
    BY IdleSound
  <2> QED BY <1>1, <1>3, <2>1, CallStep DEF SweepEnds
<1>4. CASE w \notin Callers /\ ~closed
  <2> DEFINE k == [call[w] EXCEPT !.pc = "rereading"]
  <2>1. Sound(k, w, lot, clock)
    BY <1>1, LoopGoesOn DEF SweepEnds, Free
  <2>2. k.pc # "offering"
    BY <1>1 DEF CallType
  <2>3. call' = [call EXCEPT ![w] = k]
    BY <1>4 DEF Goes, SweepEnds
  <2> HIDE DEF k
  <2> QED BY <1>1, <2>1, <2>2, <2>3, CallStep
<1> QED BY <1>2, <1>3, <1>4

\* The earliest expiry of some own offers.
LEMMA EarliestIs ==
    ASSUME MarketInv, NEW rows \in SUBSET Published
    PROVE  /\ Earliest(rows) \in Nat
           /\ \A h \in rows : lot[h].expires # Never => Earliest(rows) # Never
<1> DEFINE times == {Never} \cup {lot[h].expires : h \in rows}
<1>1. \A h \in rows : lot[h].expires \in 1..Never
  BY InvFacts DEF OfferTerms
<1>2. Never \in Nat
  BY InvFacts
<1>3. times \in SUBSET Nat /\ times # {}
  BY <1>1, <1>2
<1>4. \A h \in rows : lot[h].expires \in times
  OBVIOUS
<1>5. Earliest(rows) = Min(times)
  BY DEF Earliest
<1> HIDE DEF times
<1>6. Min(times) \in times /\ \A t \in times : Min(times) <= t
  BY <1>3, MinIs
<1>7. Earliest(rows) \in Nat
  BY <1>3, <1>5, <1>6
<1>8. ASSUME NEW h \in rows, lot[h].expires # Never
      PROVE  Earliest(rows) # Never
  <2> DEFINE e == lot[h].expires
  <2>1. e \in times /\ e \in 1..Never /\ e # Never
    BY <1>1, <1>4, <1>8
  <2> HIDE DEF e
  <2>2. Min(times) <= e /\ Min(times) \in Nat
    BY <1>3, <1>6, <2>1
  <2> QED BY <1>2, <1>5, <2>1, <2>2
<1> QED BY <1>7, <1>8

LEMMA RereadKeeps ==
    ASSUME MarketInv, NEW s \in Workers, Reread(s)
    PROVE  MarketInv'
<1>1. promised' \subseteq Mine /\ UNCHANGED <<clock, lot, closed>>
  BY DEF MarketInv, Reread, ledger
<1>2. PICK rows \in {OpenOffers, {}} : Arm(Earliest(rows))
  BY DEF Reread
<1>3. rows \in SUBSET Published
  BY DEF OpenOffers, Mine
<1>4. \E expires \in Nat : Arm(expires)
  BY <1>2, <1>3, EarliestIs
<1>5. Sound(Idle, s, lot, clock) /\ Idle.pc = "idle"
  BY IdleSound
<1> QED BY <1>1, <1>4, <1>5, CallStep DEF Reread

LEMMA FireKeeps ==
    ASSUME MarketInv, Fire
    PROVE  MarketInv'
<1>1. /\ CallsSound(call, lot, clock) /\ PlacesLeft(call, lot)
      /\ timer \in Alarm /\ closed = FALSE /\ promised \subseteq Mine
      /\ UNCHANGED <<clock, lot, closed, promised>>
  BY DEF MarketInv, Fire, ledger, Alarm
<1>2. clock \in Nat /\ clock \in 0..MaxClock /\ lot \in LotsType /\ MaxClock \in Nat
  BY InvFacts, MarketAssumption
<1>3. CASE timer.for > clock
  <2>1. timer.for \in Nat
    BY <1>1, <1>2 DEF Alarm
  <2>2. clock + Delay(timer.for) \in Nat
    BY <1>2, <2>1, DelayIs
  <2>3. timer' \in Alarm
    BY <1>1, <1>3, <2>2, SoonIs DEF Fire, Alarm
  <2> QED BY <1>1, <1>2, <1>3, <2>3 DEF MarketInv, Fire, Mine, Published
<1>4. CASE ~(timer.for > clock)
  <2> DEFINE s == AnyOf(Resting)
  <2>1. s \in Resting /\ call' = [call EXCEPT ![s] = Loop] /\ timer' = None
    BY <1>4 DEF Fire, AnyOf
  <2> HIDE DEF s
  <2>2. s \in Workers
    BY <2>1 DEF Resting, Workers
  <2>3. Sound(Loop, s, lot, clock) /\ Loop.pc = "listing"
    BY <2>2, LoopSound
  <2>4. MovesOn(lot, lot)
    BY DEF MovesOn
  <2>5. CallsSound(call', lot, clock)
    BY <1>1, <1>2, <2>1, <2>2, <2>3, <2>4, CallsStaySound
  <2>6. PlacesLeft(call', lot)
    <3>1. call = [v \in Workers |-> call[v]]
      BY <1>1 DEF CallsSound
    <3>2. \A c \in Callers : c \in Workers
      BY DEF Workers
    <3>3. OfferingIn(call') \subseteq OfferingIn(call)
      BY <2>1, <2>3, <3>1, <3>2 DEF OfferingIn
    <3> QED BY <1>1, <3>3, PlacesStay
  <2> QED BY <1>1, <1>2, <2>1, <2>5, <2>6 DEF MarketInv, Mine, Published
<1> QED BY <1>3, <1>4

LEMMA CloseKeeps ==
    ASSUME MarketInv, Close
    PROVE  MarketInv'
BY DEF MarketInv, Close, ledger, Mine, Published

LEMMA TickKeeps ==
    ASSUME MarketInv, Tick
    PROVE  MarketInv'
<1>1. /\ CallsSound(call, lot, clock) /\ clock \in Nat /\ lot \in LotsType
      /\ MaxClock \in Nat /\ clock \in 0..MaxClock
  BY InvFacts, MarketAssumption DEF MarketInv
<1>2. clock' \in 0..MaxClock /\ clock <= clock' /\ clock' \in Nat
  BY <1>1 DEF Tick
<1>3. MovesOn(lot, lot)
  BY DEF MovesOn
<1>4. ASSUME NEW w \in Workers
      PROVE  Sound(call[w], w, lot, clock')
  BY <1>1, <1>2, <1>3, StaysSound DEF CallsSound
<1>5. CallsSound(call, lot, clock')
  BY <1>1, <1>4 DEF CallsSound
<1>6. UNCHANGED <<lot, call, timer, closed, promised>>
  BY DEF Tick, ledger
<1> QED BY <1>2, <1>5, <1>6 DEF MarketInv, Mine, Published

LEMMA SettlesKeeps ==
    ASSUME MarketInv, NEW h \in Published, NEW state \in {"accepted", "cancelled"},
           Settles(h, state)
    PROVE  MarketInv'
<1>1. /\ CallsSound(call, lot, clock) /\ PlacesLeft(call, lot) /\ promised \subseteq Mine
      /\ clock \in Nat /\ lot \in LotsType
  BY InvFacts DEF MarketInv
<1>2. /\ lot' \in LotsType /\ MovesOn(lot, lot')
      /\ PublishedIn(lot') = PublishedIn(lot) /\ Mine' = Mine
  BY OfferMoves DEF Settles
<1>3. ASSUME NEW w \in Workers
      PROVE  Sound(call[w], w, lot', clock)
  BY <1>1, <1>2, StaysSound DEF CallsSound
<1>4. CallsSound(call, lot', clock)
  BY <1>1, <1>3 DEF CallsSound
<1>5. PlacesLeft(call, lot')
  BY <1>1, <1>2, PlacesStay
<1> QED BY <1>1, <1>2, <1>4, <1>5 DEF MarketInv, Settles

LEMMA FailsKeeps ==
    ASSUME MarketInv, NEW w \in Workers, Fails(w)
    PROVE  MarketInv'
BY ThrowKeeps DEF Fails, ledger

LEMMA NextKeeps ==
    ASSUME MarketInv, [Next]_vars
    PROVE  MarketInv'
<1>1. CASE UNCHANGED vars
  BY <1>1 DEF vars, ledger, MarketInv, Mine, Published
<1>2. ASSUME NEW c \in Callers, NEW expires \in Expiries \cup {Never}, Offering(c, expires)
      PROVE  MarketInv'
  BY <1>2, OfferingKeeps
<1>3. ASSUME NEW c \in Callers, NEW h \in Published, Accepting(c, h) \/ Cancelling(c, h)
      PROVE  MarketInv'
  BY <1>3, AcceptingKeeps, CancellingKeeps
<1>4. ASSUME NEW c \in Callers, CancellingExpired(c)
      PROVE  MarketInv'
  BY <1>4, CancellingExpiredKeeps
<1>5. ASSUME NEW w \in Workers, Proceed(w)
      PROVE  MarketInv'
  <2>1. CASE OfferLands(w)
    <3>1. w \in Callers
      BY <2>1, CallerThere DEF OfferLands, OfCallers
    <3> QED BY <2>1, <3>1, OfferLandsKeeps
  <2> QED BY <1>5, <2>1, ReadBackKeeps, AcceptLandsKeeps, CollectedKeeps, ListExpiredKeeps,
             SweepNextKeeps, CancelLandsKeeps, CancelledKeeps, SweepEndsKeeps, RereadKeeps
          DEF Proceed
<1>6. ASSUME NEW w \in Workers, Fails(w)
      PROVE  MarketInv'
  BY <1>6, FailsKeeps
<1>7. ASSUME NEW h \in Published, Taken(h) \/ Withdrawn(h)
      PROVE  MarketInv'
  BY <1>7, SettlesKeeps DEF Taken, Withdrawn
<1>8. CASE Fire \/ Close \/ Tick
  BY <1>8, FireKeeps, CloseKeeps, TickKeeps
<1> QED BY <1>1, <1>2, <1>3, <1>4, <1>5, <1>6, <1>7, <1>8 DEF Next

\* What the calls of market.ts rely on holds, for every value of the constants.
THEOREM MarketStaysSound == Spec => []MarketInv
<1>1. Init => MarketInv
  BY InitKeeps
<1>2. MarketInv /\ [Next]_vars => MarketInv'
  BY NextKeeps
<1> QED BY <1>1, <1>2, PTL DEF Spec

-----------------------------------------------------------------------------
(* what callers are told                                                   *)

LEMMA InvTellsTruly ==
    ASSUME MarketInv
    PROVE  CallersToldTruly
<1>1. \A w \in Workers : Sound(call[w], w, lot, clock) /\ call[w] \in CallType
  BY InvFacts
<1>2. TypeOK
  <2>1. clock \in 0..MaxClock /\ (closed => timer = None) /\ promised \subseteq Mine
    BY DEF MarketInv
  <2>2. timer # None => timer.for \in 0..MaxClock /\ timer.due \in 0..MaxClock
    BY DEF MarketInv, Alarm
  <2>3. \A h \in Published :
            lot[h].state \in {"open", "accepted", "cancelled"} /\ lot[h].expires \in 1..Never
    BY InvFacts DEF OfferTerms
  <2>4. \A w \in Workers : call[w].rest \subseteq Mine
    BY <1>1, InvFacts DEF Sound, CallType, Mine, Published
  <2>5. \A s \in Sweepers : call[s].pc # "answered"
    BY <1>1 DEF Sound, OfCallers, Workers
  <2> QED BY <2>1, <2>2, <2>3, <2>4, <2>5 DEF TypeOK
<1>3. AnswersAreTrue
  <2> SUFFICES ASSUME NEW c \in Callers
               PROVE  LET answer == call[c].answer
                          state == IF call[c].offer = None THEN "none"
                                   ELSE lot[call[c].offer].state
                      IN  /\ answer \in Refusals => ~call[c].landed
                          /\ answer \in {"settled", "cancelled", "published"} => call[c].landed
                          /\ answer \in {"settled", "offer-taken"} => state = "accepted"
                          /\ answer \in {"cancelled", "offer-cancelled"} => state = "cancelled"
    BY DEF AnswersAreTrue
  <2>1. Told(call[c], lot)
    BY <1>1 DEF Sound, Workers
  <2> QED BY <2>1 DEF Told
<1> QED BY <1>2, <1>3 DEF CallersToldTruly

\* Whatever a call of offer, accept, cancel or cancelExpired is answered is what
\* became of the offer: a refused call moved nothing, a lost race is reported as
\* the race it was, and nothing reported settled or cancelled turns out otherwise.
THEOREM CallersAreToldTruly == Spec => []CallersToldTruly
<1>1. MarketInv => CallersToldTruly
  BY InvTellsTruly
<1> QED BY <1>1, MarketStaysSound, PTL

-----------------------------------------------------------------------------
(* the sweep                                                               *)

\* Only call w moves: what it comes to next, and what it leaves awake.
Moves(w) ==
    /\ \A v \in Workers \ {w} : call'[v] = call[v]
    /\ call'[w].pc = "cancelling" => w \in Callers \/ ~closed
    /\ call'[w].pc # "idle" \/ w \in Callers \/ closed \/ timer' # None \/ Reread(w)
    /\ timer # None => timer' # None

LEMMA ThrowMoves ==
    ASSUME MarketInv, NEW w \in Workers, Throw(w), UNCHANGED <<clock, closed>>
    PROVE  Moves(w)
<1>1. call = [v \in Workers |-> call[v]] /\ clock \in Nat /\ SweepInterval \in Nat
  BY InvFacts, MarketAssumption DEF MarketInv, CallsSound
<1>2. CASE w \in Sweepers
  <2>1. clock + SweepInterval \in Nat
    BY <1>1
  <2> DEFINE t == Soon(clock + SweepInterval)
  <2>2. t \in Nat /\ t # Never
    <3>1. t \in 0..MaxClock /\ MaxClock \in Nat
      BY <2>1, SoonIs, MarketAssumption
    <3> HIDE DEF t
    <3> QED BY <3>1 DEF Never
  <2>3. Arm(t) /\ call' = [call EXCEPT ![w] = Idle]
    BY <1>2 DEF Throw
  <2> HIDE DEF t
  <2>4. (~closed => timer' # None) /\ (timer # None => timer' # None)
    BY <2>2, <2>3, ArmIs DEF MarketInv
  <2>5. call'[w].pc = "idle"
    BY <1>1, <2>3 DEF Idle
  <2> QED BY <1>1, <2>3, <2>4, <2>5 DEF Moves
<1>3. CASE w \notin Sweepers
  <2>1. w \in Callers
    BY <1>3 DEF Workers
  <2>2. call' = [call EXCEPT ![w] = Answered(w, "threw")] /\ timer' = timer
    BY <1>3 DEF Throw, Answer
  <2> QED BY <1>1, <2>1, <2>2 DEF Moves
<1> QED BY <1>2, <1>3

LEMMA GoesTo ==
    ASSUME MarketInv, NEW w \in Workers, NEW pc, Goes(w, pc)
    PROVE  call'[w].pc = pc /\ \A v \in Workers \ {w} : call'[v] = call[v]
<1>1. call = [v \in Workers |-> call[v]] /\ call[w] \in CallType
  BY InvFacts DEF MarketInv, CallsSound
<1> QED BY <1>1 DEF Goes, CallType

LEMMA AnswersTo ==
    ASSUME MarketInv, NEW w \in Workers, NEW answer, Answer(w, answer)
    PROVE  call'[w].pc = "answered" /\ \A v \in Workers \ {w} : call'[v] = call[v]
<1>1. call = [v \in Workers |-> call[v]]
  BY DEF MarketInv, CallsSound
<1> QED BY <1>1 DEF Answer, Answered, Idle

LEMMA ProceedMoves ==
    ASSUME MarketInv, NEW w \in Workers, Proceed(w) \/ Fails(w)
    PROVE  Moves(w)
<1>1. call = [v \in Workers |-> call[v]]
  BY DEF MarketInv, CallsSound
<1>2. Sound(call[w], w, lot, clock) /\ call[w] \in CallType
  BY InvFacts
<1>3. CASE Fails(w)
  BY <1>3, ThrowMoves DEF Fails
<1>4. CASE OfferLands(w) \/ AcceptLands(w) \/ Collected(w)
  <2>1. w \in Callers
    BY <1>4, CallerThere DEF OfferLands, AcceptLands, Collected, OfCallers
  <2>2. /\ \A v \in Workers \ {w} : call'[v] = call[v]
        /\ timer' = timer
    BY <1>1, <1>4 DEF OfferLands, AcceptLands, Collected, Answer
  <2> QED BY <2>1, <2>2 DEF Moves
<1>5. CASE ReadBack(w)
  <2>1. w \in Callers
    BY <1>5, CallerThere DEF ReadBack, OfCallers
  <2>2. \A v \in Workers \ {w} : call'[v] = call[v]
    BY <1>1, <1>5 DEF ReadBack, Answer
  <2>3. call[w].expires \in Nat /\ Arm(call[w].expires)
    BY <1>2, <1>5, InvFacts DEF ReadBack, CallType
  <2>4. timer # None => timer' # None
    BY <2>3, ArmIs DEF MarketInv
  <2> QED BY <2>1, <2>2, <2>4 DEF Moves
<1>6. CASE ListExpired(w)
  <2>1. call'[w].pc = "sweeping" /\ timer' = timer
    BY <1>1, <1>2, <1>6 DEF ListExpired, CallType
  <2>2. \A v \in Workers \ {w} : call'[v] = call[v]
    BY <1>1, <1>6 DEF ListExpired
  <2> QED BY <2>1, <2>2 DEF Moves
<1>7. CASE SweepNext(w)
  <2>1. \A v \in Workers \ {w} : call'[v] = call[v]
    BY <1>1, <1>7 DEF SweepNext
  <2>2. timer' = timer
    BY <1>7 DEF SweepNext
  <2>3. CASE MayGoOn(w)
    <3>1. call'[w].pc # "idle"
      <4> DEFINE h == Min(call[w].rest)
      <4> DEFINE pc == IF Open(h) THEN "cancelling" ELSE "sweeping"
      <4>1. call' = [call EXCEPT ![w] = [@ EXCEPT !.pc = pc, !.offer = h,
                                           !.rest = call[w].rest \ {h}, !.landed = FALSE]]
        BY <1>7, <2>3 DEF SweepNext
      <4>2. pc # "idle"
        OBVIOUS
      <4> HIDE DEF h, pc
      <4>3. call'[w].pc = pc
        BY <1>1, <1>2, <4>1 DEF CallType
      <4> QED BY <4>2, <4>3
    <3>2. w \in Callers \/ ~closed
      BY <2>3 DEF MayGoOn
    <3> QED BY <2>1, <2>2, <3>1, <3>2 DEF Moves
  <2>4. CASE ~MayGoOn(w)
    <3>1. call'[w].pc = "idle"
      BY <1>1, <1>7, <2>4 DEF SweepNext, Idle
    <3>2. closed
      BY <2>4 DEF MayGoOn
    <3> QED BY <2>1, <2>2, <3>1, <3>2 DEF Moves
  <2> QED BY <2>3, <2>4
<1>8. CASE CancelLands(w)
  <2>1. CASE Throw(w)
    BY <1>8, <2>1, ThrowMoves DEF CancelLands
  <2>2. CASE call[w].loops /\ Goes(w, "sweeping") /\ UNCHANGED timer
    <3>1. call'[w].pc = "sweeping"
      BY <1>1, <1>2, <2>2 DEF Goes, CallType
    <3>2. \A v \in Workers \ {w} : call'[v] = call[v]
      BY <1>1, <2>2 DEF Goes
    <3> QED BY <2>2, <3>1, <3>2 DEF Moves
  <2>3. CASE ~call[w].loops /\ Answer(w, LostRace(call[w].offer)) /\ UNCHANGED timer
    <3>1. w \in Callers
      BY <1>8, <2>3, CallerThere DEF CancelLands
    <3>2. \A v \in Workers \ {w} : call'[v] = call[v]
      BY <1>1, <2>3 DEF Answer
    <3> QED BY <2>3, <3>1, <3>2 DEF Moves
  <2>4. CASE /\ call' = [call EXCEPT ![w] = [@ EXCEPT !.pc = "cancelled", !.landed = TRUE]]
             /\ UNCHANGED timer
    <3>1. call'[w].pc = "cancelled"
      BY <1>1, <1>2, <2>4 DEF CallType
    <3>2. \A v \in Workers \ {w} : call'[v] = call[v]
      BY <1>1, <2>4
    <3> QED BY <2>4, <3>1, <3>2 DEF Moves
  <2> QED BY <1>8, <2>1, <2>2, <2>3, <2>4 DEF CancelLands, Lost
<1>9. CASE Cancelled(w)
  <2>1. timer' = timer
    BY <1>9 DEF Cancelled
  <2>2. Goes(w, "sweeping") \/ Answer(w, "cancelled")
    BY <1>9 DEF Cancelled
  <2> QED BY <2>1, <2>2, GoesTo, AnswersTo DEF Moves
<1>10. CASE SweepEnds(w)
  <2>1. timer' = timer
    BY <1>10 DEF SweepEnds
  <2>2. \/ Answer(w, "swept")
        \/ closed /\ call' = [call EXCEPT ![w] = Idle]
        \/ Goes(w, "rereading")
    BY <1>10 DEF SweepEnds
  <2>3. CASE closed /\ call' = [call EXCEPT ![w] = Idle]
    <3>1. call'[w].pc = "idle" /\ \A v \in Workers \ {w} : call'[v] = call[v]
      BY <1>1, <2>3 DEF Idle
    <3> QED BY <2>1, <2>3, <3>1 DEF Moves
  <2> QED BY <2>1, <2>2, <2>3, GoesTo, AnswersTo DEF Moves
<1>11. CASE Reread(w)
  <2>1. \A v \in Workers \ {w} : call'[v] = call[v]
    BY <1>1, <1>11 DEF Reread
  <2>2. call'[w].pc = "idle"
    BY <1>1, <1>11 DEF Reread, Idle
  <2>3. PICK rows \in {OpenOffers, {}} : Arm(Earliest(rows))
    BY <1>11 DEF Reread
  <2>4. rows \in SUBSET Published
    BY DEF OpenOffers, Mine
  <2>5. Earliest(rows) \in Nat
    BY <2>4, EarliestIs
  <2>6. timer # None => timer' # None
    BY <2>3, <2>5, ArmIs DEF MarketInv
  <2> QED BY <1>11, <2>1, <2>2, <2>6 DEF Moves
<1> QED BY <1>3, <1>4, <1>5, <1>6, <1>7, <1>8, <1>9, <1>10, <1>11 DEF Proceed

\* A call of the application begins.
Begins(c) ==
    \/ \E expires \in Expiries \cup {Never} : Offering(c, expires)
    \/ \E h \in Published : Accepting(c, h) \/ Cancelling(c, h)
    \/ CancellingExpired(c)

LEMMA BeginsMoves ==
    ASSUME MarketInv, NEW c \in Callers, Begins(c)
    PROVE  Moves(c) /\ UNCHANGED <<clock, lot, timer, closed, faults, blind, promised>>
<1>1. call = [v \in Workers |-> call[v]]
  BY DEF MarketInv, CallsSound
<1>2. UNCHANGED <<clock, lot, timer, closed, faults, blind, promised>>
  BY DEF Begins, Offering, Accepting, Cancelling, CancellingExpired, ledger
<1>3. \A v \in Workers \ {c} : call'[v] = call[v]
  BY <1>1 DEF Begins, Offering, Accepting, Cancelling, CancellingExpired, Begin
<1> QED BY <1>2, <1>3 DEF Moves

\* A loop cancels only what has expired; any other cancel is the application's.
LEMMA OnlyCancels ==
    ASSUME MarketInv, [Next]_vars, NEW h \in Mine, Open(h), lot'[h].state = "cancelled",
           ~Expired(h)
    PROVE  \E c \in Callers : call[c].pc = "cancelling" /\ ~call[c].loops /\ call[c].offer = h
<1>1. /\ lot \in LotsType /\ h \in Offers /\ h \in Published /\ lot[h].state = "open"
      /\ lot[h] \in OfferTerms
  BY InvFacts DEF Mine, Open
<1>2. lot' # lot
  BY <1>1
<1>3. ASSUME NEW w \in Workers, CancelLands(w)
      PROVE  \E c \in Callers : call[c].pc = "cancelling" /\ ~call[c].loops /\ call[c].offer = h
  <2> DEFINE g == call[w].offer
  <2>1. /\ Sound(call[w], w, lot, clock) /\ call[w] \in CallType
        /\ lot' = [lot EXCEPT ![g].state = "cancelled"]
    BY <1>2, <1>3, InvFacts DEF CancelLands
  <2>2. g = h
    BY <1>1, <2>1 DEF LotsType
  <2>3. call[w].pc = "cancelling" /\ ~call[w].loops
    BY <1>3, <2>1, <2>2 DEF CancelLands, Sound, Expired
  <2>4. w \in Callers
    BY <2>3, CallerThere
  <2> QED BY <2>2, <2>3, <2>4
<1>4. ASSUME NEW w \in Workers, OfferLands(w)
      PROVE  FALSE
  <2> DEFINE g == Cardinality(Published) + 1
  <2> DEFINE o == Offer("me", "anybody", call[w].expires)
  <2>1. lot' = [lot EXCEPT ![g] = o]
    BY <1>2, <1>4 DEF OfferLands
  <2>2. o.state = "open"
    BY DEF Offer
  <2> HIDE DEF g, o
  <2>3. lot'[h] = lot[h] \/ lot'[h] = o
    BY <1>1, <2>1 DEF LotsType
  <2> QED BY <1>1, <2>2, <2>3
<1>5. ASSUME NEW w \in Workers, AcceptLands(w)
      PROVE  FALSE
  <2> DEFINE g == call[w].offer
  <2>1. lot' = [lot EXCEPT ![g].state = "accepted"]
    BY <1>2, <1>5 DEF AcceptLands
  <2> HIDE DEF g
  <2> QED BY <1>1, <2>1 DEF LotsType, OfferTerms
<1>6. ASSUME NEW g \in Published, Taken(g) \/ Withdrawn(g)
      PROVE  FALSE
  <2>1. CASE Taken(g)
    <3>1. lot' = [lot EXCEPT ![g].state = "accepted"]
      BY <2>1 DEF Taken, Settles
    <3> QED BY <1>1, <3>1 DEF LotsType, OfferTerms
  <2>2. CASE Withdrawn(g)
    <3>1. g # h /\ lot' = [lot EXCEPT ![g].state = "cancelled"]
      BY <2>2 DEF Withdrawn, Settles
    <3> QED BY <1>1, <3>1 DEF LotsType
  <2> QED BY <1>6, <2>1, <2>2
<1>7. ASSUME NEW w \in Workers, Proceed(w) \/ Fails(w)
      PROVE  OfferLands(w) \/ AcceptLands(w) \/ CancelLands(w)
  BY <1>2, <1>7 DEF Proceed, Fails, ReadBack, Collected, ListExpired, SweepNext, Cancelled,
                    SweepEnds, Reread, ledger
<1>8. ASSUME NEW c \in Callers, Begins(c)
      PROVE  FALSE
  BY <1>2, <1>8, BeginsMoves
<1>9. ~(Fire \/ Close \/ Tick \/ UNCHANGED vars)
  BY <1>2 DEF Fire, Close, Tick, vars, ledger
<1> QED BY <1>3, <1>4, <1>5, <1>6, <1>7, <1>8, <1>9 DEF Next, Begins

\* No sweep comes to a cancel once the market is closed.
LEMMA OnlyOpenMarketsCancel ==
    ASSUME MarketInv, [Next]_vars, closed, NEW s \in Sweepers, call'[s].pc = "cancelling"
    PROVE  call[s].pc = "cancelling"
<1>1. s \in Workers /\ s \notin Callers
  BY MarketAssumption DEF Workers
<1>2. ASSUME NEW w \in Workers, Moves(w)
      PROVE  call[s].pc = "cancelling"
  BY <1>1, <1>2 DEF Moves
<1>3. ASSUME NEW w \in Workers, Proceed(w) \/ Fails(w)
      PROVE  call[s].pc = "cancelling"
  BY <1>2, <1>3, ProceedMoves
<1>4. ASSUME NEW c \in Callers, Begins(c)
      PROVE  call[s].pc = "cancelling"
  BY <1>2, <1>4, BeginsMoves, Disjoint
<1>5. ~Fire
  BY DEF MarketInv, Fire
<1>6. CASE Close \/ Tick \/ UNCHANGED vars
  BY <1>6 DEF Close, Tick, vars
<1>7. ASSUME NEW h \in Published, Taken(h) \/ Withdrawn(h)
      PROVE  call[s].pc = "cancelling"
  BY <1>7 DEF Taken, Withdrawn, Settles
<1> QED BY <1>3, <1>4, <1>5, <1>6, <1>7 DEF Next, Begins

\* After close() no sweep begins another cancel, wherever it was caught; and
\* nothing but an expired listing is cancelled without the application asking.
THEOREM SweepsKeepOut == Spec => SweepKeepsOut
<1>1. MarketInv /\ [Next]_vars =>
          [closed => \A s \in Sweepers :
               call'[s].pc = "cancelling" => call[s].pc = "cancelling"]_vars
  BY OnlyOpenMarketsCancel
<1>2. MarketInv /\ [Next]_vars =>
          [\A h \in Mine :
               Open(h) /\ lot'[h].state = "cancelled" /\ ~Expired(h) =>
                 \E c \in Callers : call[c].pc = "cancelling" /\ ~call[c].loops
                                      /\ call[c].offer = h]_vars
  BY OnlyCancels
<1> QED BY <1>1, <1>2, MarketStaysSound, PTL
        DEF Spec, SweepKeepsOut, ClosedMeansClosed, OnlyExpiredAreSwept

-----------------------------------------------------------------------------
(* no listing is forgotten                                                 *)

\* The wallet has no more open offers than one listing of its chain shows.
OneListingShowsAll == Cardinality({h \in Mine : Open(h)}) <= Listed

LEMMA AllAreListed ==
    ASSUME MarketInv, OneListingShowsAll
    PROVE  OpenOffers = {h \in Mine : Open(h)}
<1> DEFINE own == {h \in Mine : Open(h)}
<1>1. MaxOffers \in Nat /\ Listed \in Nat
  BY MarketAssumption
<1>2. own \subseteq 1..MaxOffers
  BY InvFacts DEF Mine, Offers
<1>3. IsFiniteSet(own) /\ Cardinality(own) \in Nat
  <2>1. IsFiniteSet(1..MaxOffers)
    BY <1>1, FS_Interval
  <2> QED BY <1>2, <2>1, FS_Subset, FS_CardinalityType
<1>4. Cardinality(own) <= Listed
  BY DEF OneListingShowsAll
<1>5. OpenOffers = {h \in own : Cardinality({i \in own : i > h}) < Listed}
  BY DEF OpenOffers
<1> HIDE DEF own
<1>6. ASSUME NEW h \in own
      PROVE  Cardinality({i \in own : i > h}) < Listed
  <2>1. {i \in own : i > h} \subseteq own \ {h}
    BY <1>1, <1>2
  <2>2. IsFiniteSet(own \ {h}) /\ Cardinality(own \ {h}) = Cardinality(own) - 1
    BY <1>3, FS_RemoveElement
  <2>3. /\ Cardinality({i \in own : i > h}) <= Cardinality(own \ {h})
        /\ Cardinality({i \in own : i > h}) \in Nat
    BY <2>1, <2>2, FS_Subset, FS_CardinalityType
  <2> QED BY <1>1, <1>3, <1>4, <2>2, <2>3
<1> QED BY <1>5, <1>6 DEF own

\* A watch kept by the timer or by a sweep is kept by the next of them.
LEMMA AwakeStays ==
    ASSUME MarketInv, NEW w \in Workers, Moves(w), ~closed, ~Reread(w), Awake
    PROVE  Awake'
<1>1. CASE timer # None
  BY <1>1 DEF Moves, Awake
<1>2. ASSUME NEW s \in Sweepers, call[s].pc # "idle"
      PROVE  Awake'
  <2>1. s \in Workers /\ s \notin Callers
    BY MarketAssumption DEF Workers
  <2>2. CASE s = w
    BY <2>1, <2>2 DEF Moves, Awake
  <2>3. CASE s # w
    BY <1>2, <2>1, <2>3 DEF Moves, Awake
  <2> QED BY <2>2, <2>3
<1> QED BY <1>1, <1>2 DEF Awake

\* An own listing is still watched if the market is still awake.
LEMMA WatchStays ==
    ASSUME MarketInv, NoListingForgotten, MovesOn(lot, lot'), promised' = promised,
           ~closed' => ~closed, ~blind' => ~blind, Awake /\ ~closed' /\ ~blind' => Awake'
    PROVE  NoListingForgotten'
<1> SUFFICES ASSUME ~closed', ~blind', NEW h \in promised', Open(h)', (lot[h].expires # Never)'
             PROVE  Awake'
  BY DEF NoListingForgotten
<1>1. h \in promised /\ h \in Offers /\ lot[h] # None
  BY InvFacts DEF MarketInv, Mine, Published
<1>2. lot[h].state = "open" /\ lot[h].expires # Never
  BY <1>1 DEF MovesOn, Open, Never
<1>3. Awake
  BY <1>1, <1>2 DEF NoListingForgotten, Open
<1> QED BY <1>3

LEMMA SameOffers ==
    ASSUME UNCHANGED lot
    PROVE  MovesOn(lot, lot')
BY DEF MovesOn

LEMMA ReadBackWatches ==
    ASSUME MarketInv, NoListingForgotten, NEW w \in Workers, ReadBack(w)
    PROVE  NoListingForgotten'
<1>1. Sound(call[w], w, lot, clock) /\ call[w] \in CallType
  BY InvFacts
<1>2. call[w].expires \in Nat /\ Arm(call[w].expires)
  BY <1>1, InvFacts DEF ReadBack, CallType
<1>3. lot[call[w].offer].expires = call[w].expires
  BY <1>1 DEF Sound, ReadBack
<1>4. ~closed /\ call[w].expires # Never => timer' # None
  BY <1>2, ArmIs DEF MarketInv
<1>5. /\ UNCHANGED <<clock, lot, closed, blind>>
      /\ promised' = promised \cup {call[w].offer}
  BY DEF ReadBack, ledger, bounds
<1>6. ~closed /\ Awake => Awake'
  <2>1. Moves(w) /\ ~Reread(w)
    BY ProceedMoves DEF Proceed, ReadBack, Reread
  <2> QED BY <2>1, AwakeStays
<1> SUFFICES ASSUME ~closed', ~blind', NEW h \in promised', Open(h)', (lot[h].expires # Never)'
             PROVE  Awake'
  BY DEF NoListingForgotten
<1>7. lot[h].state = "open" /\ lot[h].expires # Never /\ ~closed /\ ~blind
  BY <1>5 DEF Open, Never
<1>8. CASE h \in promised
  BY <1>6, <1>7, <1>8 DEF NoListingForgotten, Open
<1>9. CASE h = call[w].offer
  BY <1>3, <1>4, <1>7, <1>9 DEF Awake
<1> QED BY <1>5, <1>8, <1>9

\* A sweep ends by arming the timer for the next of what is still open.
LEMMA RereadWatches ==
    ASSUME MarketInv, NoListingForgotten, OneListingShowsAll, NEW s \in Workers, Reread(s)
    PROVE  NoListingForgotten'
<1>1. UNCHANGED <<clock, lot, closed, promised>>
  BY DEF Reread, ledger
<1>2. PICK rows \in {OpenOffers, {}} : Listing(rows) /\ Arm(Earliest(rows))
  BY DEF Reread
<1>3. rows \in SUBSET Published
  BY DEF OpenOffers, Mine
<1>4. /\ Earliest(rows) \in Nat
      /\ \A h \in rows : lot[h].expires # Never => Earliest(rows) # Never
  BY <1>3, EarliestIs
<1> SUFFICES ASSUME ~closed', ~blind', NEW h \in promised', Open(h)', (lot[h].expires # Never)'
             PROVE  Awake'
  BY DEF NoListingForgotten
<1>5. /\ lot[h].state = "open" /\ lot[h].expires # Never /\ ~closed
      /\ h \in {g \in Mine : Open(g)}
  BY <1>1 DEF Open, Never, MarketInv
<1>6. rows = OpenOffers
  BY <1>2 DEF Listing
<1>7. h \in rows
  BY <1>5, <1>6, AllAreListed
<1>8. timer' # None
  BY <1>2, <1>4, <1>5, <1>7, ArmIs DEF MarketInv
<1> QED BY <1>8 DEF Awake

LEMMA FireWatches ==
    ASSUME MarketInv, NoListingForgotten, Fire
    PROVE  NoListingForgotten'
<1>1. UNCHANGED <<clock, lot, closed, blind, promised>>
  BY DEF Fire, ledger, bounds
<1>2. Awake'
  <2>1. CASE timer.for > clock
    <3>1. timer \in Alarm
      BY DEF MarketInv, Fire
    <3>2. timer' = [timer EXCEPT !.due = Soon(clock + Delay(timer.for))]
      BY <2>1 DEF Fire
    <3>3. clock \in Nat /\ timer.for \in Nat
      BY <3>1, InvFacts, MarketAssumption DEF Alarm
    <3>4. clock + Delay(timer.for) \in Nat
      BY <3>3, DelayIs
    <3>5. timer' \in Alarm
      BY <3>1, <3>2, <3>4, SoonIs DEF Alarm
    <3> QED BY <3>5, MarketAssumption DEF Awake
  <2>2. CASE ~(timer.for > clock)
    <3> DEFINE s == AnyOf(Resting)
    <3>1. s \in Resting /\ call' = [call EXCEPT ![s] = Loop]
      BY <2>2 DEF Fire, AnyOf
    <3> HIDE DEF s
    <3>2. s \in Sweepers /\ s \in Workers /\ call = [v \in Workers |-> call[v]]
      BY <3>1 DEF Resting, Workers, MarketInv, CallsSound
    <3>3. call'[s].pc = "listing"
      BY <3>1, <3>2 DEF Loop, Idle
    <3> QED BY <3>2, <3>3 DEF Awake
  <2> QED BY <2>1, <2>2
<1> QED BY <1>1, <1>2 DEF NoListingForgotten

\* A call leaves what is settled settled, its own new offer beside it.
LEMMA ProceedMovesOn ==
    ASSUME MarketInv, NEW w \in Workers, Proceed(w) \/ Fails(w)
    PROVE  MovesOn(lot, lot')
<1>1. lot \in LotsType /\ Published = PublishedIn(lot) /\ PlacesLeft(call, lot)
  BY InvFacts DEF MarketInv
<1>2. CASE UNCHANGED lot
  BY <1>2, SameOffers
<1>3. CASE OfferLands(w) /\ lot' # lot
  <2> DEFINE g == Cardinality(Published) + 1
  <2>1. lot' = [lot EXCEPT ![g] = Offer("me", "anybody", call[w].expires)]
    BY <1>3 DEF OfferLands
  <2>2. PICK n \in 1..MaxOffers : PublishedIn(lot) = 1..n
    BY <1>1 DEF PlacesLeft
  <2>3. n \in Nat /\ Cardinality(1..n) = n
    <3>1. n \in Nat
      BY MarketAssumption
    <3> QED BY <3>1, FS_Interval
  <2>4. g = n + 1
    BY <1>1, <2>2, <2>3
  <2>5. g \notin PublishedIn(lot)
    BY <2>2, <2>3, <2>4
  <2> HIDE DEF g
  <2>6. \A h \in Offers : lot[h] # None => lot'[h] = lot[h]
    BY <1>1, <2>1, <2>5 DEF PublishedIn, LotsType
  <2> QED BY <2>6 DEF MovesOn
<1>4. CASE (AcceptLands(w) \/ CancelLands(w)) /\ lot' # lot
  <2> DEFINE h == call[w].offer
  <2>1. Sound(call[w], w, lot, clock) /\ call[w] \in CallType
    BY InvFacts
  <2>2. h \in Published
    BY <1>1, <1>4, <2>1 DEF Sound, AcceptLands, CancelLands, CallType, PublishedIn
  <2>3. PICK state \in {"accepted", "cancelled"} :
            Open(h) /\ lot' = [lot EXCEPT ![h].state = state]
    BY <1>4 DEF AcceptLands, CancelLands, StillOpen
  <2> HIDE DEF h
  <2> QED BY <2>2, <2>3, OfferMoves
<1>5. lot' = lot \/ OfferLands(w) \/ AcceptLands(w) \/ CancelLands(w)
  BY DEF Proceed, Fails, ReadBack, Collected, ListExpired, SweepNext, Cancelled,
         SweepEnds, Reread, ledger
<1> QED BY <1>2, <1>3, <1>4, <1>5

LEMMA NextWatches ==
    ASSUME MarketInv, NoListingForgotten, OneListingShowsAll, [Next]_vars
    PROVE  NoListingForgotten'
<1>1. CASE UNCHANGED vars
  BY <1>1 DEF vars, ledger, bounds, NoListingForgotten, Open, Awake, Never
<1>2. ASSUME NEW c \in Callers, Begins(c)
      PROVE  NoListingForgotten'
  <2>1. Moves(c) /\ UNCHANGED <<clock, lot, timer, closed, faults, blind, promised>>
    BY <1>2, BeginsMoves
  <2>2. ~Reread(c)
    <3>1. call[c].pc # "rereading"
      BY <1>2 DEF Begins, Offering, Accepting, Cancelling, CancellingExpired, Begin, Free
    <3> QED BY <3>1 DEF Reread
  <2>3. c \in Workers
    BY Disjoint
  <2> QED BY <2>1, <2>2, <2>3, AwakeStays, WatchStays, SameOffers
<1>3. ASSUME NEW w \in Workers, Fails(w) \/ Proceed(w), ~ReadBack(w), ~Reread(w)
      PROVE  NoListingForgotten'
  <2>1. Moves(w)
    BY <1>3, ProceedMoves
  <2>2. closed' = closed /\ promised' = promised
    BY <1>3 DEF Fails, Proceed, OfferLands, AcceptLands, Collected, ListExpired, SweepNext,
                CancelLands, Cancelled, SweepEnds
  <2>3. ~blind' => ~blind
    BY <1>3 DEF Fails, Proceed, OfferLands, AcceptLands, Collected, ListExpired, SweepNext,
                CancelLands, Cancelled, SweepEnds, Listing, bounds
  <2>4. MovesOn(lot, lot')
    BY <1>3, ProceedMovesOn
  <2> QED BY <1>3, <2>1, <2>2, <2>3, <2>4, AwakeStays, WatchStays
<1>4. ASSUME NEW w \in Workers, Proceed(w) \/ Fails(w)
      PROVE  NoListingForgotten'
  BY <1>3, <1>4, ReadBackWatches, RereadWatches
<1>5. ASSUME NEW h \in Published, Taken(h) \/ Withdrawn(h)
      PROVE  NoListingForgotten'
  <2>1. PICK state \in {"accepted", "cancelled"} : Settles(h, state)
    BY <1>5 DEF Taken, Withdrawn
  <2>2. MovesOn(lot, lot') /\ UNCHANGED <<call, timer, closed, blind, promised>>
    BY <2>1, OfferMoves DEF Settles, bounds
  <2> QED BY <2>2, WatchStays DEF Awake
<1>6. CASE Close \/ Tick
  <2>1. MovesOn(lot, lot') /\ UNCHANGED <<call, blind, promised>>
    BY <1>6, SameOffers DEF Close, Tick, ledger, bounds
  <2>2. (~closed' => ~closed) /\ (~closed' => timer' = timer)
    BY <1>6 DEF Close, Tick
  <2> QED BY <2>1, <2>2, WatchStays DEF Awake
<1>7. CASE Fire
  BY <1>7, FireWatches
<1> QED BY <1>1, <1>2, <1>4, <1>5, <1>6, <1>7 DEF Next, Begins

\* As long as an own listing that was published with an expiry is open, the timer
\* is armed or a sweep under way, if no listing of the wallet's own chain came back
\* unread, and if one listing always shows all of the wallet's open offers.
THEOREM ListingsAreWatched == Spec /\ []OneListingShowsAll => []NoListingForgotten
<1>1. Init => NoListingForgotten
  BY DEF Init, NoListingForgotten
<1>2. MarketInv /\ OneListingShowsAll /\ NoListingForgotten /\ [Next]_vars
          => NoListingForgotten'
  BY NextWatches
<1> QED BY <1>1, <1>2, MarketStaysSound, PTL DEF Spec

-----------------------------------------------------------------------------
(* What is read of a market: the inductive invariant.                      *)

\* The directory holds the newest accounts, and all of them as long as it has
\* pushed none out.
DirectorySound ==
    /\ watched \in Line(Traders) /\ Len(watched) <= Watchable
    /\ Elems(watched) \subseteq heardOf /\ heardOf \subseteq Traders
    /\ pushedOut \in Nat
    /\ pushedOut = 0 => heardOf \subseteq Elems(watched)

OffersSound ==
    /\ fate \in [Books!Hashes -> Books!States] /\ overdue \in BOOLEAN
    /\ unlisted \subseteq Books!Hashes /\ seenOpen \subseteq Books!Hashes
    /\ \A h \in unlisted : Books!Open(h)
    /\ Books!Pending => \A h \in Books!Hashes : Books!Open(h) => h \in seenOpen

\* While a read is under way every item that was taken is answered or in the
\* hands of a lane, and no lane rests as long as there is something to take.
LanesSound ==
    /\ Books!IsList(items) /\ DOMAIN results = DOMAIN items
    /\ upcoming \in Nat \ {0} /\ lane \in [Books!Lanes -> Nat]
    /\ \A l \in Books!Lanes : lane[l] <= Len(items) /\ lane[l] < upcoming
    /\ \A k, l \in Books!Lanes : lane[k] # 0 /\ k # l => lane[k] # lane[l]
    /\ Books!Pending =>
         /\ ~calledOff
         /\ \A i \in DOMAIN items :
              i < upcoming /\ results[i] = Blank => \E l \in Books!Lanes : lane[l] = i
         /\ upcoming <= Len(items) => \A l \in Books!Lanes : lane[l] # 0

\* The stages of a book.
AskedFor ==
    doing \in {"roster", "walk", "convert"} =>
        /\ want.limit \in Nat \ {0} /\ want.source \in Rosters \cup {Blank}
        /\ \A h \in unlisted : Books!Belongs(h, want.asset) /\ Books!Shown(h)

OnRoster ==
    doing = "roster" =>
        unlisted \subseteq Books!By(IF want.source = Blank THEN heardOf
                                                           ELSE Books!Named(want.source))

\* An account that was read lacks nothing, unless the limit cut it off.
ChainIsRead(i) ==
    /\ results[i] \in Books!Results
    /\ results[i].rows \subseteq seenOpen \cap Books!By({items[i]})
    /\ results[i].ok => \/ Cardinality(results[i].rows) >= want.limit
                        \/ unlisted \cap Books!By({items[i]}) \subseteq results[i].rows

OnWalk ==
    doing = "walk" =>
        /\ \A i \in DOMAIN items : items[i] \in Traders
        /\ reach.asked = Len(items) /\ reach.dropped \in Nat
        /\ reach.dropped = 0 => unlisted \subseteq Books!By(Books!Bag(items))
        /\ \A i \in DOMAIN items : results[i] = Blank \/ ChainIsRead(i)

SoundReach(c) ==
    /\ c.asked \in Nat /\ c.dropped \in Nat
    /\ IsFiniteSet(DOMAIN c.failed) /\ Cardinality(DOMAIN c.failed) <= c.asked
    /\ c.failed \in [DOMAIN c.failed -> {{"unread"}}]
    /\ c = Books!Coverage(c.asked, c.failed, c.truncated, c.dropped, c.skipped)

OnConvert ==
    doing = "convert" =>
        /\ Books!Bag(items) \subseteq seenOpen
        /\ SoundReach(reach)
        /\ reach.complete => unlisted \subseteq Books!Bag(items)

\* The reconciliation: what has settled stays as it was read.
OfferIsRead(i) ==
    \/ results[i] \in {Blank, "missing", "failed"}
    \/ /\ results[i] \in Books!States /\ items[i].hash \in Books!Hashes
       /\ IF results[i] = "open" THEN items[i].hash \in seenOpen
                                 ELSE fate[items[i].hash] = results[i]

Hashed(list) == {list[i].hash : i \in DOMAIN list}

OnReconcile ==
    doing = "reconcile" =>
        /\ Hashed(items) = Hashed(want.source)
        /\ \A i, j \in DOMAIN items : items[i].hash = items[j].hash => i = j
        /\ \A i \in DOMAIN items : OfferIsRead(i)

\* What was answered.
Replied ==
    /\ doing = "done" /\ reply # Blank /\ reply.kind = "book" => SoundReach(reach)
    /\ doing = "done" /\ reply # Blank /\ reply.kind = "reconciliation" =>
         reply.gone \subseteq Books!Hashes
    /\ Books!CompleteMeansComplete /\ Books!BestIsBest /\ Books!ReconciledTruly
    /\ joined # Blank => SoundReach(joined)
    /\ Books!MergedClaimsNoMore

BooksInv ==
    /\ doing \in {"done", "roster", "walk", "convert", "rejected", "reconcile"}
    /\ DirectorySound /\ OffersSound /\ LanesSound
    /\ AskedFor /\ OnRoster /\ OnWalk /\ OnConvert /\ OnReconcile /\ Replied

-----------------------------------------------------------------------------
(* Lists in an order.                                                      *)

LEMMA SameCount ==
    ASSUME NEW X
    PROVE  Books!Cardinality(X) = Cardinality(X)
BY DEF Books!Cardinality, Cardinality

\* Sorted: every member once, each before those it is to be before.
LEMMA SortedIs ==
    ASSUME NEW X, IsFiniteSet(X), NEW R, Lines(X, R)
    PROVE  /\ Cardinality(X) \in Nat
           /\ Books!Sorted(X, R) \in Bijection(1 .. Cardinality(X), X)
           /\ \A i, j \in 1 .. Cardinality(X) :
                i < j => <<Books!Sorted(X, R)[i], Books!Sorted(X, R)[j]>> \in R
<1> DEFINE n == Cardinality(X)
           rank == [x \in X |-> Cardinality(Before(X, R, x))]
           s == Books!Sorted(X, R)
<1>1. n \in Nat
  BY FS_CardinalityType
<1>2. \A x, y \in X : <<x, y>> \in R => rank[x] < rank[y]
  BY RanksGrow
<1>3. \A x \in X : rank[x] \in 0 .. n - 1
  <2> SUFFICES ASSUME NEW x \in X PROVE rank[x] \in 0 .. n - 1
    OBVIOUS
  <2>1. Before(X, R, x) \in SUBSET (X \ {x})
    BY DEF Before, Lines
  <2>2. IsFiniteSet(X \ {x}) /\ Cardinality(X \ {x}) = n - 1
    BY FS_RemoveElement
  <2>3. Cardinality(Before(X, R, x)) <= n - 1 /\ Cardinality(Before(X, R, x)) \in Nat
    BY <2>1, <2>2, FS_Subset, FS_CardinalityType
  <2> HIDE DEF n
  <2> QED BY <1>1, <2>3
<1> HIDE DEF rank
<1>4. \A x, y \in X : rank[x] = rank[y] => x = y
  <2> SUFFICES ASSUME NEW x \in X, NEW y \in X, rank[x] = rank[y], x # y PROVE FALSE
    OBVIOUS
  <2>1. <<x, y>> \in R \/ <<y, x>> \in R
    BY DEF Lines
  <2>2. rank[x] < rank[y] \/ rank[y] < rank[x]
    BY <1>2, <2>1
  <2>3. rank[x] \in Int
    BY <1>3
  <2> QED BY <2>2, <2>3
<1>5. \A i \in 0 .. n - 1 : \E x \in X : rank[x] = i
  <2>1. rank \in Injection(X, 0 .. n - 1)
    <3>1. rank \in [X -> 0 .. n - 1]
      BY <1>3 DEF rank
    <3> QED BY <1>4, <3>1 DEF Injection, IsInjective
  <2>2. IsFiniteSet(0 .. n - 1) /\ Cardinality(0 .. n - 1) = n
    <3> HIDE DEF n
    <3>1. 0 \in Int /\ n - 1 \in Int
      BY <1>1
    <3>2. IsFiniteSet(0 .. n - 1) /\ Cardinality(0 .. n - 1) = IF 0 > n - 1 THEN 0 ELSE (n - 1) - 0 + 1
      BY <3>1, FS_Interval
    <3>3. (IF 0 > n - 1 THEN 0 ELSE (n - 1) - 0 + 1) = n
      BY <1>1
    <3> QED BY <3>2, <3>3
  <2>3. rank \in Surjection(X, 0 .. n - 1)
    BY <2>1, <2>2, FS_Injection
  <2> QED BY <2>3 DEF Surjection
<1>6. \A i \in 1 .. n : s[i] \in X /\ rank[s[i]] = i - 1
  <2> TAKE i \in 1 .. n
  <2> DEFINE P(x) == Books!Cardinality({y \in X : <<y, x>> \in R}) = i - 1
  <2>1. s[i] = CHOOSE x \in X : P(x)
    BY SameCount DEF Books!Sorted
  <2>2. i - 1 \in 0 .. n - 1
    BY <1>1
  <2>3. PICK x \in X : rank[x] = i - 1
    BY <1>5, <2>2
  <2>4. \A y \in X : P(y) <=> rank[y] = i - 1
    BY SameCount DEF rank, Before
  <2> HIDE DEF P, s
  <2> QED BY <2>1, <2>3, <2>4
<1>7. s \in [1 .. n -> X]
  <2>1. s = [i \in 1 .. n |-> s[i]]
    <3> DEFINE e(i) == CHOOSE x \in X : Books!Cardinality({y \in X : <<y, x>> \in R}) = i - 1
    <3>1. s = [i \in 1 .. n |-> e(i)]
      BY SameCount DEF Books!Sorted
    <3> HIDE DEF e, n
    <3> QED BY <3>1
  <2> HIDE DEF s, n
  <2> QED BY <1>6, <2>1
<1> HIDE DEF s, n
<1>8. s \in Bijection(1 .. n, X)
  <2>1. \A i, j \in 1 .. n : s[i] = s[j] => i = j
    <3> SUFFICES ASSUME NEW i \in 1 .. n, NEW j \in 1 .. n, s[i] = s[j] PROVE i = j
      OBVIOUS
    <3>1. i - 1 = j - 1
      BY <1>6
    <3> QED BY <3>1
  <2>2. \A x \in X : \E i \in 1 .. n : s[i] = x
    <3> TAKE x \in X
    <3>1. PICK r \in 0 .. n - 1 : rank[x] = r
      BY <1>3
    <3>2. r + 1 \in 1 .. n /\ (r + 1) - 1 = r
      BY <1>1, <3>1
    <3>3. s[r + 1] \in X /\ rank[s[r + 1]] = r
      BY <1>6, <3>2
    <3> QED BY <1>4, <3>1, <3>2, <3>3
  <2> QED BY <1>7, <2>1, <2>2 DEF Bijection, Injection, IsInjective, Surjection
<1>9. ASSUME NEW i \in 1 .. n, NEW j \in 1 .. n, i < j PROVE <<s[i], s[j]>> \in R
  <2>1. s[i] \in X /\ s[j] \in X /\ rank[s[i]] = i - 1 /\ rank[s[j]] = j - 1
    BY <1>6
  <2>2. ~(rank[s[j]] < rank[s[i]]) /\ rank[s[i]] # rank[s[j]]
    BY <1>9, <2>1
  <2>3. <<s[j], s[i]>> \notin R /\ s[i] # s[j]
    BY <1>2, <2>1, <2>2
  <2> QED BY <2>1, <2>3 DEF Lines
<1> QED BY <1>1, <1>8, <1>9 DEF n, s

\* The numbers of a set in their order, and what a list has there.
LEMMA RisingIs ==
    ASSUME NEW X \in SUBSET Nat, IsFiniteSet(X)
    PROVE  /\ Cardinality(X) \in Nat
           /\ Books!Rising(X) \in Bijection(1 .. Cardinality(X), X)
<1> DEFINE R == {p \in X \X X : p[1] < p[2]}
<1>1. Books!Rising(X) = Books!Sorted(X, R)
  BY DEF Books!Rising
<1>2. \A x, y \in X : <<x, y>> \in R <=> x < y
  OBVIOUS
<1> HIDE DEF R
<1>3. Lines(X, R)
  <2>1. \A x \in X : <<x, x>> \notin R
    BY <1>2
  <2>2. \A x, y \in X : x # y => <<x, y>> \in R \/ <<y, x>> \in R
    BY <1>2
  <2>3. \A x, y, z \in X : <<x, y>> \in R /\ <<y, z>> \in R => <<x, z>> \in R
    BY <1>2
  <2> QED BY <2>1, <2>2, <2>3 DEF Lines
<1> QED BY <1>1, <1>3, SortedIs

LEMMA AtIs ==
    ASSUME NEW list, Books!IsList(list), NEW places \in SUBSET DOMAIN list
    PROVE  /\ Cardinality(places) \in Nat /\ Cardinality(places) <= Len(list)
           /\ \E o \in Bijection(1 .. Cardinality(places), places) :
                Books!At(list, places) = [k \in 1 .. Cardinality(places) |-> list[o[k]]]
<1>1. places \in SUBSET Nat /\ IsFiniteSet(places) /\ Cardinality(places) <= Len(list)
  <2>1. places \in SUBSET (1 .. Len(list)) /\ Len(list) \in Nat
    BY DEF Books!IsList
  <2>2. 1 \in Int /\ Len(list) \in Int
    BY <2>1
  <2>3. IsFiniteSet(1 .. Len(list))
        /\ Cardinality(1 .. Len(list)) = IF 1 > Len(list) THEN 0 ELSE Len(list) - 1 + 1
    BY <2>2, FS_Interval
  <2>4. (IF 1 > Len(list) THEN 0 ELSE Len(list) - 1 + 1) = Len(list)
    BY <2>1
  <2>5. IsFiniteSet(places) /\ Cardinality(places) <= Cardinality(1 .. Len(list))
    BY <2>1, <2>3, FS_Subset
  <2> QED BY <2>1, <2>3, <2>4, <2>5
<1>2. Cardinality(places) \in Nat /\ Books!Rising(places) \in Bijection(1 .. Cardinality(places), places)
  BY <1>1, RisingIs
<1>3. PICK o \in Bijection(1 .. Cardinality(places), places) : o = Books!Rising(places)
  BY <1>2
<1>4. DOMAIN o = 1 .. Cardinality(places)
  BY DEF Bijection, Injection
<1>5. Books!At(list, places) = [k \in DOMAIN o |-> list[o[k]]]
  BY <1>3 DEF Books!At
<1> QED BY <1>1, <1>2, <1>4, <1>5

LEMMA AtPlaces ==
    ASSUME NEW A, NEW list, Books!IsList(list), NEW places \in SUBSET DOMAIN list,
           \A i \in places : list[i] \in A
    PROVE  \E at \in Seq(A) :
             /\ at = Books!At(list, places)
             /\ Len(at) = Cardinality(places) /\ Len(at) \in Nat /\ Len(at) <= Len(list)
             /\ Elems(at) = {list[i] : i \in places}
             /\ \A k, l \in 1 .. Len(at) :
                  k # l => \E i, j \in places : i # j /\ at[k] = list[i] /\ at[l] = list[j]
<1>1. PICK n \in Nat : n = Cardinality(places) /\ n <= Len(list)
  BY AtIs
<1>2. PICK o \in Bijection(1 .. n, places) : Books!At(list, places) = [k \in 1 .. n |-> list[o[k]]]
  BY <1>1, AtIs
<1>3. /\ \A k \in 1 .. n : o[k] \in places
      /\ \A i \in places : \E k \in 1 .. n : o[k] = i
      /\ \A k, l \in 1 .. n : o[k] = o[l] => k = l
  BY DEF Bijection, Injection, Surjection, IsInjective
<1>4. PICK at : at = [k \in 1 .. n |-> list[o[k]]]
  OBVIOUS
<1>5. \A k \in 1 .. n : at[k] = list[o[k]]
  BY <1>4
<1>6. at \in [1 .. n -> A]
  BY <1>3, <1>4
<1>7. at \in Seq(A)
  BY <1>6, SeqDef
<1>8. Len(at) = n
  <2>1. DOMAIN at = 1 .. n /\ DOMAIN at = 1 .. Len(at) /\ Len(at) \in Nat
    BY <1>4, <1>7, LenProperties
  <2> QED BY <2>1
<1>9. Elems(at) = {list[i] : i \in places}
  <2>1. ASSUME NEW x \in Elems(at) PROVE x \in {list[i] : i \in places}
    BY <1>3, <1>5, <1>8 DEF Elems
  <2>2. ASSUME NEW i \in places PROVE list[i] \in Elems(at)
    <3>1. PICK k \in 1 .. n : o[k] = i
      BY <1>3
    <3> QED BY <1>5, <1>8, <3>1 DEF Elems
  <2> QED BY <2>1, <2>2
<1>10. \A k, l \in 1 .. n : k # l => \E i, j \in places : i # j /\ at[k] = list[i] /\ at[l] = list[j]
  BY <1>3, <1>5
<1>11. Len(at) = Cardinality(places) /\ Len(at) \in Nat /\ Len(at) <= Len(list)
  BY <1>1, <1>8
<1>12. \A k, l \in 1 .. Len(at) :
         k # l => \E i, j \in places : i # j /\ at[k] = list[i] /\ at[l] = list[j]
  BY <1>8, <1>10
<1>13. at = Books!At(list, places)
  BY <1>2, <1>4
<1> QED BY <1>7, <1>9, <1>11, <1>12, <1>13

\* Places with different entries make a line.
LEMMA OnceAtPlaces ==
    ASSUME NEW A, NEW list, Books!IsList(list), NEW places \in SUBSET DOMAIN list,
           \A i \in places : list[i] \in A,
           \A i, j \in places : list[i] = list[j] => i = j
    PROVE  \E at \in Line(A) :
             /\ at = Books!At(list, places)
             /\ Len(at) \in Nat /\ Len(at) <= Len(list)
             /\ Elems(at) = {list[i] : i \in places}
<1>1. PICK at \in Seq(A) :
             /\ at = Books!At(list, places)
             /\ Len(at) = Cardinality(places) /\ Len(at) \in Nat /\ Len(at) <= Len(list)
             /\ Elems(at) = {list[i] : i \in places}
             /\ \A k, l \in 1 .. Len(at) :
                  k # l => \E i, j \in places : i # j /\ at[k] = list[i] /\ at[l] = list[j]
  BY AtPlaces
<1>4. Once(at)
  BY <1>1 DEF Once
<1> QED BY <1>1, <1>4 DEF Line

-----------------------------------------------------------------------------
(* The directory.                                                          *)

\* What is assumed of the market, in the prover's words.
LEMMA MarketFacts ==
    /\ Books!Hashes \subseteq Nat /\ IsFiniteSet(Books!Hashes)
    /\ Watchable \in Nat \ {0} /\ LanesAtOnce \in Nat \ {0}
    /\ Blank \notin {"open", "accepted", "cancelled", "missing", "failed", "offer"}
    /\ Blank \notin Books!Results /\ Blank \notin Rosters
<1>1. Len(Lot) \in Nat /\ Books!Hashes = 1 .. Len(Lot)
  BY BooksAssumption DEF Books!ReadsAssumption, Books!IsList, Books!Hashes
<1>2. IsFiniteSet(1 .. Len(Lot))
  BY <1>1, FS_Interval
<1>3. Books!Hashes \subseteq Nat
  BY <1>1
<1>4. Watchable \in Nat \ {0} /\ LanesAtOnce \in Nat \ {0}
  BY BooksAssumption DEF Books!ReadsAssumption
<1>5. Blank \notin {"open", "accepted", "cancelled", "missing", "failed", "offer"}
  BY BooksAssumption DEF Books!ReadsAssumption, Books!States
<1>6. Blank \notin Books!Results /\ Blank \notin Rosters
  BY BooksAssumption DEF Books!ReadsAssumption
<1> QED BY <1>1, <1>2, <1>3, <1>4, <1>5, <1>6

LEMMA WithoutIs ==
    ASSUME NEW A, watched \in Line(A), NEW a
    PROVE  \E at \in Line(A) :
             /\ at = Books!Without(a)
             /\ Len(at) \in Nat /\ Len(at) <= Len(watched)
             /\ Elems(at) = Elems(watched) \ {a}
<1>1. /\ Len(watched) \in Nat /\ DOMAIN watched = 1 .. Len(watched) /\ Once(watched)
      /\ \A i \in 1 .. Len(watched) : watched[i] \in A
  BY LineFacts
<1>2. PICK places \in SUBSET DOMAIN watched : places = {i \in DOMAIN watched : watched[i] # a}
  OBVIOUS
<1>3. Books!IsList(watched)
  BY <1>1 DEF Books!IsList
<1>4. \A i \in places : watched[i] \in A
  BY <1>1
<1>5. \A i, j \in places : watched[i] = watched[j] => i = j
  BY <1>1 DEF Once
<1>6. PICK at \in Line(A) :
             /\ at = Books!At(watched, places)
             /\ Len(at) \in Nat /\ Len(at) <= Len(watched)
             /\ Elems(at) = {watched[i] : i \in places}
  BY <1>3, <1>4, <1>5, OnceAtPlaces
<1>7. at = Books!Without(a)
  BY <1>2, <1>6 DEF Books!Without
<1>8. {watched[i] : i \in places} = Elems(watched) \ {a}
  BY <1>1, <1>2 DEF Elems
<1> QED BY <1>6, <1>7, <1>8

\* Announced again, an account counts as new; the oldest makes room.
LEMMA WatchSound ==
    ASSUME DirectorySound, NEW a \in Traders, Books!Watch(a), heardOf' = heardOf \cup {a}
    PROVE  DirectorySound'
<1>1. /\ watched \in Line(Traders) /\ Len(watched) <= Watchable
      /\ Elems(watched) \subseteq heardOf /\ heardOf \subseteq Traders
      /\ pushedOut \in Nat
      /\ pushedOut = 0 => heardOf \subseteq Elems(watched)
  BY DEF DirectorySound
<1>2. PICK at \in Line(Traders) :
             /\ at = Books!Without(a)
             /\ Len(at) \in Nat /\ Len(at) <= Len(watched)
             /\ Elems(at) = Elems(watched) \ {a}
  BY <1>1, WithoutIs
<1>3. PICK all \in Line(Traders) :
             /\ all = Append(at, a)
             /\ Len(all) = Len(at) + 1
             /\ Elems(all) = Elems(watched) \cup {a}
  <2>1. a \notin Elems(at)
    BY <1>2
  <2>2. /\ Append(at, a) \in Line(Traders) /\ Len(Append(at, a)) = Len(at) + 1
        /\ Elems(Append(at, a)) = Elems(at) \cup {a}
    BY <1>2, <2>1, JoinLine
  <2> QED BY <1>2, <2>2
<1>4. PICK e : e = IF Len(all) > Watchable THEN Len(all) - Watchable ELSE 0
  OBVIOUS
<1>5. watched' = SubSeq(all, e + 1, Len(all)) /\ pushedOut' = pushedOut + e
  BY <1>2, <1>3, <1>4 DEF Books!Watch
<1>6. Watchable \in Nat \ {0} /\ Len(watched) \in Nat
  BY <1>1, MarketFacts, LineFacts
<1>7. PICK n \in Nat : n = Len(all)
  BY <1>2, <1>3
<1>8. e \in Nat /\ e <= n /\ n - e <= Watchable
  BY <1>1, <1>2, <1>3, <1>4, <1>6, <1>7
<1>9. e + 1 \in Nat \ {0} /\ n \in 0 .. Len(all)
  BY <1>7, <1>8
<1>10. PICK m \in Nat \ {0} : m = e + 1
  BY <1>9
<1>11. /\ SubSeq(all, m, n) \in Line(Traders)
       /\ Len(SubSeq(all, m, n)) = IF m <= n THEN n - m + 1 ELSE 0
       /\ Elems(SubSeq(all, m, n)) = {all[i] : i \in m .. n}
  BY <1>9, PieceOfLine
<1>12. watched' = SubSeq(all, m, n)
  BY <1>5, <1>7, <1>10
<1>13. (IF m <= n THEN n - m + 1 ELSE 0) <= Watchable
  BY <1>6, <1>8, <1>10
<1>14. \A i \in m .. n : i \in 1 .. Len(all)
  BY <1>7
<1>15. Elems(watched') \subseteq Elems(all)
  <2>1. Elems(watched') = {all[i] : i \in m .. n}
    BY <1>11, <1>12
  <2> QED BY <1>14, <2>1 DEF Elems
<1>16. pushedOut' \in Nat
  BY <1>1, <1>5, <1>8
<1>17. ASSUME pushedOut' = 0 PROVE heardOf' \subseteq Elems(watched')
  <2>1. pushedOut = 0 /\ e = 0
    BY <1>1, <1>5, <1>8, <1>17
  <2>2. m = 1
    BY <1>10, <2>1
  <2>3. Elems(watched') = Elems(all)
    BY <1>7, <1>11, <1>12, <2>2 DEF Elems
  <2> QED BY <1>1, <1>3, <2>1, <2>3
<1>18. watched' \in Line(Traders) /\ Len(watched') <= Watchable
  BY <1>11, <1>12, <1>13
<1>19. Elems(watched') \subseteq heardOf' /\ heardOf' \subseteq Traders
  BY <1>1, <1>3, <1>15
<1> QED BY <1>16, <1>17, <1>18, <1>19 DEF DirectorySound

LEMMA ForgetSound ==
    ASSUME DirectorySound, NEW a, watched' = Books!Without(a), heardOf' = heardOf \ {a},
           pushedOut' = pushedOut
    PROVE  DirectorySound'
<1>1. /\ watched \in Line(Traders) /\ Len(watched) <= Watchable
      /\ Elems(watched) \subseteq heardOf /\ heardOf \subseteq Traders
      /\ pushedOut \in Nat
      /\ pushedOut = 0 => heardOf \subseteq Elems(watched)
  BY DEF DirectorySound
<1>2. PICK at \in Line(Traders) :
             /\ at = Books!Without(a)
             /\ Len(at) \in Nat /\ Len(at) <= Len(watched)
             /\ Elems(at) = Elems(watched) \ {a}
  BY <1>1, WithoutIs
<1>3. watched' = at /\ Watchable \in Nat /\ Len(watched) \in Nat
  BY <1>1, <1>2, MarketFacts, LineFacts
<1>4. Len(watched') <= Watchable
  BY <1>1, <1>2, <1>3
<1>5. Elems(watched') = Elems(watched) \ {a}
  BY <1>2, <1>3
<1> QED BY <1>1, <1>2, <1>3, <1>4, <1>5 DEF DirectorySound

-----------------------------------------------------------------------------
(* The lanes.                                                              *)

LEMMA LaneNumbers ==
    Books!Lanes = 1 .. LanesAtOnce /\ LanesAtOnce \in Nat \ {0} /\ 1 \in Books!Lanes
<1>1. Books!Lanes = 1 .. LanesAtOnce
  BY DEF Books!Lanes
<1> QED BY <1>1, MarketFacts

\* Every lane takes its first item at once.
LEMMA LaunchSound ==
    ASSUME NEW list, Books!IsList(list), Books!Launch(list), ~calledOff'
    PROVE  /\ LanesSound'
           /\ items' = list /\ \A i \in DOMAIN list : results'[i] = Blank
<1>1. Len(list) \in Nat /\ DOMAIN list = 1 .. Len(list)
  BY DEF Books!IsList
<1>a. PICK m \in Nat : m = Len(list)
  BY <1>1
<1>b. PICK c \in Nat \ {0} : c = LanesAtOnce
  BY LaneNumbers
<1>2. PICK n : n = IF LanesAtOnce < Len(list) THEN LanesAtOnce ELSE Len(list)
  OBVIOUS
<1>3. /\ items' = list /\ upcoming' = n + 1
      /\ lane' = [l \in Books!Lanes |-> IF l <= n THEN l ELSE 0]
      /\ results' = [i \in DOMAIN list |-> Blank]
  BY <1>2 DEF Books!Launch
<1>4. n \in Nat /\ n <= c /\ n <= m /\ (n < c => n = m)
  BY <1>2, <1>a, <1>b
<1>5. \A l \in Books!Lanes : l \in Nat \ {0} /\ l <= LanesAtOnce
  BY LaneNumbers
<1>6. \A l \in Books!Lanes : lane'[l] = IF l <= n THEN l ELSE 0
  BY <1>3
<1>7. lane' \in [Books!Lanes -> Nat]
  BY <1>3, <1>5
<1>8. upcoming' \in Nat \ {0}
  BY <1>3, <1>4
<1>9. ASSUME NEW l \in Books!Lanes PROVE lane'[l] <= Len(items') /\ lane'[l] < upcoming'
  <2>1. lane'[l] \in Nat /\ lane'[l] <= n
    BY <1>4, <1>5, <1>6
  <2> QED BY <1>3, <1>4, <1>a, <2>1
<1>10. \A k, l \in Books!Lanes : lane'[k] # 0 /\ k # l => lane'[k] # lane'[l]
  BY <1>5, <1>6
<1>11. ASSUME NEW i \in DOMAIN items', i < upcoming' PROVE \E l \in Books!Lanes : lane'[l] = i
  <2>1. i \in 1 .. Len(list)
    BY <1>1, <1>3
  <2>2. i \in 1 .. LanesAtOnce /\ i <= n
    BY <1>3, <1>4, <1>11, <1>a, <1>b, <2>1
  <2>3. i \in Books!Lanes
    BY <2>2, LaneNumbers
  <2> QED BY <1>6, <2>2, <2>3
<1>12. ASSUME upcoming' <= Len(items'), NEW l \in Books!Lanes PROVE lane'[l] # 0
  <2>1. n + 1 <= m
    BY <1>3, <1>12, <1>a
  <2>2. n = c
    BY <1>4, <2>1
  <2>3. l <= n /\ l # 0
    BY <1>5, <1>b, <2>2
  <2> QED BY <1>6, <2>3
<1>13. Books!IsList(items') /\ DOMAIN results' = DOMAIN items'
  BY <1>3
<1>14. \A i \in DOMAIN list : results'[i] = Blank
  BY <1>3
<1> QED BY <1>3, <1>7, <1>8, <1>9, <1>10, <1>11, <1>12, <1>13, <1>14 DEF LanesSound

\* A lane that has an answer takes the next item.
LEMMA AnswersSound ==
    ASSUME LanesSound, NEW l \in Books!Lanes, NEW v, v # Blank, Books!Answers(l, v), doing' = doing
    PROVE  /\ LanesSound'
           /\ lane[l] \in DOMAIN items
           /\ \A i \in DOMAIN items : results'[i] = IF i = lane[l] THEN v ELSE results[i]
<1>1. /\ Books!IsList(items) /\ DOMAIN results = DOMAIN items
      /\ upcoming \in Nat \ {0} /\ lane \in [Books!Lanes -> Nat]
      /\ \A k \in Books!Lanes : lane[k] <= Len(items) /\ lane[k] < upcoming
      /\ \A k, m \in Books!Lanes : lane[k] # 0 /\ k # m => lane[k] # lane[m]
  BY DEF LanesSound
<1>2. ASSUME Books!Pending
      PROVE  /\ ~calledOff
             /\ \A i \in DOMAIN items :
                  i < upcoming /\ results[i] = Blank => \E k \in Books!Lanes : lane[k] = i
             /\ upcoming <= Len(items) => \A k \in Books!Lanes : lane[k] # 0
  BY <1>2 DEF LanesSound
<1>3. PICK t : t = Books!Takes(l)
  OBVIOUS
<1>4. /\ lane[l] # 0 /\ upcoming' = upcoming + 1 /\ items' = items /\ calledOff' = calledOff
      /\ results' = [results EXCEPT ![lane[l]] = v]
      /\ lane' = [lane EXCEPT ![l] = t]
  BY <1>3 DEF Books!Answers
<1>5. Len(items) \in Nat /\ DOMAIN items = 1 .. Len(items)
  BY <1>1 DEF Books!IsList
<1>6. lane[l] \in DOMAIN items
  BY <1>1, <1>4, <1>5
<1>7. \A i \in DOMAIN items : results'[i] = IF i = lane[l] THEN v ELSE results[i]
  BY <1>1, <1>4
<1>8. t = IF upcoming <= Len(items) /\ ~calledOff THEN upcoming ELSE 0
  BY <1>3 DEF Books!Takes
<1>9. t \in Nat /\ t <= Len(items) /\ t <= upcoming
  BY <1>1, <1>5, <1>8
<1>10. \A k \in Books!Lanes : lane'[k] = IF k = l THEN t ELSE lane[k]
  BY <1>1, <1>4
<1>11. lane' \in [Books!Lanes -> Nat]
  BY <1>1, <1>4, <1>9
<1>12. ASSUME NEW k \in Books!Lanes PROVE lane'[k] <= Len(items') /\ lane'[k] < upcoming'
  <2>1. PICK u \in Nat : u = upcoming
    BY <1>1
  <2>2. lane[k] \in Nat /\ lane[k] <= Len(items) /\ lane[k] < u
    BY <1>1, <2>1
  <2>3. t < u + 1 /\ lane[k] < u + 1
    BY <1>9, <2>1, <2>2
  <2> QED BY <1>4, <1>9, <1>10, <2>1, <2>2, <2>3
<1>13. ASSUME NEW k \in Books!Lanes, NEW m \in Books!Lanes, lane'[k] # 0, k # m
       PROVE lane'[k] # lane'[m]
  <2>1. CASE k = l
    <3>1. t = upcoming /\ lane[m] # upcoming
      BY <1>1, <1>8, <1>10, <1>13, <2>1
    <3> QED BY <1>10, <1>13, <2>1, <3>1
  <2>2. CASE m = l /\ k # l
    <3>1. lane[k] # 0 /\ lane[k] # upcoming /\ lane'[k] = lane[k] /\ lane'[m] = t
      BY <1>1, <1>10, <1>13, <2>2
    <3> QED BY <1>8, <3>1
  <2>3. CASE k # l /\ m # l
    BY <1>1, <1>10, <1>13, <2>3
  <2> QED BY <2>1, <2>2, <2>3
<1>14. ASSUME Books!Pending'
       PROVE  /\ ~calledOff'
              /\ \A i \in DOMAIN items' :
                   i < upcoming' /\ results'[i] = Blank => \E k \in Books!Lanes : lane'[k] = i
              /\ upcoming' <= Len(items') => \A k \in Books!Lanes : lane'[k] # 0
  <2>1. Books!Pending
    BY <1>14 DEF Books!Pending
  <2>2. /\ ~calledOff
        /\ \A i \in DOMAIN items :
             i < upcoming /\ results[i] = Blank => \E k \in Books!Lanes : lane[k] = i
        /\ upcoming <= Len(items) => \A k \in Books!Lanes : lane[k] # 0
    BY <1>2, <2>1
  <2>3. ASSUME NEW i \in DOMAIN items, i < upcoming', results'[i] = Blank
        PROVE  \E k \in Books!Lanes : lane'[k] = i
    <3>1. i \in 1 .. Len(items) /\ i # lane[l] /\ results[i] = Blank
      BY <1>5, <1>7, <2>3
    <3>2. i < upcoming \/ i = upcoming
      BY <1>1, <1>4, <2>3, <3>1
    <3>3. CASE i < upcoming
      <4>1. PICK k \in Books!Lanes : lane[k] = i
        BY <2>2, <3>1, <3>3
      <4> QED BY <1>10, <3>1, <4>1
    <3>4. CASE i = upcoming
      <4>1. t = i
        BY <1>5, <1>8, <2>2, <3>1, <3>4
      <4> QED BY <1>10, <4>1
    <3> QED BY <3>2, <3>3, <3>4
  <2>4. ASSUME upcoming' <= Len(items'), NEW k \in Books!Lanes PROVE lane'[k] # 0
    <3>1. upcoming <= Len(items)
      BY <1>1, <1>4, <1>5, <2>4
    <3>2. lane[k] # 0 /\ t = upcoming /\ upcoming # 0
      BY <1>1, <1>8, <2>2, <3>1
    <3> QED BY <1>10, <3>2
  <2> QED BY <1>4, <2>2, <2>3, <2>4
<1>15. upcoming' \in Nat \ {0} /\ Books!IsList(items') /\ DOMAIN results' = DOMAIN items'
  <2>1. PICK u \in Nat : u = upcoming
    BY <1>1
  <2>2. u + 1 \in Nat \ {0}
    OBVIOUS
  <2> QED BY <1>1, <1>4, <2>1, <2>2
<1>16. LanesSound'
  BY <1>11, <1>12, <1>13, <1>14, <1>15 DEF LanesSound
<1> QED BY <1>6, <1>7, <1>16

\* Where nothing is under way and every lane rests, everything is answered.
LEMMA QuietIsDone ==
    ASSUME LanesSound, Books!Pending, Books!Quiet
    PROVE  \A i \in DOMAIN items : results[i] # Blank
<1>1. /\ Books!IsList(items) /\ upcoming \in Nat \ {0}
      /\ \A i \in DOMAIN items :
           i < upcoming /\ results[i] = Blank => \E l \in Books!Lanes : lane[l] = i
      /\ upcoming <= Len(items) => \A l \in Books!Lanes : lane[l] # 0
  BY DEF LanesSound
<1>2. \A l \in Books!Lanes : lane[l] = 0
  BY DEF Books!Quiet
<1>3. ~(upcoming <= Len(items))
  BY <1>1, <1>2, LaneNumbers
<1>4. Len(items) \in Nat /\ DOMAIN items = 1 .. Len(items)
  BY <1>1 DEF Books!IsList
<1> QED
  <2> SUFFICES ASSUME NEW i \in DOMAIN items, results[i] = Blank PROVE FALSE
    OBVIOUS
  <2>1. i \in 1 .. Len(items) /\ i < upcoming
    BY <1>1, <1>3, <1>4
  <2>2. PICK l \in Books!Lanes : lane[l] = i
    BY <1>1, <2>1
  <2> QED BY <1>2, <2>1, <2>2

\* A read that has ended keeps nothing.
LEMMA RestSound ==
    ASSUME LanesSound, Books!Quiet, Books!Rest, Books!Pending' => ~calledOff'
    PROVE  LanesSound'
<1>1. items' = <<>> /\ upcoming' = 1 /\ results' = <<>> /\ lane' = lane
  BY DEF Books!Rest
<1>2. lane \in [Books!Lanes -> Nat] /\ \A l \in Books!Lanes : lane[l] = 0
  BY DEF LanesSound, Books!Quiet
<1>3. Len(<<>>) = 0 /\ DOMAIN <<>> = {} /\ 1 .. 0 = {}
  OBVIOUS
<1>4. Books!IsList(<<>>)
  BY <1>3 DEF Books!IsList
<1>5. Books!IsList(items') /\ DOMAIN items' = {} /\ DOMAIN results' = {} /\ Len(items') = 0
  BY <1>1, <1>3, <1>4
<1>6. \A l \in Books!Lanes : lane'[l] = 0
  BY <1>1, <1>2
<1>7. upcoming' \in Nat \ {0} /\ lane' \in [Books!Lanes -> Nat] /\ ~(upcoming' <= Len(items'))
  BY <1>1, <1>2, <1>5
<1>8. \A l \in Books!Lanes : lane'[l] <= Len(items') /\ lane'[l] < upcoming'
  BY <1>1, <1>5, <1>6
<1> QED BY <1>5, <1>6, <1>7, <1>8 DEF LanesSound

-----------------------------------------------------------------------------
(* The market meanwhile.                                                   *)

LEMMA NewsRests ==
    ASSUME Books!News
    PROVE  /\ doing' = doing /\ want' = want /\ items' = items /\ upcoming' = upcoming
           /\ lane' = lane /\ results' = results /\ reach' = reach /\ calledOff' = calledOff
           /\ reply' = reply /\ joined' = joined
BY DEF Books!News, Books!lanes

\* What has settled stays as it is, and what is owed only grows less.
LEMMA NewsSound ==
    ASSUME BooksInv, Books!News, seenOpen' = seenOpen, unlisted' \in SUBSET unlisted,
           fate' \in [Books!Hashes -> Books!States], overdue' \in BOOLEAN,
           \A h \in Books!Hashes : fate[h] # "open" => fate'[h] = fate[h],
           \A h \in unlisted' : fate'[h] = "open",
           DirectorySound', AskedFor', OnRoster'
    PROVE  BooksInv'
<1>1. /\ doing' = doing /\ want' = want /\ items' = items /\ upcoming' = upcoming
      /\ lane' = lane /\ results' = results /\ reach' = reach /\ calledOff' = calledOff
      /\ reply' = reply /\ joined' = joined
  BY NewsRests
<1>2. doing \in {"done", "roster", "walk", "convert", "rejected", "reconcile"}
      /\ DirectorySound /\ OffersSound /\ LanesSound
      /\ AskedFor /\ OnRoster /\ OnWalk /\ OnConvert /\ OnReconcile /\ Replied
  BY DEF BooksInv
<1>3. LanesSound'
  BY <1>1, <1>2 DEF LanesSound, Books!Pending
<1>4. OffersSound'
  <2>1. unlisted \in SUBSET Books!Hashes /\ seenOpen \in SUBSET Books!Hashes
    BY <1>2 DEF OffersSound
  <2>2. \A h \in unlisted' : Books!Open(h)'
    BY DEF Books!Open
  <2>3. ASSUME Books!Pending', NEW h \in Books!Hashes, Books!Open(h)' PROVE h \in seenOpen'
    <3>1. Books!Pending
      BY <1>1, <2>3 DEF Books!Pending
    <3>2. fate'[h] = "open"
      BY <2>3 DEF Books!Open
    <3>3. fate[h] = "open"
      BY <3>2
    <3> QED BY <1>2, <3>1, <3>3 DEF OffersSound, Books!Open
  <2> QED BY <2>1, <2>2, <2>3 DEF OffersSound
<1>5. OnWalk'
  <2> SUFFICES ASSUME doing = "walk"
               PROVE  /\ \A i \in DOMAIN items : items[i] \in Traders
                      /\ reach.asked = Len(items) /\ reach.dropped \in Nat
                      /\ reach.dropped = 0 => unlisted' \subseteq Books!By(Books!Bag(items))
                      /\ \A i \in DOMAIN items : results[i] = Blank \/ ChainIsRead(i)'
    BY <1>1 DEF OnWalk, Books!By, Books!Bag
  <2>1. /\ \A i \in DOMAIN items : items[i] \in Traders
        /\ reach.asked = Len(items) /\ reach.dropped \in Nat
        /\ reach.dropped = 0 => unlisted \subseteq Books!By(Books!Bag(items))
        /\ \A i \in DOMAIN items : results[i] = Blank \/ ChainIsRead(i)
    BY <1>2 DEF OnWalk
  <2>2. ASSUME NEW i \in DOMAIN items, ChainIsRead(i) PROVE ChainIsRead(i)'
    BY <1>1, <2>2 DEF ChainIsRead, Books!By
  <2> QED BY <2>1, <2>2
<1>6. OnConvert'
  BY <1>1, <1>2 DEF OnConvert, SoundReach, Books!Bag
<1>7. OnReconcile'
  <2>3. SUFFICES doing = "reconcile" => \A i \in DOMAIN items : OfferIsRead(i)'
    <3>1. doing = "reconcile" =>
            /\ Hashed(items) = Hashed(want.source)
            /\ \A i, j \in DOMAIN items : items[i].hash = items[j].hash => i = j
      BY <1>2 DEF OnReconcile
    <3>2. items' = items /\ want' = want /\ doing' = doing
      BY <1>1
    <3>3. doing' = "reconcile" =>
            /\ Hashed(items') = Hashed(want'.source)
            /\ \A i, j \in DOMAIN items' : items'[i].hash = items'[j].hash => i = j
      BY <3>1, <3>2
    <3>4. doing' = "reconcile" => \A i \in DOMAIN items' : OfferIsRead(i)'
      BY <2>3, <3>2
    <3> QED BY <3>3, <3>4 DEF OnReconcile
  <2> HAVE doing = "reconcile"
  <2> TAKE i \in DOMAIN items
  <2>1. OfferIsRead(i)
    BY <1>2 DEF OnReconcile
  <2>2. items[i].hash \in Books!Hashes /\ results[i] # "open" /\ fate[items[i].hash] = results[i]
        => fate'[items[i].hash] = results[i]
    OBVIOUS
  <2> QED BY <1>1, <2>1, <2>2 DEF OfferIsRead
<1>8. Replied'
  <2>1. doing = "done" /\ reply # Blank /\ reply.kind = "book" => SoundReach(reach)
    BY <1>2 DEF Replied
  <2>2. joined # Blank => SoundReach(joined)
    BY <1>2 DEF Replied
  <2>3. SoundReach(reach)' <=> SoundReach(reach)
    BY <1>1 DEF SoundReach
  <2>4. SoundReach(joined)' <=> SoundReach(joined)
    BY <1>1 DEF SoundReach
  <2>9. doing = "done" /\ reply # Blank /\ reply.kind = "reconciliation" =>
          reply.gone \subseteq Books!Hashes
    BY <1>2 DEF Replied
  <2>5. Books!CompleteMeansComplete'
    <3>1. Books!CompleteMeansComplete
      BY <1>2 DEF Replied
    <3> QED BY <1>1, <3>1 DEF Books!CompleteMeansComplete, Books!Listed, Books!Bag
  <2>6. Books!BestIsBest'
    <3>1. Books!BestIsBest
      BY <1>2 DEF Replied
    <3> QED BY <1>1, <3>1 DEF Books!BestIsBest
  <2>7. Books!ReconciledTruly'
    <3>1. Books!ReconciledTruly
      BY <1>2 DEF Replied
    <3>2. \A h \in Books!Hashes : ~Books!Open(h) => ~Books!Open(h)'
      BY DEF Books!Open
    <3> SUFFICES ASSUME doing = "done", reply # Blank, reply.kind = "reconciliation",
                        reply.gone \subseteq Books!Hashes, \A h \in reply.gone : ~Books!Open(h)
                 PROVE  \A h \in reply.gone : ~Books!Open(h)'
      BY <1>1, <2>9, <3>1, SMTT(30) DEF Books!ReconciledTruly
    <3> QED BY <3>2
  <2>8. Books!MergedClaimsNoMore'
    <3>1. Books!MergedClaimsNoMore
      BY <1>2 DEF Replied
    <3> QED BY <1>1, <3>1 DEF Books!MergedClaimsNoMore, Books!Sound, Books!Mergeable
  <2> QED BY <1>1, <2>1, <2>2, <2>3, <2>4, <2>5, <2>6, <2>7, <2>8, <2>9 DEF Replied
<1> QED BY <1>1, <1>2, <1>3, <1>4, <1>5, <1>6, <1>7, <1>8 DEF BooksInv

LEMMA AskedStays ==
    ASSUME AskedFor, want' = want, overdue' = overdue, unlisted' \in SUBSET unlisted,
           doing' \in {"roster", "walk", "convert"} => doing \in {"roster", "walk", "convert"}
    PROVE  AskedFor'
<1> SUFFICES ASSUME doing \in {"roster", "walk", "convert"}
             PROVE  /\ want.limit \in Nat \ {0} /\ want.source \in Rosters \cup {Blank}
                    /\ \A h \in unlisted' : Books!Belongs(h, want.asset) /\ Books!Shown(h)'
  BY DEF AskedFor, Books!Belongs, Books!Sells, Books!Buys
<1>1. /\ want.limit \in Nat \ {0} /\ want.source \in Rosters \cup {Blank}
      /\ \A h \in unlisted : Books!Belongs(h, want.asset) /\ Books!Shown(h)
  BY DEF AskedFor
<1>2. ASSUME NEW h \in unlisted' PROVE Books!Shown(h)'
  <2>1. Books!Shown(h)
    BY <1>1
  <2> QED BY <2>1 DEF Books!Shown, Books!Expired, Books!Expires
<1> QED BY <1>1, <1>2

LEMMA InvParts ==
    ASSUME BooksInv
    PROVE  /\ doing \in {"done", "roster", "walk", "convert", "rejected", "reconcile"}
           /\ DirectorySound /\ OffersSound /\ LanesSound
           /\ AskedFor /\ OnRoster /\ OnWalk /\ OnConvert /\ OnReconcile /\ Replied
BY DEF BooksInv

LEMMA OfferFacts ==
    ASSUME OffersSound
    PROVE  /\ fate \in [Books!Hashes -> Books!States] /\ overdue \in BOOLEAN
           /\ unlisted \in SUBSET Books!Hashes /\ seenOpen \in SUBSET Books!Hashes
           /\ \A h \in unlisted : fate[h] = "open"
           /\ Books!Pending => \A h \in Books!Hashes : fate[h] = "open" => h \in seenOpen
BY DEF OffersSound, Books!Open

LEMMA AnnounceSound ==
    ASSUME BooksInv, NEW a \in Traders, Books!Announce(a)
    PROVE  BooksInv'
<1>1. DirectorySound /\ OffersSound /\ AskedFor /\ OnRoster
  BY InvParts
<1>2. /\ Books!News /\ Books!Watch(a) /\ heardOf' = heardOf \cup {a}
      /\ fate' = fate /\ overdue' = overdue /\ unlisted' = unlisted /\ seenOpen' = seenOpen
  BY DEF Books!Announce, Books!chain, Books!history
<1>3. DirectorySound'
  BY <1>1, <1>2, WatchSound
<1>4. doing' = doing /\ want' = want
  BY <1>2, NewsRests
<1>5. AskedFor'
  BY <1>1, <1>2, <1>4, AskedStays
<1>6. OnRoster'
  BY <1>1, <1>2, <1>4 DEF OnRoster, Books!By, Books!Named
<1> QED BY <1>1, <1>2, <1>3, <1>5, <1>6, OfferFacts, NewsSound

LEMMA ForgetKeeps ==
    ASSUME BooksInv, NEW a, Books!Forget(a)
    PROVE  BooksInv'
<1>1. DirectorySound /\ OffersSound /\ AskedFor /\ OnRoster
  BY InvParts
<1>2. /\ Books!News /\ watched' = Books!Without(a) /\ heardOf' = heardOf \ {a}
      /\ pushedOut' = pushedOut
      /\ fate' = fate /\ overdue' = overdue /\ seenOpen' = seenOpen
      /\ unlisted' = IF doing = "roster" THEN unlisted \ Books!By({a}) ELSE unlisted
  BY DEF Books!Forget, Books!chain, Books!Unowed
<1>3. DirectorySound'
  BY <1>1, <1>2, ForgetSound
<1>4. doing' = doing /\ want' = want
  BY <1>2, NewsRests
<1>5. unlisted' \in SUBSET unlisted
  BY <1>2
<1>6. AskedFor'
  BY <1>1, <1>2, <1>4, <1>5, AskedStays
<1>7. OnRoster'
  <2> SUFFICES ASSUME doing = "roster"
               PROVE  unlisted' \subseteq Books!By(IF want.source = Blank THEN heardOf'
                                                   ELSE Books!Named(want.source))
    BY <1>4 DEF OnRoster, Books!By, Books!Named
  <2>1. unlisted \subseteq Books!By(IF want.source = Blank THEN heardOf
                                    ELSE Books!Named(want.source))
    BY <1>1 DEF OnRoster
  <2> QED BY <1>2, <2>1 DEF Books!By
<1>8. \A h \in unlisted' : fate'[h] = "open"
  BY <1>1, <1>2, <1>5, OfferFacts
<1> QED BY <1>1, <1>2, <1>3, <1>5, <1>6, <1>7, <1>8, OfferFacts, NewsSound

LEMMA ClearSound ==
    ASSUME BooksInv, Books!Clear
    PROVE  BooksInv'
<1>1. DirectorySound /\ OffersSound /\ AskedFor /\ OnRoster
  BY InvParts
<1>2. /\ Books!News /\ watched' = <<>> /\ heardOf' = {} /\ pushedOut' = pushedOut
      /\ fate' = fate /\ overdue' = overdue /\ seenOpen' = seenOpen
      /\ unlisted' = IF doing = "roster" THEN unlisted \ Books!By(heardOf) ELSE unlisted
  BY DEF Books!Clear, Books!chain, Books!Unowed
<1>3. DirectorySound'
  <2>1. watched' \in Line(Traders) /\ Elems(watched') = {} /\ Len(watched') = 0
    BY <1>2, EmptyLine
  <2>2. pushedOut \in Nat /\ 0 <= Watchable
    BY <1>1, MarketFacts DEF DirectorySound
  <2> QED BY <1>2, <2>1, <2>2 DEF DirectorySound
<1>4. doing' = doing /\ want' = want
  BY <1>2, NewsRests
<1>5. unlisted' \in SUBSET unlisted
  BY <1>2
<1>6. AskedFor'
  BY <1>1, <1>2, <1>4, <1>5, AskedStays
<1>7. OnRoster'
  <2> SUFFICES ASSUME doing = "roster"
               PROVE  unlisted' \subseteq Books!By(IF want.source = Blank THEN heardOf'
                                                   ELSE Books!Named(want.source))
    BY <1>4 DEF OnRoster, Books!By, Books!Named
  <2>1. unlisted \subseteq Books!By(IF want.source = Blank THEN heardOf
                                    ELSE Books!Named(want.source))
    BY <1>1 DEF OnRoster
  <2> QED BY <1>2, <2>1 DEF Books!By
<1>8. \A h \in unlisted' : fate'[h] = "open"
  BY <1>1, <1>2, <1>5, OfferFacts
<1> QED BY <1>1, <1>2, <1>3, <1>5, <1>6, <1>7, <1>8, OfferFacts, NewsSound

LEMMA OfferSettles ==
    ASSUME BooksInv, NEW h \in Books!Hashes, NEW s \in {"accepted", "cancelled"}, Books!Settle(h, s)
    PROVE  BooksInv'
<1>1. DirectorySound /\ OffersSound /\ AskedFor /\ OnRoster
  BY InvParts
<1>2. /\ Books!News /\ fate[h] = "open" /\ fate' = [fate EXCEPT ![h] = s]
      /\ unlisted' = unlisted \ {h}
      /\ watched' = watched /\ pushedOut' = pushedOut /\ heardOf' = heardOf
      /\ overdue' = overdue /\ seenOpen' = seenOpen
  BY DEF Books!Settle, Books!directory, Books!Open
<1>3. DirectorySound'
  BY <1>1, <1>2 DEF DirectorySound
<1>4. doing' = doing /\ want' = want
  BY <1>2, NewsRests
<1>5. unlisted' \in SUBSET unlisted
  BY <1>2
<1>6. AskedFor'
  BY <1>1, <1>2, <1>4, <1>5, AskedStays
<1>7. OnRoster'
  BY <1>1, <1>2, <1>4 DEF OnRoster, Books!By, Books!Named
<1>8. fate \in [Books!Hashes -> Books!States] /\ \A g \in unlisted : fate[g] = "open"
  BY <1>1, OfferFacts
<1>9. fate' \in [Books!Hashes -> Books!States]
  BY <1>2, <1>8 DEF Books!States
<1>10. \A g \in Books!Hashes : fate[g] # "open" => fate'[g] = fate[g]
  BY <1>2, <1>8
<1>11. \A g \in unlisted' : fate'[g] = "open"
  BY <1>1, <1>2, <1>8, OfferFacts
<1> QED BY <1>1, <1>2, <1>3, <1>5, <1>6, <1>7, <1>9, <1>10, <1>11, OfferFacts, NewsSound

LEMMA PassSound ==
    ASSUME BooksInv, Books!Pass
    PROVE  BooksInv'
<1>1. DirectorySound /\ OffersSound /\ AskedFor /\ OnRoster
  BY InvParts
<1>2. /\ Books!News /\ overdue' = TRUE
      /\ unlisted' = {h \in unlisted : want.expired \/ ~Books!Expires(h)}
      /\ watched' = watched /\ pushedOut' = pushedOut /\ heardOf' = heardOf
      /\ fate' = fate /\ seenOpen' = seenOpen
  BY DEF Books!Pass, Books!directory
<1>3. DirectorySound'
  BY <1>1, <1>2 DEF DirectorySound
<1>4. doing' = doing /\ want' = want
  BY <1>2, NewsRests
<1>5. unlisted' \in SUBSET unlisted
  BY <1>2
<1>6. AskedFor'
  <2> SUFFICES ASSUME doing \in {"roster", "walk", "convert"}
               PROVE  /\ want.limit \in Nat \ {0} /\ want.source \in Rosters \cup {Blank}
                      /\ \A h \in unlisted' : Books!Belongs(h, want.asset) /\ Books!Shown(h)'
    BY <1>4 DEF AskedFor, Books!Belongs, Books!Sells, Books!Buys
  <2>1. /\ want.limit \in Nat \ {0} /\ want.source \in Rosters \cup {Blank}
        /\ \A h \in unlisted : Books!Belongs(h, want.asset) /\ Books!Shown(h)
    BY <1>1 DEF AskedFor
  <2>2. ASSUME NEW h \in unlisted' PROVE Books!Shown(h)'
    <3>1. Books!Shown(h) /\ (want.expired \/ ~Books!Expires(h))
      BY <1>2, <2>1
    <3> QED BY <1>4, <3>1 DEF Books!Shown, Books!Expired, Books!Expires
  <2> QED BY <1>5, <2>1, <2>2
<1>7. OnRoster'
  BY <1>1, <1>4, <1>5, <1>2 DEF OnRoster, Books!By, Books!Named
<1>8. \A h \in unlisted' : fate'[h] = "open"
  BY <1>1, <1>2, <1>5, OfferFacts
<1>9. overdue' \in BOOLEAN
  BY <1>2
<1> QED BY <1>1, <1>2, <1>3, <1>5, <1>6, <1>7, <1>8, <1>9, OfferFacts, NewsSound

-----------------------------------------------------------------------------
(* What a walk says of itself.                                             *)

LEMMA EmptyMap ==
    ASSUME NEW X, NEW f \in [{} -> X]
    PROVE  f = <<>>
<1>1. f \in [1 .. 0 -> X]
  <2>1. 1 .. 0 = {}
    OBVIOUS
  <2> QED BY <2>1
<1>2. f \in Seq(X)
  BY <1>1, SeqDef
<1>3. Len(f) = 0
  <2>1. DOMAIN f = 1 .. 0 /\ DOMAIN f = 1 .. Len(f) /\ Len(f) \in Nat
    BY <1>1, <1>2, LenProperties
  <2> QED BY <2>1
<1> QED BY <1>2, <1>3, EmptySeq

LEMMA CoverageParts ==
    ASSUME NEW a, NEW f, NEW t, NEW d, NEW s
    PROVE  /\ Books!Coverage(a, f, t, d, s).asked = a
           /\ Books!Coverage(a, f, t, d, s).read = a - Cardinality(DOMAIN f)
           /\ Books!Coverage(a, f, t, d, s).failed = f
           /\ Books!Coverage(a, f, t, d, s).truncated = t
           /\ Books!Coverage(a, f, t, d, s).dropped = d
           /\ Books!Coverage(a, f, t, d, s).skipped = s
           /\ Books!Coverage(a, f, t, d, s).complete = (f = <<>> /\ t = {} /\ d = 0 /\ s = {})
BY SameCount DEF Books!Coverage

\* Of accounts that went unread, no more than there were.
LEMMA CoverageSound ==
    ASSUME NEW a \in Nat, NEW F, IsFiniteSet(F), Cardinality(F) <= a,
           NEW f \in [F -> {{"unread"}}], NEW t, NEW d \in Nat, NEW s
    PROVE  SoundReach(Books!Coverage(a, f, t, d, s))
<1>1. PICK c : c = Books!Coverage(a, f, t, d, s)
  OBVIOUS
<1>2. /\ c.asked = a /\ c.failed = f /\ c.truncated = t /\ c.dropped = d /\ c.skipped = s
  BY <1>1, CoverageParts
<1>3. DOMAIN c.failed = F
  BY <1>2
<1>4. c = Books!Coverage(c.asked, c.failed, c.truncated, c.dropped, c.skipped)
  BY <1>1, <1>2
<1>5. SoundReach(c)
  BY <1>2, <1>3, <1>4 DEF SoundReach
<1> QED BY <1>1, <1>5

LEMMA ReachIs ==
    ASSUME NEW c, SoundReach(c)
    PROVE  /\ Books!Sound(c)
           /\ c.complete <=> /\ DOMAIN c.failed = {} /\ c.truncated = {}
                             /\ c.dropped = 0 /\ c.skipped = {}
<1>1. /\ c.asked \in Nat /\ c.dropped \in Nat
      /\ IsFiniteSet(DOMAIN c.failed) /\ Cardinality(DOMAIN c.failed) <= c.asked
      /\ c.failed \in [DOMAIN c.failed -> {{"unread"}}]
      /\ c = Books!Coverage(c.asked, c.failed, c.truncated, c.dropped, c.skipped)
  BY DEF SoundReach
<1>2. PICK a, f, t, d, s : a = c.asked /\ f = c.failed /\ t = c.truncated /\ d = c.dropped /\ s = c.skipped
  OBVIOUS
<1>3. c = Books!Coverage(a, f, t, d, s)
  BY <1>1, <1>2
<1>4. /\ c.read = a - Cardinality(DOMAIN f)
      /\ c.complete = (f = <<>> /\ t = {} /\ d = 0 /\ s = {})
  BY <1>3, CoverageParts
<1>5. f = <<>> <=> DOMAIN f = {}
  <2>1. ASSUME DOMAIN f = {} PROVE f = <<>>
    BY <1>1, <1>2, <2>1, EmptyMap
  <2>2. DOMAIN <<>> = {}
    OBVIOUS
  <2> QED BY <2>1, <2>2
<1>6. PICK k \in Nat : k = Cardinality(DOMAIN f)
  BY <1>1, <1>2, FS_CardinalityType
<1>7. a \in Nat /\ k <= a /\ c.read = a - k
  BY <1>1, <1>2, <1>4, <1>6
<1>8. a - c.read = k /\ c.read \in 0 .. a
  BY <1>7
<1>9. \A x \in DOMAIN c.failed : c.failed[x] # {}
  BY <1>1
<1>10. c.complete => c.read = a
  <2> SUFFICES ASSUME DOMAIN f = {} PROVE c.read = a
    BY <1>4, <1>5
  <2>1. k = 0
    BY <1>6, FS_EmptySet
  <2> QED BY <1>7, <2>1
<1>11. c.complete <=> DOMAIN c.failed = {} /\ c.truncated = {} /\ c.dropped = 0 /\ c.skipped = {}
  BY <1>2, <1>4, <1>5
<1>12. Books!Sound(c)
  <2>1. /\ c.asked - c.read = Books!Cardinality(DOMAIN c.failed)
        /\ c.read \in 0 .. c.asked
    BY <1>2, <1>6, <1>8, SameCount
  <2>2. c.complete => c.read = c.asked /\ c.truncated = {} /\ c.dropped = 0 /\ c.skipped = {}
    BY <1>2, <1>10, <1>11
  <2> QED BY <1>9, <2>1, <2>2 DEF Books!Sound
<1> QED BY <1>11, <1>12

\* Two walks over one scope.
LEMMA MergeIs ==
    ASSUME NEW c, NEW d, SoundReach(c), SoundReach(d), Books!Mergeable(c, d)
    PROVE  /\ SoundReach(Books!Merge(c, d)) /\ Books!Merge(c, d).asked = c.asked
           /\ DOMAIN Books!Merge(c, d).failed = DOMAIN c.failed \cup DOMAIN d.failed
           /\ Books!Merge(c, d).complete => d.complete
<1>1. /\ c.asked \in Nat /\ c.dropped \in Nat /\ d.dropped \in Nat
      /\ IsFiniteSet(DOMAIN c.failed) /\ IsFiniteSet(DOMAIN d.failed)
      /\ c.failed \in [DOMAIN c.failed -> {{"unread"}}]
      /\ d.failed \in [DOMAIN d.failed -> {{"unread"}}]
  BY DEF SoundReach
<1>2. PICK F : F = DOMAIN c.failed \cup DOMAIN d.failed
  OBVIOUS
<1>3. IsFiniteSet(F)
  BY <1>1, <1>2, FS_Union
<1>4. Cardinality(F) <= c.asked
  BY <1>2, SameCount DEF Books!Mergeable
<1>5. PICK u : u = Books!Unite(c.failed, d.failed)
  OBVIOUS
<1>6. u = [x \in F |-> (IF x \in DOMAIN c.failed THEN c.failed[x] ELSE {}) \cup
                       (IF x \in DOMAIN d.failed THEN d.failed[x] ELSE {})]
  BY <1>2, <1>5 DEF Books!Unite
<1>7. u \in [F -> {{"unread"}}]
  <2>1. ASSUME NEW x \in F
        PROVE (IF x \in DOMAIN c.failed THEN c.failed[x] ELSE {}) \cup
              (IF x \in DOMAIN d.failed THEN d.failed[x] ELSE {}) = {"unread"}
    BY <1>1, <1>2
  <2> QED BY <1>6, <2>1
<1>8. PICK m : m = Books!Max({c.dropped, d.dropped})
  OBVIOUS
<1>9. m \in Nat /\ (m = 0 => d.dropped = 0)
  <2>1. PICK x \in Nat, y \in Nat : x = c.dropped /\ y = d.dropped
    BY <1>1
  <2>2. \E z \in {x, y} : \A w \in {x, y} : z >= w
    OBVIOUS
  <2>3. m = CHOOSE z \in {x, y} : \A w \in {x, y} : z >= w
    BY <1>8, <2>1 DEF Books!Max
  <2>4. m \in {x, y} /\ \A w \in {x, y} : m >= w
    BY <2>2, <2>3
  <2>5. m \in Nat /\ m >= y
    BY <2>4
  <2> QED BY <2>1, <2>5
<1>10. PICK t : t = c.truncated \cup d.truncated
  OBVIOUS
<1>11. PICK s : s = c.skipped \cup d.skipped
  OBVIOUS
<1>12. Books!Merge(c, d) = Books!Coverage(c.asked, u, t, m, s)
  BY <1>5, <1>8, <1>10, <1>11 DEF Books!Merge
<1>13. PICK a \in Nat : a = c.asked
  BY <1>1
<1>14. Books!Merge(c, d) = Books!Coverage(a, u, t, m, s)
  BY <1>12, <1>13
<1>15. SoundReach(Books!Coverage(a, u, t, m, s))
  BY <1>3, <1>4, <1>7, <1>9, <1>13, CoverageSound
<1>16. /\ Books!Merge(c, d).asked = a /\ Books!Merge(c, d).failed = u
       /\ Books!Merge(c, d).complete = (u = <<>> /\ t = {} /\ m = 0 /\ s = {})
  BY <1>14, CoverageParts
<1>17. DOMAIN u = F
  BY <1>6
<1>18. ASSUME Books!Merge(c, d).complete PROVE d.complete
  <2>1. u = <<>> /\ t = {} /\ m = 0 /\ s = {}
    BY <1>16, <1>18
  <2>2. F = {}
    <3>1. DOMAIN <<>> = {}
      OBVIOUS
    <3> QED BY <1>17, <2>1, <3>1
  <2>3. DOMAIN d.failed = {} /\ d.truncated = {} /\ d.dropped = 0 /\ d.skipped = {}
    BY <1>2, <1>9, <1>10, <1>11, <2>1, <2>2
  <2> QED BY <2>3, ReachIs
<1> QED BY <1>2, <1>13, <1>14, <1>15, <1>16, <1>17, <1>18

-----------------------------------------------------------------------------
(* The steps of a read.                                                    *)

LEMMA MarketRests ==
    ASSUME DirectorySound, OffersSound,
           watched' = watched, pushedOut' = pushedOut, heardOf' = heardOf, fate' = fate,
           overdue' = overdue, unlisted' = unlisted, seenOpen' = seenOpen,
           Books!Pending' => Books!Pending
    PROVE  DirectorySound' /\ OffersSound'
<1>1. DirectorySound'
  BY DEF DirectorySound
<1>2. OffersSound'
  BY DEF OffersSound, Books!Open
<1> QED BY <1>1, <1>2

LEMMA NothingReplied ==
    ASSUME Replied, joined' = joined, reply' = Blank \/ doing' # "done"
    PROVE  Replied'
<1>1. joined # Blank => SoundReach(joined)
  BY DEF Replied
<1>2. SoundReach(joined)' <=> SoundReach(joined)
  BY DEF SoundReach
<1>3. Books!Sound(joined)' <=> Books!Sound(joined)
  BY DEF Books!Sound
<1>4. joined # Blank => Books!Sound(joined)
  BY <1>1, ReachIs
<1>5. Books!CompleteMeansComplete' /\ Books!BestIsBest' /\ Books!ReconciledTruly'
  BY DEF Books!CompleteMeansComplete, Books!BestIsBest, Books!ReconciledTruly
<1>6. Books!MergedClaimsNoMore'
  BY <1>3, <1>4 DEF Books!MergedClaimsNoMore
<1> QED BY <1>1, <1>2, <1>5, <1>6 DEF Replied

\* How a read begins.
LEMMA BeginIs ==
    ASSUME BooksInv, NEW asked, Books!Begin(asked)
    PROVE  /\ want' = asked /\ ~calledOff' /\ calledOff' = FALSE /\ Books!Quiet
           /\ seenOpen' = {h \in Books!Hashes : fate[h] = "open"}
           /\ watched' = watched /\ pushedOut' = pushedOut /\ heardOf' = heardOf
           /\ fate' = fate /\ overdue' = overdue
           /\ DirectorySound' /\ Replied'
<1>1. /\ want' = asked /\ ~calledOff' /\ calledOff' = FALSE /\ Books!Quiet /\ reply' = Blank
      /\ joined' = joined
      /\ seenOpen' = {h \in Books!Hashes : fate[h] = "open"}
      /\ watched' = watched /\ pushedOut' = pushedOut /\ heardOf' = heardOf
      /\ fate' = fate /\ overdue' = overdue
  BY DEF Books!Begin, Books!directory, Books!chain, Books!Open
<1>2. DirectorySound /\ Replied
  BY InvParts
<1>3. DirectorySound'
  BY <1>1, <1>2 DEF DirectorySound
<1>4. Replied'
  BY <1>1, <1>2, NothingReplied
<1> QED BY <1>1, <1>3, <1>4

LEMMA ReadBookSound ==
    ASSUME BooksInv, NEW source \in Rosters \cup {Blank}, NEW options \in Asks,
           Books!ReadBook(source, options)
    PROVE  BooksInv'
<1> DEFINE asked == [asset |-> options.asset, expired |-> options.expired, mine |-> options.mine,
                     limit |-> options.limit, stage |-> "walk", source |-> source,
                     lost |-> pushedOut]
           of == IF source = Blank THEN heardOf ELSE Books!Named(source)
<1>1. /\ Books!Begin(asked) /\ doing' = "roster" /\ Books!Rest
      /\ unlisted' = {h \in Books!By(of) :
                        /\ fate[h] = "open" /\ Books!Belongs(h, options.asset)
                        /\ Books!Expired(h) => options.expired
                        /\ Lot[h].author = Wallet => options.mine}
  BY DEF Books!ReadBook, Books!Open
<1>a. /\ asked.asset = options.asset /\ asked.expired = options.expired
      /\ asked.mine = options.mine /\ asked.limit = options.limit /\ asked.source = source
  OBVIOUS
<1>b. PICK w : w = asked
  OBVIOUS
<1>c. of = IF source = Blank THEN heardOf ELSE Books!Named(source)
  OBVIOUS
<1> HIDE DEF asked, of
<1>2. /\ want' = asked /\ calledOff' = FALSE /\ Books!Quiet
      /\ seenOpen' = {h \in Books!Hashes : fate[h] = "open"}
      /\ watched' = watched /\ pushedOut' = pushedOut /\ heardOf' = heardOf
      /\ fate' = fate /\ overdue' = overdue
      /\ DirectorySound' /\ Replied'
  BY <1>1, BeginIs
<1>3. OffersSound /\ LanesSound
  BY InvParts
<1>4. fate \in [Books!Hashes -> Books!States] /\ overdue \in BOOLEAN
  BY <1>3, OfferFacts
<1>5. OffersSound'
  <2>1. /\ unlisted' \subseteq Books!Hashes /\ seenOpen' \subseteq Books!Hashes
        /\ \A h \in unlisted' : fate'[h] = "open"
        /\ \A h \in Books!Hashes : fate'[h] = "open" => h \in seenOpen'
    BY <1>1, <1>2 DEF Books!By
  <2>2. fate' \in [Books!Hashes -> Books!States] /\ overdue' \in BOOLEAN
    BY <1>2, <1>4
  <2> QED BY <2>1, <2>2 DEF OffersSound, Books!Open
<1>6. LanesSound'
  BY <1>1, <1>2, <1>3, RestSound
<1>7. options.limit \in Nat \ {0}
  BY BooksAssumption DEF Books!ReadsAssumption
<1>8. AskedFor'
  <2>1. ASSUME NEW h \in unlisted'
        PROVE  Books!Belongs(h, want'.asset) /\ Books!Shown(h)'
    <3>1. /\ Books!Belongs(h, options.asset)
          /\ Books!Expired(h) => options.expired
          /\ Lot[h].author = Wallet => options.mine
      BY <1>1
    <3>2. Books!Expired(h)' <=> Books!Expired(h)
      BY <1>2 DEF Books!Expired, Books!Expires
    <3>3. Books!Shown(h)'
      BY <1>2, <1>a, <3>1, <3>2 DEF Books!Shown
    <3> QED BY <1>2, <1>a, <3>1, <3>3
  <2>2. want'.limit \in Nat \ {0} /\ want'.source \in Rosters \cup {Blank}
    BY <1>2, <1>7, <1>a
  <2> QED BY <2>1, <2>2 DEF AskedFor, Books!Belongs, Books!Sells, Books!Buys
<1>9. OnRoster'
  <2>1. unlisted' \subseteq Books!By(of)
    BY <1>1
  <2>2. of = IF want'.source = Blank THEN heardOf' ELSE Books!Named(want'.source)
    BY <1>2, <1>a, <1>c
  <2> QED BY <2>1, <2>2 DEF OnRoster, Books!By, Books!Named
<1>10. OnWalk' /\ OnConvert' /\ OnReconcile'
  BY <1>1 DEF OnWalk, OnConvert, OnReconcile
<1> QED BY <1>1, <1>2, <1>5, <1>6, <1>8, <1>9, <1>10 DEF BooksInv

\* Every hash of a snapshot once.
LEMMA EntriesAre ==
    ASSUME NEW snapshot, Books!IsList(snapshot)
    PROVE  \E at : /\ at = Books!Entries(snapshot) /\ Books!IsList(at)
                   /\ Hashed(at) = Hashed(snapshot)
                   /\ \A i, j \in DOMAIN at : at[i].hash = at[j].hash => i = j
<1>1. Len(snapshot) \in Nat /\ DOMAIN snapshot = 1 .. Len(snapshot)
  BY DEF Books!IsList
<1>2. PICK n \in Nat : n = Len(snapshot)
  BY <1>1
<1>3. PICK places \in SUBSET DOMAIN snapshot :
         places = {i \in DOMAIN snapshot :
                     \A j \in 1 .. (i - 1) : snapshot[j].hash # snapshot[i].hash}
  OBVIOUS
<1>4. PICK A : A = {snapshot[i] : i \in DOMAIN snapshot}
  OBVIOUS
<1>5. \A i \in places : snapshot[i] \in A
  BY <1>4
<1>6. PICK at \in Seq(A) :
             /\ at = Books!At(snapshot, places)
             /\ Len(at) = Cardinality(places) /\ Len(at) \in Nat /\ Len(at) <= Len(snapshot)
             /\ Elems(at) = {snapshot[i] : i \in places}
             /\ \A k, l \in 1 .. Len(at) :
                  k # l => \E i, j \in places : i # j /\ at[k] = snapshot[i] /\ at[l] = snapshot[j]
  BY <1>5, AtPlaces
<1>7. DOMAIN at = 1 .. Len(at) /\ Books!IsList(at)
  BY <1>6, LenProperties DEF Books!IsList
<1>8. at = Books!Entries(snapshot)
  BY <1>3, <1>6 DEF Books!Entries
<1>9. \A i, j \in places : snapshot[i].hash = snapshot[j].hash => i = j
  <2> SUFFICES ASSUME NEW i \in places, NEW j \in places, snapshot[i].hash = snapshot[j].hash, i < j
               PROVE  FALSE
    BY <1>1
  <2>1. i \in Nat \ {0} /\ j \in Nat
    BY <1>1
  <2>2. i \in 1 .. (j - 1)
    BY <2>1
  <2> QED BY <1>3, <2>2
<1>10. \A i, j \in DOMAIN at : at[i].hash = at[j].hash => i = j
  BY <1>6, <1>7, <1>9
<1>11. Hashed(at) = Hashed(snapshot)
  <2>1. ASSUME NEW k \in DOMAIN at PROVE at[k].hash \in Hashed(snapshot)
    <3>1. at[k] \in Elems(at)
      BY <1>7 DEF Elems
    <3>2. PICK i \in places : at[k] = snapshot[i]
      BY <1>6, <3>1
    <3> QED BY <3>2 DEF Hashed
  <2>2. ASSUME NEW i \in DOMAIN snapshot PROVE snapshot[i].hash \in Hashed(at)
    <3>1. PICK B \in SUBSET (1 .. n) :
             B = {m \in 1 .. n : snapshot[m].hash = snapshot[i].hash}
      OBVIOUS
    <3>2. i \in B /\ B \in SUBSET Nat
      BY <1>1, <1>2, <3>1
    <3>3. PICK j \in B : \A k \in B : j <= k
      BY <3>2, LeastNumber
    <3>4. j \in places /\ snapshot[j].hash = snapshot[i].hash
      <4>1. j \in DOMAIN snapshot /\ snapshot[j].hash = snapshot[i].hash
        BY <1>1, <1>2, <3>1
      <4>2. \A k \in 1 .. (j - 1) : k \in 1 .. n /\ k \notin B
        BY <3>3
      <4>3. \A k \in 1 .. (j - 1) : snapshot[k].hash # snapshot[j].hash
        BY <3>1, <4>1, <4>2
      <4> QED BY <1>3, <4>1, <4>3
    <3>5. snapshot[j] \in Elems(at)
      BY <1>6, <3>4
    <3>6. PICK k \in 1 .. Len(at) : at[k] = snapshot[j]
      BY <3>5 DEF Elems
    <3> QED BY <1>7, <3>4, <3>6 DEF Hashed
  <2> QED BY <2>1, <2>2 DEF Hashed
<1> QED BY <1>7, <1>8, <1>10, <1>11

LEMMA ReconcileSound ==
    ASSUME BooksInv, NEW snapshot \in Shots, Books!Reconcile(snapshot)
    PROVE  BooksInv'
<1>1. PICK asked : asked = [stage |-> "reconcile", source |-> snapshot]
  OBVIOUS
<1>2. /\ Books!Begin(asked) /\ doing' = "reconcile" /\ Books!Launch(Books!Entries(snapshot))
      /\ unlisted' = {}
  BY <1>1 DEF Books!Reconcile
<1>3. /\ want' = asked /\ ~calledOff' /\ Books!Quiet
      /\ seenOpen' = {h \in Books!Hashes : fate[h] = "open"}
      /\ fate' = fate /\ overdue' = overdue
      /\ DirectorySound' /\ Replied'
  BY <1>2, BeginIs
<1>4. OffersSound
  BY InvParts
<1>5. fate \in [Books!Hashes -> Books!States] /\ overdue \in BOOLEAN
  BY <1>4, OfferFacts
<1>6. OffersSound'
  <2>1. /\ unlisted' \subseteq Books!Hashes /\ seenOpen' \subseteq Books!Hashes
        /\ \A h \in unlisted' : fate'[h] = "open"
        /\ \A h \in Books!Hashes : fate'[h] = "open" => h \in seenOpen'
    BY <1>2, <1>3
  <2>2. fate' \in [Books!Hashes -> Books!States] /\ overdue' \in BOOLEAN
    BY <1>3, <1>5
  <2> QED BY <2>1, <2>2 DEF OffersSound, Books!Open
<1>7. Books!IsList(snapshot)
  BY BooksAssumption DEF Books!ReadsAssumption
<1>8. PICK at : /\ at = Books!Entries(snapshot) /\ Books!IsList(at)
                /\ Hashed(at) = Hashed(snapshot)
                /\ \A i, j \in DOMAIN at : at[i].hash = at[j].hash => i = j
  BY <1>7, EntriesAre
<1>9. LanesSound' /\ items' = at /\ \A i \in DOMAIN at : results'[i] = Blank
  BY <1>2, <1>3, <1>8, LaunchSound
<1>10. OnReconcile'
  <2>1. Hashed(items') = Hashed(want'.source)
    BY <1>1, <1>3, <1>8, <1>9
  <2>2. \A i, j \in DOMAIN items' : items'[i].hash = items'[j].hash => i = j
    BY <1>8, <1>9
  <2>3. \A i \in DOMAIN items' : OfferIsRead(i)'
    BY <1>9 DEF OfferIsRead
  <2> QED BY <2>1, <2>2, <2>3 DEF OnReconcile
<1>11. AskedFor' /\ OnRoster' /\ OnWalk' /\ OnConvert'
  BY <1>2 DEF AskedFor, OnRoster, OnWalk, OnConvert
<1> QED BY <1>2, <1>3, <1>6, <1>9, <1>10, <1>11 DEF BooksInv

\* Every account of a list once, and nothing that is no account.
LEMMA WalkableIs ==
    ASSUME NEW entries, Books!IsList(entries)
    PROVE  \E at : /\ at = Books!Walkable(entries) /\ Books!IsList(at)
                   /\ \A i \in DOMAIN at : at[i] \in Traders
                   /\ \A i \in DOMAIN entries : entries[i] \in Traders => entries[i] \in Books!Bag(at)
<1>1. Len(entries) \in Nat /\ DOMAIN entries = 1 .. Len(entries)
  BY DEF Books!IsList
<1>2. PICK n \in Nat : n = Len(entries)
  BY <1>1
<1>3. PICK places \in SUBSET DOMAIN entries :
         places = {i \in DOMAIN entries :
                     /\ entries[i] \in Traders
                     /\ \A j \in 1 .. (i - 1) : entries[j] # entries[i]}
  OBVIOUS
<1>4. \A i \in places : entries[i] \in Traders
  BY <1>3
<1>5. PICK at \in Seq(Traders) :
             /\ at = Books!At(entries, places)
             /\ Len(at) = Cardinality(places) /\ Len(at) \in Nat /\ Len(at) <= Len(entries)
             /\ Elems(at) = {entries[i] : i \in places}
             /\ \A k, l \in 1 .. Len(at) :
                  k # l => \E i, j \in places : i # j /\ at[k] = entries[i] /\ at[l] = entries[j]
  BY <1>4, AtPlaces
<1>6. DOMAIN at = 1 .. Len(at) /\ Books!IsList(at) /\ \A i \in DOMAIN at : at[i] \in Traders
  BY <1>5, LenProperties, ElementOfSeq DEF Books!IsList
<1>7. at = Books!Walkable(entries)
  BY <1>3, <1>5 DEF Books!Walkable
<1>8. ASSUME NEW i \in DOMAIN entries, entries[i] \in Traders PROVE entries[i] \in Books!Bag(at)
  <2>1. PICK B \in SUBSET (1 .. n) : B = {m \in 1 .. n : entries[m] = entries[i]}
    OBVIOUS
  <2>2. i \in B /\ B \in SUBSET Nat
    BY <1>1, <1>2, <2>1
  <2>3. PICK j \in B : \A k \in B : j <= k
    BY <2>2, LeastNumber
  <2>4. j \in places /\ entries[j] = entries[i]
    <3>1. j \in DOMAIN entries /\ entries[j] = entries[i]
      BY <1>1, <1>2, <2>1
    <3>2. \A k \in 1 .. (j - 1) : k \in 1 .. n /\ k \notin B
      BY <2>3
    <3>3. \A k \in 1 .. (j - 1) : entries[k] # entries[j]
      BY <2>1, <3>1, <3>2
    <3> QED BY <1>3, <1>8, <3>1, <3>3
  <2>5. entries[j] \in Elems(at)
    BY <1>5, <2>4
  <2>6. PICK k \in 1 .. Len(at) : at[k] = entries[j]
    BY <2>5 DEF Elems
  <2> QED BY <1>6, <2>4, <2>6 DEF Books!Bag
<1> QED BY <1>6, <1>7, <1>8

LEMMA RosterSound ==
    ASSUME BooksInv, Books!Roster
    PROVE  BooksInv'
<1>1. PICK entries : entries = IF want.source = Blank THEN watched ELSE want.source
  OBVIOUS
<1>2. PICK s : s = Books!Skipped(entries)
  OBVIOUS
<1>3. PICK d : d = Books!Dropped
  OBVIOUS
<1>4. /\ doing = "roster" /\ doing' = "walk" /\ Books!Launch(Books!Walkable(entries))
      /\ reach' = Books!Coverage(Len(Books!Walkable(entries)), <<>>, {}, d, s)
      /\ watched' = watched /\ pushedOut' = pushedOut /\ heardOf' = heardOf /\ fate' = fate
      /\ overdue' = overdue /\ unlisted' = unlisted /\ seenOpen' = seenOpen
      /\ want' = want /\ calledOff' = calledOff /\ reply' = reply /\ joined' = joined
  BY <1>1, <1>2, <1>3 DEF Books!Roster, Books!directory, Books!chain, Books!history
<1>5. /\ DirectorySound /\ OffersSound /\ LanesSound /\ AskedFor /\ OnRoster /\ Replied
  BY InvParts
<1>6. /\ watched \in Line(Traders) /\ Elems(watched) \subseteq heardOf /\ heardOf \subseteq Traders
      /\ pushedOut \in Nat /\ (pushedOut = 0 => heardOf \subseteq Elems(watched))
  BY <1>5 DEF DirectorySound
<1>7. /\ want.source \in Rosters \cup {Blank}
      /\ unlisted \subseteq Books!By(IF want.source = Blank THEN heardOf
                                                            ELSE Books!Named(want.source))
  BY <1>4, <1>5 DEF AskedFor, OnRoster
<1>8. Books!IsList(entries)
  <2>1. Len(watched) \in Nat /\ DOMAIN watched = 1 .. Len(watched)
    BY <1>6, LineFacts
  <2>2. Books!IsList(watched)
    BY <2>1 DEF Books!IsList
  <2>3. \A roster \in Rosters : Books!IsList(roster)
    BY BooksAssumption DEF Books!ReadsAssumption
  <2> QED BY <1>1, <1>7, <2>2, <2>3
<1>9. PICK at : /\ at = Books!Walkable(entries) /\ Books!IsList(at)
                /\ \A i \in DOMAIN at : at[i] \in Traders
                /\ \A i \in DOMAIN entries : entries[i] \in Traders => entries[i] \in Books!Bag(at)
  BY <1>8, WalkableIs
<1>10. Books!Pending /\ ~calledOff
  BY <1>4, <1>5 DEF LanesSound, Books!Pending
<1>11. LanesSound' /\ items' = at /\ \A i \in DOMAIN at : results'[i] = Blank
  BY <1>4, <1>9, <1>10, LaunchSound
<1>12. DirectorySound' /\ OffersSound'
  BY <1>4, <1>5, <1>10, MarketRests
<1>13. AskedFor'
  BY <1>4, <1>5, AskedStays
<1>14. PICK n \in Nat : n = Len(at)
  BY <1>9 DEF Books!IsList
<1>15. reach'.asked = n /\ reach'.dropped = d
  BY <1>4, <1>9, <1>14, CoverageParts
<1>16. d = IF want.source = Blank THEN pushedOut ELSE 0
  BY <1>3 DEF Books!Dropped
<1>17. ASSUME d = 0 PROVE unlisted \subseteq Books!By(Books!Bag(at))
  <2>1. CASE want.source = Blank
    <3>1. heardOf \subseteq Elems(watched) /\ entries = watched
      BY <1>1, <1>6, <1>16, <1>17, <2>1
    <3>2. ASSUME NEW a \in heardOf PROVE a \in Books!Bag(at)
      <4>1. PICK i \in 1 .. Len(watched) : watched[i] = a
        BY <3>1 DEF Elems
      <4>2. DOMAIN watched = 1 .. Len(watched) /\ a \in Traders
        BY <1>6, LineFacts
      <4> QED BY <1>9, <3>1, <4>1, <4>2
    <3> QED BY <1>7, <2>1, <3>2 DEF Books!By
  <2>2. CASE want.source # Blank
    <3>1. entries = want.source
      BY <1>1, <2>2
    <3>2. ASSUME NEW a \in Books!Named(want.source) PROVE a \in Books!Bag(at)
      <4>1. a \in Traders /\ \E i \in DOMAIN entries : entries[i] = a
        BY <3>1 DEF Books!Named
      <4> QED BY <1>9, <4>1
    <3> QED BY <1>7, <2>2, <3>2 DEF Books!By
  <2> QED BY <2>1, <2>2
<1>18. OnWalk'
  <2>1. \A i \in DOMAIN items' : items'[i] \in Traders
    BY <1>9, <1>11
  <2>2. reach'.asked = Len(items') /\ reach'.dropped \in Nat
    BY <1>6, <1>11, <1>14, <1>15, <1>16
  <2>3. reach'.dropped = 0 => unlisted' \subseteq Books!By(Books!Bag(items'))
    BY <1>4, <1>11, <1>15, <1>17
  <2>4. \A i \in DOMAIN items' : results'[i] = Blank
    BY <1>11
  <2> QED BY <2>1, <2>2, <2>3, <2>4 DEF OnWalk, Books!By, Books!Bag
<1>19. Replied'
  BY <1>4, <1>5, NothingReplied
<1>20. OnRoster' /\ OnConvert' /\ OnReconcile'
  BY <1>4 DEF OnRoster, OnConvert, OnReconcile
<1> QED BY <1>4, <1>11, <1>12, <1>13, <1>18, <1>19, <1>20 DEF BooksInv

-----------------------------------------------------------------------------
(* The answers of the lanes.                                               *)

LEMMA AnswerSound ==
    ASSUME BooksInv, NEW l \in Books!Lanes, NEW v, v # Blank, Books!Answers(l, v),
           doing' = doing, doing # "done", OnWalk', OnReconcile'
    PROVE  BooksInv'
<1>1. /\ doing \in {"done", "roster", "walk", "convert", "rejected", "reconcile"}
      /\ DirectorySound /\ OffersSound /\ LanesSound
      /\ AskedFor /\ OnRoster /\ OnConvert /\ Replied
  BY InvParts
<1>2. /\ watched' = watched /\ pushedOut' = pushedOut /\ heardOf' = heardOf /\ fate' = fate
      /\ overdue' = overdue /\ unlisted' = unlisted /\ seenOpen' = seenOpen /\ want' = want
      /\ items' = items /\ reach' = reach /\ reply' = reply /\ joined' = joined
      /\ lane[l] # 0
  BY DEF Books!Answers, Books!directory, Books!chain, Books!history
<1>3. LanesSound'
  BY <1>1, AnswersSound
<1>4. DirectorySound' /\ OffersSound'
  BY <1>1, <1>2, MarketRests DEF Books!Pending
<1>5. AskedFor'
  BY <1>1, <1>2, AskedStays
<1>6. OnRoster'
  BY <1>1, <1>2 DEF OnRoster, Books!By, Books!Named
<1>7. OnConvert'
  BY <1>1, <1>2 DEF OnConvert, SoundReach, Books!Bag
<1>8. Replied'
  BY <1>1, <1>2, NothingReplied
<1> QED BY <1>1, <1>3, <1>4, <1>5, <1>6, <1>7, <1>8 DEF BooksInv

\* The newest offers of an account; what the limit cut off left them full.
Newest(own, limit) == {h \in own : Books!Cardinality({i \in own : i > h}) < limit}

LEMMA NewestRows ==
    ASSUME NEW own \in SUBSET Books!Hashes, NEW limit \in Nat, Newest(own, limit) # own
    PROVE  Cardinality(Newest(own, limit)) = limit
<1> DEFINE R == {p \in own \X own : p[1] > p[2]}
<1>1. IsFiniteSet(own) /\ own \subseteq Nat
  BY MarketFacts, FS_Subset
<1>2. \A g, h \in own : <<g, h>> \in R <=> g > h
  OBVIOUS
<1>3. Newest(own, limit) = Foremost(own, R, limit)
  <2>1. ASSUME NEW h \in own PROVE {g \in own : g > h} = Before(own, R, h)
    BY <1>2 DEF Before
  <2>2. \A h \in own : Books!Cardinality({i \in own : i > h}) = Cardinality(Before(own, R, h))
    BY <2>1, SameCount
  <2> HIDE DEF R
  <2> QED BY <2>2 DEF Foremost, Newest
<1> HIDE DEF R
<1>4. Lines(own, R)
  <2>1. \A x \in own : <<x, x>> \notin R
    BY <1>1, <1>2
  <2>2. \A x, y \in own : x # y => <<x, y>> \in R \/ <<y, x>> \in R
    BY <1>1, <1>2
  <2>3. \A x, y, z \in own : <<x, y>> \in R /\ <<y, z>> \in R => <<x, z>> \in R
    BY <1>1, <1>2
  <2> QED BY <2>1, <2>2, <2>3 DEF Lines
<1>5. PICK out \in own : out \notin Foremost(own, R, limit)
  BY <1>3 DEF Newest
<1> QED BY <1>1, <1>3, <1>4, <1>5, FullWithoutSome

\* What is answered of an account, or that it could not be read.
LEMMA ChainAnswered ==
    ASSUME BooksInv, NEW l \in Books!Lanes, NEW v \in Books!Results, Books!Answers(l, v),
           doing' = doing, Books!Working("walk"),
           doing = "walk" =>
               \/ ~v.ok /\ v.rows = {}
               \/ LET own == {h \in Books!By({items[lane[l]]}) : Books!Open(h)}
                  IN  v.rows = Newest(own, want.limit)
    PROVE  BooksInv'
<1>1. /\ OffersSound /\ LanesSound /\ AskedFor /\ OnWalk
  BY InvParts
<1>2. /\ fate' = fate /\ unlisted' = unlisted /\ seenOpen' = seenOpen /\ want' = want
      /\ items' = items /\ reach' = reach
  BY DEF Books!Answers, Books!chain, Books!history
<1>3. v # Blank
  BY MarketFacts
<1>4. /\ lane[l] \in DOMAIN items
      /\ \A i \in DOMAIN items : results'[i] = IF i = lane[l] THEN v ELSE results[i]
  BY <1>1, <1>3, AnswersSound
<1>5. doing \in {"walk", "rejected"}
  BY DEF Books!Working
<1>6. OnWalk'
  <2> SUFFICES ASSUME doing = "walk"
               PROVE  \A i \in DOMAIN items : results'[i] = Blank \/ ChainIsRead(i)'
    BY <1>1, <1>2 DEF OnWalk, Books!By, Books!Bag
  <2>1. \A i \in DOMAIN items : results[i] = Blank \/ ChainIsRead(i)
    BY <1>1 DEF OnWalk
  <2>2. ASSUME NEW i \in DOMAIN items, i # lane[l], ChainIsRead(i) PROVE ChainIsRead(i)'
    BY <1>2, <1>4, <2>2 DEF ChainIsRead, Books!By
  <2>3. ASSUME NEW i \in DOMAIN items, i = lane[l] PROVE ChainIsRead(i)'
    <3>1. want.limit \in Nat
      BY <1>1 DEF AskedFor
    <3>2. PICK own \in SUBSET Books!Hashes : own = {h \in Books!By({items[i]}) : fate[h] = "open"}
      BY DEF Books!By
    <3>3. \/ ~v.ok /\ v.rows = {}
          \/ v.rows = Newest(own, want.limit)
      BY <2>3, <3>2 DEF Books!Open
    <3>4. own \subseteq seenOpen \cap Books!By({items[i]})
      BY <1>1, <3>2, OfferFacts DEF Books!Pending, Books!By
    <3>5. unlisted \cap Books!By({items[i]}) \subseteq own
      BY <1>1, <3>2, OfferFacts
    <3>6. v.rows \in SUBSET own
      BY <3>3 DEF Newest
    <3>7. v.ok => \/ Cardinality(v.rows) >= want.limit
                  \/ unlisted \cap Books!By({items[i]}) \subseteq v.rows
      <4> SUFFICES ASSUME v.ok, v.rows # own PROVE Cardinality(v.rows) >= want.limit
        BY <3>5
      <4>1. v.rows = Newest(own, want.limit)
        BY <3>3
      <4>2. PICK n \in Nat : n = want.limit
        BY <3>1
      <4>3. Cardinality(Newest(own, n)) = n
        BY <4>1, <4>2, NewestRows
      <4> QED BY <4>1, <4>2, <4>3
    <3>8. results'[i] = v
      BY <1>4, <2>3
    <3> QED BY <1>2, <3>4, <3>6, <3>7, <3>8 DEF ChainIsRead, Books!By
  <2> QED BY <1>4, <2>1, <2>2, <2>3
<1>7. OnReconcile'
  BY <1>5 DEF OnReconcile
<1> QED BY <1>3, <1>5, <1>6, <1>7, AnswerSound

LEMMA ReadChainSound ==
    ASSUME BooksInv, NEW l \in Books!Lanes, Books!ReadChain(l)
    PROVE  BooksInv'
<1>1. PICK own \in SUBSET Books!Hashes :
         own = {h \in Books!By({items[lane[l]]}) : Books!Open(h)}
  BY DEF Books!By
<1>2. PICK rows \in SUBSET Books!Hashes :
         rows = Newest(own, want.limit)
  BY DEF Newest
<1>3. PICK v \in Books!Results : v = [ok |-> TRUE, rows |-> rows]
  BY DEF Books!Results
<1>4. v.rows = rows
  BY <1>3
<1>5. Books!Answers(l, v) /\ doing' = doing /\ Books!Working("walk")
  BY <1>1, <1>2, <1>3 DEF Books!ReadChain, Newest
<1> QED BY <1>1, <1>2, <1>4, <1>5, ChainAnswered

LEMMA MissChainSound ==
    ASSUME BooksInv, NEW l \in Books!Lanes, Books!MissChain(l)
    PROVE  BooksInv'
<1>1. PICK v \in Books!Results : v = [ok |-> FALSE, rows |-> {}]
  BY DEF Books!Results
<1>2. ~v.ok /\ v.rows = {}
  BY <1>1
<1>3. Books!Answers(l, v) /\ doing' = doing /\ Books!Working("walk")
  BY <1>1 DEF Books!MissChain
<1> QED BY <1>2, <1>3, ChainAnswered

LEMMA ConvertSound ==
    ASSUME BooksInv, NEW l \in Books!Lanes, Books!Convert(l)
    PROVE  BooksInv'
<1>1. Books!Answers(l, "offer") /\ doing' = doing /\ doing \in {"convert", "rejected"}
  BY DEF Books!Convert, Books!Working
<1>2. "offer" # Blank
  BY MarketFacts
<1>3. OnWalk' /\ OnReconcile'
  BY <1>1 DEF OnWalk, OnReconcile
<1> QED BY <1>1, <1>2, <1>3, AnswerSound

\* Of an offer: the state it was in, that there is none, or that it failed.
LEMMA OfferAnswered ==
    ASSUME BooksInv, NEW l \in Books!Lanes, NEW v, v # Blank, Books!Answers(l, v),
           doing' = doing, Books!Working("reconcile"),
           \/ v \in {"missing", "failed"}
           \/ items[lane[l]].hash \in Books!Hashes /\ v = fate[items[lane[l]].hash]
    PROVE  BooksInv'
<1>1. OffersSound /\ LanesSound /\ OnReconcile
  BY InvParts
<1>2. fate' = fate /\ seenOpen' = seenOpen /\ want' = want /\ items' = items
  BY DEF Books!Answers, Books!chain, Books!history
<1>3. /\ lane[l] \in DOMAIN items
      /\ \A i \in DOMAIN items : results'[i] = IF i = lane[l] THEN v ELSE results[i]
  BY <1>1, AnswersSound
<1>4. doing \in {"reconcile", "rejected"}
  BY DEF Books!Working
<1>5. OnReconcile'
  <2> SUFFICES ASSUME doing = "reconcile" PROVE OnReconcile'
    BY DEF OnReconcile
  <2>1. /\ Hashed(items) = Hashed(want.source)
        /\ \A i, j \in DOMAIN items : items[i].hash = items[j].hash => i = j
        /\ \A i \in DOMAIN items : OfferIsRead(i)
    BY <1>1 DEF OnReconcile
  <2>2. ASSUME NEW i \in DOMAIN items, i # lane[l] PROVE OfferIsRead(i)'
    BY <1>2, <1>3, <2>1, <2>2 DEF OfferIsRead
  <2>3. ASSUME NEW i \in DOMAIN items, i = lane[l] PROVE OfferIsRead(i)'
    <3>1. results'[i] = v
      BY <1>3, <2>3
    <3>2. CASE v \in {"missing", "failed"}
      BY <3>1, <3>2 DEF OfferIsRead
    <3>3. CASE items[i].hash \in Books!Hashes /\ v = fate[items[i].hash]
      <4>1. v \in Books!States
        BY <1>1, <3>3, OfferFacts
      <4>2. v = "open" => items[i].hash \in seenOpen
        BY <1>1, <3>3, OfferFacts DEF Books!Pending
      <4> QED BY <1>2, <3>1, <3>3, <4>1, <4>2 DEF OfferIsRead
    <3> QED BY <2>3, <3>2, <3>3
  <2>4. Hashed(items') = Hashed(want'.source)
    BY <1>2, <2>1
  <2>5. \A i, j \in DOMAIN items' : items'[i].hash = items'[j].hash => i = j
    BY <1>2, <2>1
  <2>6. \A i \in DOMAIN items' : OfferIsRead(i)'
    BY <1>2, <2>2, <2>3
  <2> QED BY <2>4, <2>5, <2>6 DEF OnReconcile
<1>6. OnWalk'
  BY <1>4 DEF OnWalk
<1> QED BY <1>4, <1>5, <1>6, AnswerSound

LEMMA ReadOfferSound ==
    ASSUME BooksInv, NEW l \in Books!Lanes, Books!ReadOffer(l)
    PROVE  BooksInv'
<1>1. PICK v : v = Books!Found(items[lane[l]])
  OBVIOUS
<1>2. Books!Answers(l, v) /\ doing' = doing /\ Books!Working("reconcile")
  BY <1>1 DEF Books!ReadOffer
<1>3. v = IF items[lane[l]].hash \notin Books!Hashes THEN "missing" ELSE fate[items[lane[l]].hash]
  BY <1>1 DEF Books!Found
<1>4. v # Blank
  <2>1. OffersSound
    BY InvParts
  <2> QED BY <1>3, <2>1, OfferFacts, MarketFacts DEF Books!States
<1> QED BY <1>2, <1>3, <1>4, OfferAnswered

LEMMA MissOfferSound ==
    ASSUME BooksInv, NEW l \in Books!Lanes, Books!MissOffer(l)
    PROVE  BooksInv'
<1>1. Books!Answers(l, "failed") /\ doing' = doing /\ Books!Working("reconcile")
  BY DEF Books!MissOffer
<1>2. "failed" # Blank
  BY MarketFacts
<1> QED BY <1>1, <1>2, OfferAnswered

\* A read that is rejected answers nothing any more.
LEMMA RejectedSound ==
    ASSUME BooksInv, doing' = "rejected", LanesSound',
           watched' = watched, pushedOut' = pushedOut, heardOf' = heardOf, fate' = fate,
           overdue' = overdue, unlisted' = unlisted, seenOpen' = seenOpen, joined' = joined
    PROVE  BooksInv'
<1>1. DirectorySound /\ OffersSound /\ Replied
  BY InvParts
<1>2. ~Books!Pending'
  BY DEF Books!Pending
<1>3. DirectorySound' /\ OffersSound'
  BY <1>1, <1>2, MarketRests
<1>4. Replied'
  BY <1>1, NothingReplied
<1> QED BY <1>3, <1>4 DEF BooksInv, AskedFor, OnRoster, OnWalk, OnConvert, OnReconcile

LEMMA ConvertFailsSound ==
    ASSUME BooksInv, NEW l \in Books!Lanes, Books!ConvertFails(l)
    PROVE  BooksInv'
<1>1. /\ doing' = "rejected" /\ lane' = [lane EXCEPT ![l] = 0]
      /\ watched' = watched /\ pushedOut' = pushedOut /\ heardOf' = heardOf /\ fate' = fate
      /\ overdue' = overdue /\ unlisted' = unlisted /\ seenOpen' = seenOpen /\ joined' = joined
      /\ items' = items /\ upcoming' = upcoming /\ results' = results
  BY DEF Books!ConvertFails, Books!directory, Books!chain, Books!history
<1>2. LanesSound
  BY InvParts
<1>3. /\ Books!IsList(items) /\ DOMAIN results = DOMAIN items
      /\ upcoming \in Nat \ {0} /\ lane \in [Books!Lanes -> Nat]
      /\ \A k \in Books!Lanes : lane[k] <= Len(items) /\ lane[k] < upcoming
      /\ \A k, m \in Books!Lanes : lane[k] # 0 /\ k # m => lane[k] # lane[m]
  BY <1>2 DEF LanesSound
<1>4. lane' \in [Books!Lanes -> Nat] /\ \A k \in Books!Lanes : lane'[k] = IF k = l THEN 0 ELSE lane[k]
  BY <1>1, <1>3
<1>5. 0 <= Len(items) /\ 0 < upcoming
  BY <1>3 DEF Books!IsList
<1>6. \A k \in Books!Lanes : lane'[k] <= Len(items') /\ lane'[k] < upcoming'
  BY <1>1, <1>3, <1>4, <1>5
<1>7. \A k, m \in Books!Lanes : lane'[k] # 0 /\ k # m => lane'[k] # lane'[m]
  BY <1>3, <1>4
<1>8. ~Books!Pending'
  BY <1>1 DEF Books!Pending
<1>9. LanesSound'
  BY <1>1, <1>3, <1>4, <1>6, <1>7, <1>8 DEF LanesSound
<1> QED BY <1>1, <1>9, RejectedSound

LEMMA AbortSound ==
    ASSUME BooksInv, Books!Abort
    PROVE  BooksInv'
<1>1. /\ doing' = "rejected" /\ lane' = lane /\ items' = items /\ upcoming' = upcoming
      /\ results' = results
      /\ watched' = watched /\ pushedOut' = pushedOut /\ heardOf' = heardOf /\ fate' = fate
      /\ overdue' = overdue /\ unlisted' = unlisted /\ seenOpen' = seenOpen /\ joined' = joined
  BY DEF Books!Abort, Books!directory, Books!chain, Books!history, Books!lanes
<1>2. LanesSound
  BY InvParts
<1>3. ~Books!Pending'
  BY <1>1 DEF Books!Pending
<1>4. LanesSound'
  BY <1>1, <1>2, <1>3 DEF LanesSound
<1> QED BY <1>1, <1>4, RejectedSound

-----------------------------------------------------------------------------
(* Where a stage ends.                                                     *)

LEMMA NoMoreThanPlaces ==
    ASSUME NEW n \in Nat, NEW list, NEW lost \in SUBSET (1 .. n)
    PROVE  /\ IsFiniteSet({list[i] : i \in lost})
           /\ Cardinality({list[i] : i \in lost}) <= n
<1>1. IsFiniteSet(1 .. n) /\ Cardinality(1 .. n) = n
  <2>1. IsFiniteSet(1 .. n) /\ Cardinality(1 .. n) = IF 1 > n THEN 0 ELSE n - 1 + 1
    BY FS_Interval
  <2>2. (IF 1 > n THEN 0 ELSE n - 1 + 1) = n
    OBVIOUS
  <2> QED BY <2>1, <2>2
<1>2. IsFiniteSet(lost) /\ Cardinality(lost) <= n /\ Cardinality(lost) \in Nat
  BY <1>1, FS_Subset, FS_CardinalityType
<1>3. PICK T : T = {list[i] : i \in lost}
  OBVIOUS
<1>4. PICK f \in Surjection(lost, T) : TRUE
  <2>1. [i \in lost |-> list[i]] \in Surjection(lost, T)
    BY <1>3 DEF Surjection
  <2> QED BY <2>1
<1>5. IsFiniteSet(T) /\ Cardinality(T) <= Cardinality(lost)
  BY <1>2, <1>4, FS_Surjection
<1>6. Cardinality(T) \in Nat
  BY <1>5, FS_CardinalityType
<1>7. Cardinality(T) <= n
  BY <1>2, <1>5, <1>6
<1> QED BY <1>3, <1>5, <1>7

LEMMA EndWalkSound ==
    ASSUME BooksInv, Books!EndWalk
    PROVE  BooksInv'
<1>1. PICK lost \in SUBSET DOMAIN items : lost = {i \in DOMAIN items : ~results[i].ok}
  OBVIOUS
<1>2. PICK rows : rows = UNION {results[i].rows : i \in DOMAIN items \ lost}
  OBVIOUS
<1>3. PICK list : list = {h \in rows : Books!Belongs(h, want.asset)}
  OBVIOUS
<1>4. PICK F : F = {items[i] : i \in lost}
  OBVIOUS
<1>5. PICK f \in [F -> {{"unread"}}] : f = [a \in F |-> {"unread"}]
  OBVIOUS
<1>6. PICK cut : cut = {items[i] : i \in {j \in DOMAIN items \ lost : Books!Full(results[j].rows)}}
  OBVIOUS
<1>7. /\ doing = "walk" /\ Books!Quiet /\ doing' = "convert"
      /\ reach' = Books!Coverage(reach.asked, f, cut, reach.dropped, reach.skipped)
      /\ Books!Launch(Books!Rising(list))
      /\ want' = [want EXCEPT !.stage = "convert"]
      /\ watched' = watched /\ pushedOut' = pushedOut /\ heardOf' = heardOf /\ fate' = fate
      /\ overdue' = overdue /\ unlisted' = unlisted /\ seenOpen' = seenOpen
      /\ calledOff' = calledOff /\ joined' = joined
  BY <1>1, <1>2, <1>3, <1>4, <1>5, <1>6 DEF Books!EndWalk, Books!directory, Books!chain, Books!history
<1>8. DirectorySound /\ OffersSound /\ LanesSound /\ AskedFor /\ OnWalk /\ Replied
  BY InvParts
<1>9. Books!Pending /\ ~calledOff
  BY <1>7, <1>8 DEF LanesSound, Books!Pending
<1>10. /\ reach.asked = Len(items) /\ reach.dropped \in Nat
       /\ reach.dropped = 0 => unlisted \subseteq Books!By(Books!Bag(items))
       /\ \A i \in DOMAIN items : results[i] = Blank \/ ChainIsRead(i)
  BY <1>7, <1>8 DEF OnWalk
<1>11. \A i \in DOMAIN items : results[i] # Blank
  BY <1>7, <1>8, <1>9, QuietIsDone
<1>12. ASSUME NEW i \in DOMAIN items PROVE ChainIsRead(i)
  BY <1>10, <1>11
<1>13. PICK n \in Nat : n = Len(items) /\ DOMAIN items = 1 .. n
  BY <1>8 DEF LanesSound, Books!IsList
<1>14. rows \subseteq seenOpen
  BY <1>2, <1>12 DEF ChainIsRead
<1>15. list \in SUBSET seenOpen /\ seenOpen \in SUBSET Books!Hashes
  BY <1>3, <1>8, <1>14, OfferFacts
<1>16. list \in SUBSET Nat /\ IsFiniteSet(list)
  <2>1. list \in SUBSET Books!Hashes
    BY <1>15
  <2> QED BY <2>1, MarketFacts, FS_Subset
<1>a. PICK m \in Nat : m = Cardinality(list)
  BY <1>16, RisingIs
<1>17. PICK s \in Bijection(1 .. m, list) : s = Books!Rising(list)
  BY <1>16, <1>a, RisingIs
<1>18. DOMAIN s = 1 .. m /\ Books!Bag(s) = list
  BY DEF Bijection, Injection, Surjection, Books!Bag
<1>19. Len(s) = m /\ Books!IsList(s)
  <2>1. s \in [1 .. m -> list]
    BY DEF Bijection, Injection
  <2>2. s \in Seq(list)
    BY <2>1, SeqDef
  <2>3. Len(s) \in Nat /\ DOMAIN s = 1 .. Len(s)
    BY <2>2, LenProperties
  <2>4. Len(s) = m
    BY <1>18, <2>3
  <2> QED BY <2>3, <2>4 DEF Books!IsList
<1>20. LanesSound' /\ items' = s
  BY <1>7, <1>9, <1>17, <1>19, LaunchSound
<1>21. DirectorySound' /\ OffersSound'
  BY <1>7, <1>8, <1>9, MarketRests
<1>22. SoundReach(reach')
  <2>1. lost \in SUBSET (1 .. n)
    BY <1>13
  <2>2. IsFiniteSet(F) /\ Cardinality(F) <= n
    BY <1>4, <2>1, NoMoreThanPlaces
  <2>3. PICK d \in Nat : d = reach.dropped
    BY <1>10
  <2>4. PICK k : k = reach.skipped
    OBVIOUS
  <2>5. SoundReach(Books!Coverage(n, f, cut, d, k))
    BY <2>2, CoverageSound
  <2> QED BY <1>7, <1>10, <1>13, <2>3, <2>4, <2>5
<1>23. ASSUME reach'.complete PROVE unlisted \subseteq list
  <2>1. f = <<>> /\ cut = {} /\ reach.dropped = 0
    <3>1. PICK a, d, k : a = reach.asked /\ d = reach.dropped /\ k = reach.skipped
      OBVIOUS
    <3>2. reach' = Books!Coverage(a, f, cut, d, k)
      BY <1>7, <3>1
    <3>3. reach'.complete = (f = <<>> /\ cut = {} /\ d = 0 /\ k = {})
      BY <3>2, CoverageParts
    <3> QED BY <1>23, <3>1, <3>3
  <2>2. F = {}
    <3>1. DOMAIN f = F /\ DOMAIN <<>> = {}
      OBVIOUS
    <3> QED BY <2>1, <3>1
  <2>3. lost = {}
    BY <1>4, <2>2
  <2> SUFFICES ASSUME NEW h \in unlisted PROVE h \in list
    OBVIOUS
  <2>4. PICK i \in DOMAIN items : h \in Books!By({items[i]})
    <3>1. h \in Books!By(Books!Bag(items))
      BY <1>10, <2>1
    <3> QED BY <3>1 DEF Books!By, Books!Bag
  <2>5. ~Books!Full(results[i].rows) /\ results[i].ok
    <3>1. i \in DOMAIN items \ lost
      BY <2>3
    <3>2. Books!Full(results[i].rows) => items[i] \in cut
      BY <1>6, <3>1
    <3> QED BY <1>1, <2>1, <3>1, <3>2
  <2>6. \/ Cardinality(results[i].rows) >= want.limit
        \/ unlisted \cap Books!By({items[i]}) \subseteq results[i].rows
    BY <1>12, <2>5 DEF ChainIsRead
  <2>7. ~(Cardinality(results[i].rows) >= want.limit)
    BY <2>5, SameCount DEF Books!Full
  <2>8. h \in results[i].rows
    BY <2>4, <2>6, <2>7
  <2>9. h \in rows
    BY <1>2, <2>3, <2>8
  <2>10. Books!Belongs(h, want.asset)
    BY <1>7, <1>8 DEF AskedFor
  <2> QED BY <1>3, <2>9, <2>10
<1>24. AskedFor'
  <2>1. /\ want.limit \in Nat \ {0} /\ want.source \in Rosters \cup {Blank}
        /\ \A h \in unlisted : Books!Belongs(h, want.asset) /\ Books!Shown(h)
    BY <1>7, <1>8 DEF AskedFor
  <2>2. /\ want'.limit = want.limit /\ want'.source = want.source /\ want'.asset = want.asset
        /\ want'.expired = want.expired /\ want'.mine = want.mine
    BY <1>7
  <2>3. ASSUME NEW h \in unlisted' PROVE Books!Belongs(h, want'.asset) /\ Books!Shown(h)'
    <3>1. Books!Belongs(h, want.asset) /\ Books!Shown(h)
      BY <1>7, <2>1
    <3>2. Books!Expired(h)' <=> Books!Expired(h)
      BY <1>7 DEF Books!Expired, Books!Expires
    <3>3. Books!Shown(h)'
      BY <2>2, <3>1, <3>2 DEF Books!Shown
    <3> QED BY <2>2, <3>1, <3>3
  <2> QED BY <2>1, <2>2, <2>3 DEF AskedFor, Books!Belongs, Books!Sells, Books!Buys
<1>25. OnConvert'
  <2>1. Books!Bag(items') \subseteq seenOpen'
    BY <1>7, <1>15, <1>18, <1>20
  <2>2. SoundReach(reach)'
    BY <1>22 DEF SoundReach
  <2>3. reach'.complete => unlisted' \subseteq Books!Bag(items')
    BY <1>7, <1>18, <1>20, <1>23
  <2> QED BY <2>1, <2>2, <2>3 DEF OnConvert, Books!Bag
<1>26. Replied'
  BY <1>7, <1>8, NothingReplied
<1>27. OnRoster' /\ OnWalk' /\ OnReconcile'
  BY <1>7 DEF OnRoster, OnWalk, OnReconcile
<1> QED BY <1>7, <1>20, <1>21, <1>24, <1>25, <1>26, <1>27 DEF BooksInv

-----------------------------------------------------------------------------
(* The book.                                                               *)

\* Fractions in order, those of one worth by their numbers.
LEMMA FractionLines ==
    ASSUME NEW X \in SUBSET Nat, NEW num \in [X -> Nat], NEW den \in [X -> Nat \ {0}], NEW R,
           \A g, h \in X : <<g, h>> \in R <=>
               \/ num[g] * den[h] < num[h] * den[g]
               \/ num[g] * den[h] = num[h] * den[g] /\ g < h
    PROVE  Lines(X, R)
<1>1. \A g, h \in X : num[g] * den[h] \in Nat
  <2> SUFFICES ASSUME NEW g \in X, NEW h \in X PROVE num[g] * den[h] \in Nat
    OBVIOUS
  <2>1. PICK a \in Nat, b \in Nat : a = num[g] /\ b = den[h]
    OBVIOUS
  <2>2. a * b \in Nat
    OBVIOUS
  <2> QED BY <2>1, <2>2
<1>2. \A x \in X : <<x, x>> \notin R
  BY <1>1
<1>3. \A x, y \in X : x # y => <<x, y>> \in R \/ <<y, x>> \in R
  BY <1>1
<1>4. ASSUME NEW g \in X, NEW h \in X, NEW i \in X, <<g, h>> \in R, <<h, i>> \in R
      PROVE  <<g, i>> \in R
  <2>1. PICK a \in Nat, b \in Nat \ {0} : a = num[g] /\ b = den[g]
    OBVIOUS
  <2>2. PICK c \in Nat, d \in Nat \ {0} : c = num[h] /\ d = den[h]
    OBVIOUS
  <2>3. PICK e \in Nat, f \in Nat \ {0} : e = num[i] /\ f = den[i]
    OBVIOUS
  <2>4. a * d < c * b \/ (a * d = c * b /\ g < h)
    BY <1>4, <2>1, <2>2
  <2>5. c * f < e * d \/ (c * f = e * d /\ h < i)
    BY <1>4, <2>2, <2>3
  <2>6. <<g, i>> \in R <=> a * f < e * b \/ (a * f = e * b /\ g < i)
    BY <2>1, <2>3
  <2>7. a * d \in Nat /\ c * b \in Nat /\ c * f \in Nat /\ e * d \in Nat /\ a * f \in Nat /\ e * b \in Nat
    OBVIOUS
  <2>8. a * d <= c * b /\ c * f <= e * d
    BY <2>4, <2>5, <2>7
  <2>9. /\ a * f <= e * b
        /\ a * f = e * b => a * d = c * b /\ c * f = e * d
    BY <2>8, CrosswiseOrder
  <2>10. a * f = e * b => g < h /\ h < i
    BY <2>4, <2>5, <2>7, <2>9
  <2>11. g < h /\ h < i => g < i
    OBVIOUS
  <2> QED BY <2>6, <2>7, <2>9, <2>10, <2>11
<1> QED BY <1>2, <1>3, <1>4 DEF Lines

LEMMA BooksTens == Books!Tens = Tens
BY DEF Books!Tens, Tens

\* What a price is made of.
LEMMA PriceIs ==
    ASSUME NEW h \in Books!Hashes
    PROVE  /\ Books!Worth(h).quote \in Nat \ {0} /\ Books!Worth(h).base \in Nat \ {0}
           /\ Tens[Digits[Books!Worth(h).of]] \in Nat \ {0} /\ Tens[Digits[Unit]] \in Nat \ {0}
           /\ Books!Price(h).num = Books!Worth(h).quote * Tens[Digits[Books!Worth(h).of]]
           /\ Books!Price(h).den = Books!Worth(h).base * Tens[Digits[Unit]]
<1>1. /\ Lot[h].amount \in Nat \ {0} /\ Lot[h].wantAmount \in Nat \ {0}
      /\ Lot[h].give \in DOMAIN Digits /\ Lot[h].want \in DOMAIN Digits
      /\ \A asset \in DOMAIN Digits : Digits[asset] \in Nat
      /\ Unit \in DOMAIN Digits
  BY BooksAssumption DEF Books!ReadsAssumption
<1>2. Tens[Digits[Lot[h].give]] \in Nat \ {0} /\ Tens[Digits[Lot[h].want]] \in Nat \ {0}
      /\ Tens[Digits[Unit]] \in Nat \ {0}
  BY <1>1, TensType
<1>3. CASE Books!Sells(h)
  BY <1>1, <1>2, <1>3, BooksTens DEF Books!Worth, Books!Price, Books!Scaled
<1>4. CASE ~Books!Sells(h)
  BY <1>1, <1>2, <1>4, BooksTens DEF Books!Worth, Books!Price, Books!Scaled
<1> QED BY <1>3, <1>4

\* Crosswise, prices compare as costs do.
LEMMA CostsCompare ==
    ASSUME NEW g \in Books!Hashes, NEW h \in Books!Hashes
    PROVE  /\ Books!Price(g).num \in Nat \ {0} /\ Books!Price(g).den \in Nat \ {0}
           /\ Books!Price(h).num \in Nat \ {0} /\ Books!Price(h).den \in Nat \ {0}
           /\ Books!Cost(g, h) \in Nat /\ Books!Cost(h, g) \in Nat
           /\ Books!Price(g).num * Books!Price(h).den <= Books!Price(h).num * Books!Price(g).den
              => Books!Cost(g, h) <= Books!Cost(h, g)
<1>1. PICK q \in Nat \ {0}, b \in Nat \ {0}, t \in Nat \ {0}, u \in Nat \ {0} :
        /\ q = Books!Worth(g).quote /\ b = Books!Worth(g).base
        /\ t = Tens[Digits[Books!Worth(g).of]] /\ u = Tens[Digits[Unit]]
  BY PriceIs
<1>2. PICK r \in Nat \ {0}, c \in Nat \ {0}, v \in Nat \ {0} :
        /\ r = Books!Worth(h).quote /\ c = Books!Worth(h).base
        /\ v = Tens[Digits[Books!Worth(h).of]]
  BY PriceIs
<1>3. /\ Books!Price(g).num = q * t /\ Books!Price(g).den = b * u
      /\ Books!Price(h).num = r * v /\ Books!Price(h).den = c * u
  BY <1>1, <1>2, PriceIs
<1>4. Books!Cost(g, h) = q * c * t /\ Books!Cost(h, g) = r * b * v
  BY <1>1, <1>2, BooksTens DEF Books!Cost
<1>5. q * t \in Nat \ {0} /\ b * u \in Nat \ {0} /\ r * v \in Nat \ {0} /\ c * u \in Nat \ {0}
  OBVIOUS
<1>6. q * c * t \in Nat /\ r * b * v \in Nat
  OBVIOUS
<1>7. (q * t) * (c * u) = (q * c * t) * u /\ (r * v) * (b * u) = (r * b * v) * u
  OBVIOUS
<1>8. \A m, n \in Nat : \A k \in Nat \ {0} : m * k <= n * k => m <= n
  OBVIOUS
<1> QED BY <1>3, <1>4, <1>5, <1>6, <1>7, <1>8

\* A side of the book: every offer of it once, the best first.
LEMMA SideIs ==
    ASSUME NEW X \in SUBSET Books!Hashes
    PROVE  /\ LET asks == Books!Sorted(X, {p \in X \X X : Books!Ascending(p[1], p[2])})
              IN  /\ Books!Bag(asks) = X
                  /\ \A i \in DOMAIN asks : Books!Cost(asks[1], asks[i]) <= Books!Cost(asks[i], asks[1])
           /\ LET bids == Books!Sorted(X, {p \in X \X X : Books!Descending(p[1], p[2])})
              IN  /\ Books!Bag(bids) = X
                  /\ \A i \in DOMAIN bids : Books!Cost(bids[1], bids[i]) >= Books!Cost(bids[i], bids[1])
<1>1. X \in SUBSET Nat /\ IsFiniteSet(X)
  BY MarketFacts, FS_Subset
<1>2. PICK num \in [X -> Nat \ {0}], den \in [X -> Nat \ {0}] :
         \A h \in X : num[h] = Books!Price(h).num /\ den[h] = Books!Price(h).den
  <2>1. \A h \in X : Books!Price(h).num \in Nat \ {0} /\ Books!Price(h).den \in Nat \ {0}
    BY CostsCompare
  <2>2. /\ [h \in X |-> Books!Price(h).num] \in [X -> Nat \ {0}]
        /\ [h \in X |-> Books!Price(h).den] \in [X -> Nat \ {0}]
    BY <2>1
  <2> QED BY <2>2
<1>3. num \in [X -> Nat] /\ den \in [X -> Nat]
  OBVIOUS
<1>4. ASSUME NEW g \in X, NEW h \in X
      PROVE  /\ Books!Ascending(g, h) <=> \/ num[g] * den[h] < num[h] * den[g]
                                          \/ num[g] * den[h] = num[h] * den[g] /\ g < h
             /\ Books!Descending(g, h) <=> \/ den[g] * num[h] < den[h] * num[g]
                                           \/ den[g] * num[h] = den[h] * num[g] /\ g < h
  <2>1. PICK a \in Nat, b \in Nat, c \in Nat, d \in Nat :
           a = num[g] /\ b = den[g] /\ c = num[h] /\ d = den[h]
    BY <1>3
  <2>2. /\ Books!Compare(Books!Price(g), Books!Price(h)) = a * d - c * b
        /\ Books!Compare(Books!Price(h), Books!Price(g)) = c * b - a * d
    BY <1>2, <2>1 DEF Books!Compare
  <2>3. PICK m \in Nat, n \in Nat : m = a * d /\ n = c * b
    OBVIOUS
  <2>4. /\ (m - n < 0 <=> m < n) /\ (m - n = 0 <=> m = n)
        /\ (n - m < 0 <=> n < m) /\ (n - m = 0 <=> n = m)
    OBVIOUS
  <2>5. b * c = n /\ d * a = m
    BY <2>3
  <2>6. Books!Ascending(g, h) <=> m < n \/ (m = n /\ g < h)
    BY <2>2, <2>3, <2>4 DEF Books!Ascending
  <2>7. Books!Descending(g, h) <=> n < m \/ (n = m /\ g < h)
    BY <2>2, <2>3, <2>4 DEF Books!Descending
  <2> QED BY <2>1, <2>3, <2>5, <2>6, <2>7
<1>5. PICK U : U = {p \in X \X X : Books!Ascending(p[1], p[2])}
  OBVIOUS
<1>6. PICK D : D = {p \in X \X X : Books!Descending(p[1], p[2])}
  OBVIOUS
<1>7. \A g, h \in X : (<<g, h>> \in U <=> Books!Ascending(g, h)) /\ (<<g, h>> \in D <=> Books!Descending(g, h))
  BY <1>5, <1>6
<1>8. Lines(X, U)
  <2>1. \A g, h \in X : <<g, h>> \in U <=> \/ num[g] * den[h] < num[h] * den[g]
                                           \/ num[g] * den[h] = num[h] * den[g] /\ g < h
    BY <1>4, <1>7
  <2> QED BY <1>1, <1>3, <2>1, FractionLines
<1>9. Lines(X, D)
  <2>1. \A g, h \in X : <<g, h>> \in D <=> \/ den[g] * num[h] < den[h] * num[g]
                                           \/ den[g] * num[h] = den[h] * num[g] /\ g < h
    BY <1>4, <1>7
  <2> QED BY <1>1, <1>3, <2>1, FractionLines
<1>10. PICK k \in Nat : k = Cardinality(X)
  BY <1>1, FS_CardinalityType
<1>11. ASSUME NEW i \in 1 .. k PROVE 1 \in 1 .. k /\ (i = 1 \/ 1 < i)
  BY <1>10
<1>12. ASSUME NEW g \in X, NEW h \in X, g = h \/ <<g, h>> \in U
       PROVE  Books!Cost(g, h) <= Books!Cost(h, g)
  <2>1. Books!Cost(g, h) \in Nat
    BY CostsCompare
  <2>2. CASE g = h
    BY <2>1, <2>2
  <2>3. CASE <<g, h>> \in U
    <3>1. PICK a \in Nat, b \in Nat, c \in Nat, d \in Nat :
             a = num[g] /\ b = den[g] /\ c = num[h] /\ d = den[h]
      BY <1>3
    <3>2. a * d <= c * b
      BY <1>4, <1>7, <2>3, <3>1
    <3> QED BY <1>2, <3>1, <3>2, CostsCompare
  <2> QED BY <1>12, <2>2, <2>3
<1>13. ASSUME NEW g \in X, NEW h \in X, g = h \/ <<g, h>> \in D
       PROVE  Books!Cost(g, h) >= Books!Cost(h, g)
  <2>1. Books!Cost(g, h) \in Nat /\ Books!Cost(h, g) \in Nat
    BY CostsCompare
  <2>2. CASE g = h
    BY <2>1, <2>2
  <2>3. CASE <<g, h>> \in D
    <3>1. PICK a \in Nat, b \in Nat, c \in Nat, d \in Nat :
             a = num[g] /\ b = den[g] /\ c = num[h] /\ d = den[h]
      BY <1>3
    <3>2. b * c <= d * a
      BY <1>4, <1>7, <2>3, <3>1
    <3>3. c * b <= a * d
      BY <3>2
    <3>4. Books!Cost(h, g) <= Books!Cost(g, h)
      BY <1>2, <3>1, <3>3, CostsCompare
    <3> QED BY <2>1, <3>4
  <2> QED BY <1>13, <2>2, <2>3
<1>14. ASSUME NEW s \in Bijection(1 .. k, X)
       PROVE  DOMAIN s = 1 .. k /\ Books!Bag(s) = X /\ \A i \in 1 .. k : s[i] \in X
  BY DEF Bijection, Injection, Surjection, Books!Bag
<1>15. PICK asks \in Bijection(1 .. k, X) :
          /\ asks = Books!Sorted(X, U)
          /\ \A i, j \in 1 .. k : i < j => <<asks[i], asks[j]>> \in U
  BY <1>1, <1>8, <1>10, SortedIs
<1>16. PICK bids \in Bijection(1 .. k, X) :
          /\ bids = Books!Sorted(X, D)
          /\ \A i, j \in 1 .. k : i < j => <<bids[i], bids[j]>> \in D
  BY <1>1, <1>9, <1>10, SortedIs
<1>17. \A i \in DOMAIN asks : Books!Cost(asks[1], asks[i]) <= Books!Cost(asks[i], asks[1])
  <2> SUFFICES ASSUME NEW i \in 1 .. k
               PROVE  Books!Cost(asks[1], asks[i]) <= Books!Cost(asks[i], asks[1])
    BY <1>14
  <2>1. asks[1] \in X /\ asks[i] \in X /\ (asks[1] = asks[i] \/ <<asks[1], asks[i]>> \in U)
    BY <1>11, <1>14, <1>15
  <2> QED BY <1>12, <2>1
<1>18. \A i \in DOMAIN bids : Books!Cost(bids[1], bids[i]) >= Books!Cost(bids[i], bids[1])
  <2> SUFFICES ASSUME NEW i \in 1 .. k
               PROVE  Books!Cost(bids[1], bids[i]) >= Books!Cost(bids[i], bids[1])
    BY <1>14
  <2>1. bids[1] \in X /\ bids[i] \in X /\ (bids[1] = bids[i] \/ <<bids[1], bids[i]>> \in D)
    BY <1>11, <1>14, <1>16
  <2> QED BY <1>13, <2>1
<1>19. Books!Bag(asks) = X /\ Books!Bag(bids) = X
  BY <1>14
<1> QED BY <1>5, <1>6, <1>15, <1>16, <1>17, <1>18, <1>19

LEMMA EndBookSound ==
    ASSUME BooksInv, Books!EndBook
    PROVE  BooksInv'
<1>1. PICK rows : rows = Books!Bag(items)
  OBVIOUS
<1>2. /\ doing = "convert" /\ Books!Quiet /\ doing' = "done" /\ Books!Rest
      /\ reply' = Books!Book(rows)
      /\ joined' = IF joined = Blank THEN reach
                   ELSE IF Books!Mergeable(joined, reach) THEN Books!Merge(joined, reach)
                   ELSE joined
      /\ watched' = watched /\ pushedOut' = pushedOut /\ heardOf' = heardOf /\ fate' = fate
      /\ overdue' = overdue /\ unlisted' = unlisted /\ seenOpen' = seenOpen
      /\ want' = want /\ reach' = reach
  BY <1>1 DEF Books!EndBook, Books!directory, Books!chain, Books!history, Books!Bag
<1>3. DirectorySound /\ OffersSound /\ LanesSound /\ AskedFor /\ OnConvert /\ Replied
  BY InvParts
<1>4. ~Books!Pending'
  BY <1>2 DEF Books!Pending
<1>5. DirectorySound' /\ OffersSound' /\ LanesSound'
  BY <1>2, <1>3, <1>4, MarketRests, RestSound
<1>6. rows \in SUBSET Books!Hashes /\ rows \subseteq seenOpen /\ SoundReach(reach)
      /\ (reach.complete => unlisted \subseteq rows)
  BY <1>1, <1>2, <1>3, OfferFacts DEF OnConvert
<1>7. \A h \in unlisted : Books!Shown(h)
  BY <1>2, <1>3 DEF AskedFor
<1>8. PICK shown \in SUBSET Books!Hashes : shown = {h \in rows : Books!Shown(h)}
  BY <1>6
<1>9. PICK A \in SUBSET Books!Hashes : A = {h \in shown : Books!Sells(h)}
  OBVIOUS
<1>10. PICK B \in SUBSET Books!Hashes : B = {h \in shown : Books!Buys(h)}
  OBVIOUS
<1>11. PICK O : O = {h \in shown : ~Books!Sells(h) /\ ~Books!Buys(h)}
  OBVIOUS
<1>12. PICK asks : asks = Books!Sorted(A, {p \in A \X A : Books!Ascending(p[1], p[2])})
  OBVIOUS
<1>13. PICK bids : bids = Books!Sorted(B, {p \in B \X B : Books!Descending(p[1], p[2])})
  OBVIOUS
<1>14. reply' = [kind |-> "book", asks |-> asks, bids |-> bids, other |-> O]
  BY <1>2, <1>8, <1>9, <1>10, <1>11, <1>12, <1>13 DEF Books!Book
<1>15. reply'.kind = "book" /\ reply'.asks = asks /\ reply'.bids = bids /\ reply'.other = O
  BY <1>14
<1>16. /\ Books!Bag(asks) = A
       /\ \A i \in DOMAIN asks : Books!Cost(asks[1], asks[i]) <= Books!Cost(asks[i], asks[1])
  BY <1>12, SideIs
<1>17. /\ Books!Bag(bids) = B
       /\ \A i \in DOMAIN bids : Books!Cost(bids[1], bids[i]) >= Books!Cost(bids[i], bids[1])
  BY <1>13, SideIs
<1>18. Books!Listed' = shown
  <2>1. Books!Listed' = Books!Bag(asks) \cup Books!Bag(bids) \cup O
    BY <1>15 DEF Books!Listed, Books!Bag
  <2> QED BY <1>9, <1>10, <1>11, <1>16, <1>17, <2>1
<1>19. Books!CompleteMeansComplete'
  <2>1. reach'.complete => unlisted' \subseteq Books!Listed'
    BY <1>2, <1>6, <1>7, <1>8, <1>18
  <2>2. Books!Listed' \subseteq seenOpen'
    BY <1>2, <1>6, <1>8, <1>18
  <2> QED BY <2>1, <2>2 DEF Books!CompleteMeansComplete
<1>20. Books!BestIsBest'
  BY <1>15, <1>16, <1>17 DEF Books!BestIsBest
<1>21. Books!ReconciledTruly'
  BY <1>15 DEF Books!ReconciledTruly
<1>22. joined # Blank => SoundReach(joined)
  BY <1>3 DEF Replied
<1>23. /\ SoundReach(joined')
       /\ reach.asked = joined'.asked =>
            /\ joined'.complete => reach.complete
            /\ Books!Mergeable(joined', reach) => DOMAIN reach.failed \subseteq DOMAIN joined'.failed
  <2>1. CASE joined = Blank
    BY <1>2, <1>6, <2>1
  <2>2. CASE joined # Blank /\ Books!Mergeable(joined, reach)
    <3>1. /\ SoundReach(Books!Merge(joined, reach))
          /\ DOMAIN Books!Merge(joined, reach).failed = DOMAIN joined.failed \cup DOMAIN reach.failed
          /\ Books!Merge(joined, reach).complete => reach.complete
      BY <1>6, <1>22, <2>2, MergeIs
    <3>2. joined' = Books!Merge(joined, reach)
      BY <1>2, <2>2
    <3> QED BY <3>1, <3>2
  <2>3. CASE joined # Blank /\ ~Books!Mergeable(joined, reach)
    <3>1. joined' = joined /\ SoundReach(joined)
      BY <1>2, <1>22, <2>3
    <3>2. ASSUME reach.asked = joined.asked, joined.complete PROVE FALSE
      <4>1. DOMAIN joined.failed = {}
        BY <3>1, <3>2, ReachIs
      <4>2. DOMAIN joined.failed \cup DOMAIN reach.failed = DOMAIN reach.failed
        BY <4>1
      <4>3. Cardinality(DOMAIN reach.failed) <= reach.asked
        BY <1>6 DEF SoundReach
      <4> QED BY <2>3, <3>2, <4>2, <4>3, SameCount DEF Books!Mergeable
    <3> QED BY <2>3, <3>1, <3>2
  <2> QED BY <2>1, <2>2, <2>3
<1>24. Books!MergedClaimsNoMore'
  <2>1. Books!Sound(joined')
    BY <1>23, ReachIs
  <2>2. Books!Sound(joined)'
    BY <2>1 DEF Books!Sound
  <2> QED BY <1>2, <1>23, <2>2 DEF Books!MergedClaimsNoMore, Books!Mergeable
<1>25. Replied'
  <2>1. SoundReach(reach)' /\ SoundReach(joined)'
    BY <1>2, <1>6, <1>23 DEF SoundReach
  <2> QED BY <1>15, <1>19, <1>20, <1>21, <1>24, <2>1 DEF Replied
<1>26. AskedFor' /\ OnRoster' /\ OnWalk' /\ OnConvert' /\ OnReconcile'
  BY <1>2 DEF AskedFor, OnRoster, OnWalk, OnConvert, OnReconcile
<1> QED BY <1>2, <1>5, <1>25, <1>26 DEF BooksInv

-----------------------------------------------------------------------------
(* The reconciliation.                                                     *)

\* The hashes of some places of a list.
HashesAt(list, places) == {list[i].hash : i \in places}

LEMMA PlacesApart ==
    ASSUME NEW list, \A i, j \in DOMAIN list : list[i].hash = list[j].hash => i = j,
           NEW P \in SUBSET DOMAIN list, NEW Q \in SUBSET DOMAIN list, P \cap Q = {}
    PROVE  HashesAt(list, P) \cap HashesAt(list, Q) = {}
BY DEF HashesAt

\* Five sets, each apart from the others, in a sequence.
LEMMA FiveApart ==
    ASSUME NEW a, NEW b, NEW c, NEW d, NEW e,
           a \cap b = {}, a \cap c = {}, a \cap d = {}, a \cap e = {}, b \cap c = {},
           b \cap d = {}, b \cap e = {}, c \cap d = {}, c \cap e = {}, d \cap e = {}
    PROVE  /\ UNION Books!Bag(<<a, b, c, d, e>>) = a \cup b \cup c \cup d \cup e
           /\ \A i, j \in DOMAIN <<a, b, c, d, e>> :
                i # j => <<a, b, c, d, e>>[i] \cap <<a, b, c, d, e>>[j] = {}
<1>1. PICK w : w = <<a, b, c, d, e>>
  OBVIOUS
<1>2. DOMAIN w = {1, 2, 3, 4, 5}
  <2>1. DOMAIN w = 1 .. 5
    BY <1>1
  <2> QED BY <2>1
<1>3. w[1] = a /\ w[2] = b /\ w[3] = c /\ w[4] = d /\ w[5] = e
  BY <1>1
<1>4. \A i, j \in DOMAIN w : i # j => w[i] \cap w[j] = {}
  BY <1>2, <1>3
<1>5. Books!Bag(w) = {a, b, c, d, e}
  BY <1>2, <1>3 DEF Books!Bag
<1> QED BY <1>1, <1>4, <1>5

LEMMA EndReconcileSound ==
    ASSUME BooksInv, Books!EndReconcile
    PROVE  BooksInv'
<1>1. /\ doing = "reconcile" /\ Books!Quiet /\ doing' = "done" /\ Books!Rest
      /\ reply' = Books!Reconciliation(items, results)
      /\ watched' = watched /\ pushedOut' = pushedOut /\ heardOf' = heardOf /\ fate' = fate
      /\ overdue' = overdue /\ unlisted' = unlisted /\ seenOpen' = seenOpen
      /\ want' = want /\ reach' = reach /\ joined' = joined
  BY DEF Books!EndReconcile, Books!directory, Books!chain, Books!history
<1>2. DirectorySound /\ OffersSound /\ LanesSound /\ OnReconcile /\ Replied
  BY InvParts
<1>3. ~Books!Pending' /\ Books!Pending
  BY <1>1 DEF Books!Pending
<1>4. DirectorySound' /\ OffersSound' /\ LanesSound'
  BY <1>1, <1>2, <1>3, MarketRests, RestSound
<1>5. \A i \in DOMAIN items : results[i] # Blank
  BY <1>1, <1>2, <1>3, QuietIsDone
<1>6. /\ Hashed(items) = Hashed(want.source)
      /\ \A i, j \in DOMAIN items : items[i].hash = items[j].hash => i = j
      /\ \A i \in DOMAIN items : OfferIsRead(i)
  BY <1>1, <1>2 DEF OnReconcile
<1> DEFINE life(i) == Books!Classify(results[i], items[i].hash)
           was(i) == IF items[i].shown = Blank THEN Blank
                     ELSE Books!Classify(items[i].shown, items[i].hash)
<1>7. PICK R \in SUBSET DOMAIN items : R = {i \in DOMAIN items : results[i] \notin {"missing", "failed"}}
  OBVIOUS
<1>8. PICK L \in SUBSET DOMAIN items : L = {i \in R : life(i) \in {"live", "reserved"}}
  OBVIOUS
<1>9. PICK S \in SUBSET DOMAIN items : S = {i \in R : life(i) = "stale"}
  OBVIOUS
<1>10. PICK G \in SUBSET DOMAIN items : G = {i \in R : life(i) \in {"taken", "cancelled"}}
  OBVIOUS
<1>11. PICK C \in SUBSET DOMAIN items : C = {i \in R : was(i) # life(i)}
  OBVIOUS
<1>12. PICK U \in SUBSET DOMAIN items : U = {i \in DOMAIN items : results[i] = "missing"}
  OBVIOUS
<1>13. PICK F \in SUBSET DOMAIN items : F = {i \in DOMAIN items : results[i] = "failed"}
  OBVIOUS
<1>14. reply' = [kind |-> "reconciliation",
                 live |-> HashesAt(items, L), stale |-> HashesAt(items, S),
                 gone |-> HashesAt(items, G), changed |-> HashesAt(items, C),
                 unknown |-> HashesAt(items, U), failed |-> HashesAt(items, F)]
  BY <1>1, <1>7, <1>8, <1>9, <1>10, <1>11, <1>12, <1>13 DEF Books!Reconciliation, HashesAt
<1>15. ASSUME NEW i \in R
       PROVE  /\ results[i] \in Books!States /\ items[i].hash \in Books!Hashes
              /\ IF results[i] = "open" THEN items[i].hash \in seenOpen
                                        ELSE fate[items[i].hash] = results[i]
  BY <1>5, <1>6, <1>7 DEF OfferIsRead
<1>16. ASSUME NEW i \in R
       PROVE  /\ life(i) \in {"taken", "cancelled", "reserved", "stale", "live"}
              /\ life(i) \in {"taken", "cancelled"} <=> results[i] # "open"
  BY <1>15 DEF Books!Classify, Books!States
<1> HIDE DEF life, was
<1>17. /\ L \cap S = {} /\ L \cap G = {} /\ L \cap U = {} /\ L \cap F = {} /\ S \cap G = {}
       /\ S \cap U = {} /\ S \cap F = {} /\ G \cap U = {} /\ G \cap F = {} /\ U \cap F = {}
  BY <1>7, <1>8, <1>9, <1>10, <1>12, <1>13
<1>18. L \cup S \cup G \cup U \cup F = DOMAIN items /\ C \subseteq L \cup S \cup G
  BY <1>7, <1>8, <1>9, <1>10, <1>11, <1>12, <1>13, <1>16
<1>19. PICK a, b, c, d, e : /\ a = HashesAt(items, L) /\ b = HashesAt(items, S)
                            /\ c = HashesAt(items, G) /\ d = HashesAt(items, U)
                            /\ e = HashesAt(items, F)
  OBVIOUS
<1>20. /\ a \cap b = {} /\ a \cap c = {} /\ a \cap d = {} /\ a \cap e = {} /\ b \cap c = {}
       /\ b \cap d = {} /\ b \cap e = {} /\ c \cap d = {} /\ c \cap e = {} /\ d \cap e = {}
  BY <1>6, <1>17, <1>19, PlacesApart
<1>21. a \cup b \cup c \cup d \cup e = Hashed(want.source)
  <2>1. a \cup b \cup c \cup d \cup e = Hashed(items)
    BY <1>18, <1>19 DEF HashesAt, Hashed
  <2> QED BY <1>6, <2>1
<1>22. /\ UNION Books!Bag(<<a, b, c, d, e>>) = Hashed(want.source)
       /\ \A i, j \in DOMAIN <<a, b, c, d, e>> :
            i # j => <<a, b, c, d, e>>[i] \cap <<a, b, c, d, e>>[j] = {}
  BY <1>20, <1>21, FiveApart
<1>23. c \subseteq Books!Hashes /\ \A h \in c : fate[h] # "open"
  <2> SUFFICES ASSUME NEW i \in G
               PROVE  items[i].hash \in Books!Hashes /\ fate[items[i].hash] # "open"
    BY <1>19 DEF HashesAt
  <2>1. i \in R /\ life(i) \in {"taken", "cancelled"}
    BY <1>10
  <2> QED BY <1>15, <1>16, <2>1
<1>24. a \cup b \subseteq seenOpen
  <2> SUFFICES ASSUME NEW i \in L \cup S PROVE items[i].hash \in seenOpen
    BY <1>19 DEF HashesAt
  <2>1. i \in R /\ life(i) \notin {"taken", "cancelled"}
    BY <1>8, <1>9
  <2> QED BY <1>15, <1>16, <2>1
<1>25. HashesAt(items, C) \subseteq a \cup b \cup c
  BY <1>18, <1>19 DEF HashesAt
<1>26. /\ reply'.kind = "reconciliation" /\ reply'.live = a /\ reply'.stale = b /\ reply'.gone = c
       /\ reply'.unknown = d /\ reply'.failed = e /\ reply'.changed = HashesAt(items, C)
  BY <1>14, <1>19
<1>27. Books!ReconciledTruly'
  <2>1. Hashed(want.source) = {want'.source[i].hash : i \in DOMAIN want'.source}
    BY <1>1 DEF Hashed
  <2>2. \A h \in c : ~Books!Open(h)'
    BY <1>1, <1>23 DEF Books!Open
  <2> QED BY <1>1, <1>22, <1>24, <1>25, <1>26, <2>1, <2>2 DEF Books!ReconciledTruly, Books!Bag
<1>28. Books!CompleteMeansComplete' /\ Books!BestIsBest'
  BY <1>26 DEF Books!CompleteMeansComplete, Books!BestIsBest
<1>29. joined # Blank => SoundReach(joined)
  BY <1>2 DEF Replied
<1>30. SoundReach(joined)' <=> SoundReach(joined)
  BY <1>1 DEF SoundReach
<1>31. Books!MergedClaimsNoMore'
  <2>1. joined # Blank => Books!Sound(joined)
    BY <1>29, ReachIs
  <2>2. Books!Sound(joined)' <=> Books!Sound(joined)
    BY <1>1 DEF Books!Sound
  <2> QED BY <1>1, <1>26, <2>1, <2>2 DEF Books!MergedClaimsNoMore
<1>32. Replied'
  BY <1>1, <1>23, <1>26, <1>27, <1>28, <1>29, <1>30, <1>31 DEF Replied
<1>33. AskedFor' /\ OnRoster' /\ OnWalk' /\ OnConvert' /\ OnReconcile'
  BY <1>1 DEF AskedFor, OnRoster, OnWalk, OnConvert, OnReconcile
<1> QED BY <1>1, <1>4, <1>32, <1>33 DEF BooksInv

-----------------------------------------------------------------------------
LEMMA BooksInitSound == Books!Init => BooksInv
<1> SUFFICES ASSUME Books!Init PROVE BooksInv
  OBVIOUS
<1>1. /\ watched = <<>> /\ pushedOut = 0 /\ heardOf = {}
      /\ fate = [h \in Books!Hashes |-> "open"] /\ overdue = FALSE
      /\ doing = "done" /\ items = <<>> /\ upcoming = 1
      /\ lane = [l \in Books!Lanes |-> 0] /\ results = <<>>
      /\ reply = Blank /\ joined = Blank /\ unlisted = {} /\ seenOpen = {}
  BY DEF Books!Init
<1>2. DirectorySound
  <2>1. watched \in Line(Traders) /\ Elems(watched) = {} /\ Len(watched) = 0
    BY <1>1, EmptyLine
  <2>2. 0 <= Watchable
    BY MarketFacts
  <2> QED BY <1>1, <2>1, <2>2 DEF DirectorySound
<1>3. ~Books!Pending
  BY <1>1 DEF Books!Pending
<1>4. OffersSound
  BY <1>1, <1>3 DEF OffersSound, Books!States
<1>5. LanesSound
  <2>1. Len(<<>>) = 0 /\ DOMAIN <<>> = {} /\ 1 .. 0 = {}
    OBVIOUS
  <2>2. Books!IsList(items) /\ DOMAIN results = DOMAIN items /\ Len(items) = 0
    BY <1>1, <2>1 DEF Books!IsList
  <2> QED BY <1>1, <1>3, <2>2 DEF LanesSound
<1>6. AskedFor /\ OnRoster /\ OnWalk /\ OnConvert /\ OnReconcile
  BY <1>1 DEF AskedFor, OnRoster, OnWalk, OnConvert, OnReconcile
<1>7. Replied
  BY <1>1 DEF Replied, Books!CompleteMeansComplete, Books!BestIsBest, Books!ReconciledTruly,
              Books!MergedClaimsNoMore
<1> QED BY <1>1, <1>2, <1>4, <1>5, <1>6, <1>7 DEF BooksInv

LEMMA BooksRest ==
    ASSUME BooksInv, readerVars' = readerVars
    PROVE  BooksInv'
<1>1. /\ doing \in {"done", "roster", "walk", "convert", "rejected", "reconcile"}
      /\ DirectorySound /\ OffersSound /\ LanesSound
      /\ AskedFor /\ OnRoster /\ OnWalk /\ OnConvert /\ OnReconcile /\ Replied
  BY InvParts
<1>2. /\ watched' = watched /\ pushedOut' = pushedOut /\ heardOf' = heardOf /\ fate' = fate
      /\ overdue' = overdue /\ unlisted' = unlisted /\ seenOpen' = seenOpen
      /\ doing' = doing /\ want' = want /\ items' = items /\ upcoming' = upcoming
      /\ lane' = lane /\ results' = results /\ reach' = reach /\ calledOff' = calledOff
      /\ reply' = reply /\ joined' = joined
  BY DEF readerVars
<1>3. DirectorySound' /\ OffersSound' /\ LanesSound' /\ AskedFor'
  BY <1>1, <1>2, MarketRests, AskedStays DEF LanesSound, Books!Pending
<1>4. OnRoster'
  BY <1>1, <1>2 DEF OnRoster, Books!By, Books!Named
<1>5. OnWalk'
  BY <1>1, <1>2 DEF OnWalk, ChainIsRead, Books!By, Books!Bag
<1>6. OnConvert'
  BY <1>1, <1>2 DEF OnConvert, SoundReach, Books!Bag
<1>7. OnReconcile'
  BY <1>1, <1>2 DEF OnReconcile, OfferIsRead
<1>8. Replied'
  <2>1. SoundReach(reach)' <=> SoundReach(reach)
    BY <1>2 DEF SoundReach
  <2>2. SoundReach(joined)' <=> SoundReach(joined)
    BY <1>2 DEF SoundReach
  <2>3. Books!CompleteMeansComplete' <=> Books!CompleteMeansComplete
    BY <1>2 DEF Books!CompleteMeansComplete, Books!Listed, Books!Bag
  <2>4. Books!BestIsBest' <=> Books!BestIsBest
    BY <1>2 DEF Books!BestIsBest
  <2>5. Books!ReconciledTruly' <=> Books!ReconciledTruly
    BY <1>2 DEF Books!ReconciledTruly, Books!Bag, Books!Open
  <2>6. Books!MergedClaimsNoMore' <=> Books!MergedClaimsNoMore
    BY <1>2 DEF Books!MergedClaimsNoMore, Books!Sound, Books!Mergeable
  <2> QED BY <1>1, <1>2, <2>1, <2>2, <2>3, <2>4, <2>5, <2>6 DEF Replied
<1> QED BY <1>1, <1>2, <1>3, <1>4, <1>5, <1>6, <1>7, <1>8 DEF BooksInv

LEMMA BooksNextSound == BooksInv /\ [Books!Next]_readerVars => BooksInv'
<1> SUFFICES ASSUME BooksInv, [Books!Next]_readerVars PROVE BooksInv'
  OBVIOUS
<1>1. ASSUME NEW a \in Traders, Books!Announce(a) \/ Books!Forget(a) PROVE BooksInv'
  BY <1>1, AnnounceSound, ForgetKeeps
<1>2. ASSUME NEW h \in Books!Hashes, NEW s \in {"accepted", "cancelled"}, Books!Settle(h, s)
      PROVE  BooksInv'
  BY <1>2, OfferSettles
<1>3. ASSUME NEW source \in Rosters \cup {Blank}, NEW options \in Asks,
             Books!ReadBook(source, options)
      PROVE  BooksInv'
  BY <1>3, ReadBookSound
<1>4. ASSUME NEW snapshot \in Shots, Books!Reconcile(snapshot) PROVE BooksInv'
  BY <1>4, ReconcileSound
<1>5. ASSUME NEW l \in Books!Lanes, Books!ReadChain(l) \/ Books!Convert(l) \/ Books!ReadOffer(l)
      PROVE  BooksInv'
  BY <1>5, ReadChainSound, ConvertSound, ReadOfferSound
<1>6. ASSUME NEW l \in Books!Lanes,
             Books!MissChain(l) \/ Books!ConvertFails(l) \/ Books!MissOffer(l)
      PROVE  BooksInv'
  BY <1>6, MissChainSound, ConvertFailsSound, MissOfferSound
<1>7. CASE Books!Progress
  BY <1>5, <1>7, RosterSound, EndWalkSound, EndBookSound, EndReconcileSound DEF Books!Progress
<1>8. CASE Books!Clear \/ Books!Pass \/ Books!Abort
  BY <1>8, ClearSound, PassSound, AbortSound
<1>9. CASE readerVars' = readerVars
  BY <1>9, BooksRest
<1> QED BY <1>1, <1>2, <1>3, <1>4, <1>6, <1>7, <1>8, <1>9 DEF Books!Next

LEMMA BooksSound == BooksInv => BooksTrue
<1> SUFFICES ASSUME BooksInv PROVE Books!BooksAreTrue
  BY DEF BooksTrue
<1>1. DirectorySound /\ OffersSound /\ LanesSound /\ Replied
  BY InvParts
<1>2. /\ watched \in Line(Traders) /\ Len(watched) <= Watchable /\ Elems(watched) \subseteq heardOf
  BY <1>1 DEF DirectorySound
<1>3. Books!Bag(watched) = Elems(watched)
  BY <1>2, LineFacts DEF Books!Bag, Elems
<1>4. Books!Cardinality(Books!Bag(watched)) = Len(watched)
  BY <1>2, <1>3, LineCount, SameCount
<1>5. ASSUME NEW l \in Books!Lanes PROVE lane[l] \in 0 .. Len(items)
  BY <1>1 DEF LanesSound, Books!IsList
<1>6. \A k, l \in Books!Lanes : lane[k] # 0 /\ k # l => lane[k] # lane[l]
  BY <1>1 DEF LanesSound
<1>7. Books!Pending /\ Books!Quiet => Blank \notin Books!Bag(results)
  BY <1>1, QuietIsDone DEF LanesSound, Books!Bag
<1>8. unlisted \subseteq Books!Hashes /\ seenOpen \subseteq Books!Hashes
  BY <1>1, OfferFacts
<1>9. Books!TypeOK
  BY <1>2, <1>3, <1>4, <1>5, <1>6, <1>7, <1>8 DEF Books!TypeOK
<1> QED BY <1>1, <1>9 DEF Books!BooksAreTrue, Replied

\* In any market, for any directory and any questions: a book that says it is
\* complete lists every offer that was open all the while, and none that was
\* not; its best is the best; a reconciliation reports every offer once and
\* truly; and merged coverages claim no more than their last part (readBook,
\* reconcileOffers, mergeCoverage).
THEOREM BooksStayTrue == BooksSpec => []BooksTrue
<1>1. Books!Init => BooksInv
  BY BooksInitSound
<1>2. BooksInv /\ [Books!Next]_readerVars => BooksInv'
  BY BooksNextSound
<1>3. BooksInv => BooksTrue
  BY BooksSound
<1> QED BY <1>1, <1>2, <1>3, PTL DEF BooksSpec
=============================================================================
