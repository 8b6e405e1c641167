------------------------------ MODULE ShopProofs ------------------------------
(***************************************************************************)
(* The player's shop, for every value of its constants: entries are those  *)
(* of the actions under way, purses offer only what is free, nothing is    *)
(* spent twice unless its check could not have seen it, and a departure is *)
(* told once.                                                              *)
(*                                                                         *)
(* The argument is about money.  Of an asset the wallet owes what the      *)
(* calls that may still land will cost (Due), and since a balance was read *)
(* it has spent what has landed unseen by that reading and is still being  *)
(* read back (Since).  A reading falls short of the truth by no more than  *)
(* the second (ReadingHolds); so a purse that missed nothing is backed by  *)
(* the balance on top of all that is owed (PurseHolds), and an action that *)
(* was checked against it is (ActionHolds), as long as no call of hidden   *)
(* cost came in between.                                                   *)
(***************************************************************************)
EXTENDS Shop, SumTheorems, SequenceTheorems

-----------------------------------------------------------------------------
(* What the state is.                                                      *)

Ops == {"list", "gift", "buy", "cancel"}
Answers == {"done", "failed", "refused", "overspent", "funds-unreadable",
            "insufficient-balance"}
States == {"none", "open", "stale", "taken", "cancelled"}

WritingPc == {"reading", "measured", "acting", "landed", "adrift"}
SyncingPc == {"collecting", "looking", "found", "asking"}

ReadyCall == [pc : {"ready"}, op : Ops \cup {"sync"}, landed : {FALSE}]

WritingCall ==
    [pc : WritingPc, op : Ops, target : Offers \cup {None}, asset : Assets, raw : Nat,
     price : SUBSET Nat, verify : BOOLEAN, bal : SUBSET Nat, seen : SUBSET Calls,
     missed : SUBSET Calls, landed : BOOLEAN]

SyncCall ==
    [pc : SyncingPc, op : {"sync"}, target : {None}, landed : {FALSE},
     asked : SUBSET Lots, live : SUBSET Lots, gone : SUBSET Lots]

DoneCall ==
    [pc : {"done"}, op : Ops \cup {"sync"}, target : Offers \cup {None}, answer : Answers,
     landed : BOOLEAN, cause : BOOLEAN]

Offer == [seller : {None, "me", "them"}, qty : Nat, price : Nat, state : States]

ShopTyped ==
    /\ balance \in [Assets -> Nat] /\ arrivals \in [Assets -> Nat]
    /\ offers \in [Offers -> Offer]
    /\ call \in [Calls -> ReadyCall \cup WritingCall \cup SyncCall \cup DoneCall]
    /\ inFlight \in Seq(Calls)
    /\ watching \in SUBSET Lots /\ wiped \in SUBSET Lots
    /\ told \in [Lots -> Nat] /\ echoes \in [Lots -> Nat]
    /\ faults \in 0..MaxFaults

Stands(o) == offers[o].state # "none"

-----------------------------------------------------------------------------
(* What a call is.                                                         *)

\* A listing that may still land.
Lister(c) == call[c].pc \in {"reading", "measured", "acting", "adrift"} /\ call[c].op = "list"

\* What a call that writes relies on: a lot of its own until it lands, or an
\* offer that stands.
WritingHolds(c) ==
    /\ call[c].landed = (call[c].pc = "landed")
    /\ call[c].op = "list" =>
         call[c].target \in Lots /\ (Stands(call[c].target) = (call[c].pc = "landed"))
    /\ call[c].op = "buy" =>
         call[c].target \in Offers /\ Stands(call[c].target) /\ call[c].asset = Money
    /\ call[c].op = "cancel" =>
         /\ call[c].target \in Lots /\ Stands(call[c].target) /\ call[c].raw = 0
         /\ call[c].pc \notin {"reading", "measured"}
    /\ call[c].pc = "landed" /\ call[c].op = "buy" /\ call[c].verify =>
         call[c].price = {Price(c)}
    /\ call[c].pc = "reading" => call[c].seen \subseteq Landed

AnswerHolds(c) ==
    /\ call[c].answer = "overspent" => call[c].cause
    /\ IF call[c].answer = "done" THEN call[c].landed \/ call[c].op = "sync"
                                  ELSE call[c].landed => call[c].answer = "failed"

\* What a round has found gone has left, and what it asks for was listed.
RoundHolds(c) ==
    /\ \A l \in call[c].asked : Stands(l)
    /\ call[c].gone \subseteq call[c].asked
    /\ \A l \in call[c].gone : ~OpenNow(l)
    /\ call[c].pc # "asking" => call[c].gone = {}
    /\ call[c].pc \in {"collecting", "looking"} => call[c].asked = {}

CallHolds(c) ==
    /\ call[c].pc \in WritingPc => WritingHolds(c)
    /\ call[c].pc \in SyncingPc => RoundHolds(c)
    /\ call[c].pc = "done" => AnswerHolds(c)

CallsHold ==
    /\ \A o \in Offers : ~Stands(o) => offers[o] = NoOffer
    /\ \A c \in Calls : CallHolds(c)
    /\ \A b, c \in Calls :
         Lister(b) /\ Lister(c) /\ call[b].target = call[c].target => b = c

EntriesHold ==
    /\ PendingIsTrue
    /\ dropped \subseteq At("acting") \cup At("landed") \cup At("adrift") \cup At("done")

-----------------------------------------------------------------------------
(* What is owed, and what a reading did not see.                           *)

DueIn(b, a) ==
    IF call[b].pc \in {"acting", "adrift"} /\ call[b].asset = a THEN Cost(b) ELSE 0

Due(a) == SumFunction([b \in Calls |-> DueIn(b, a)])

SinceIn(b, a, seen) ==
    IF call[b].pc = "landed" /\ call[b].asset = a /\ b \notin seen THEN Cost(b) ELSE 0

Since(a, seen) == SumFunction([b \in Calls |-> SinceIn(b, a, seen)])

ReadingHolds(c) ==
    \A a \in Assets, s \in SUBSET Calls :
        /\ call[c].pc = "reading" /\ call[c].bal # {}
        /\ call[c].asset = a /\ call[c].seen = s /\ Landed \ s \subseteq At("landed")
        => Given(call[c].bal) <= balance[a] + Since(a, s)

PurseHolds(c) ==
    \A a \in Assets :
        /\ call[c].pc = "measured" /\ call[c].asset = a /\ call[c].missed = {}
        /\ Given(call[c].bal) > 0
        => Given(call[c].bal) + Due(a) <= balance[a]

ActionHolds(c) ==
    \A a \in Assets :
        call[c].pc = "acting" /\ call[c].asset = a /\ ~Careless(c) /\ call[c].raw > 0 =>
            Due(a) <= balance[a]

PursesHold == \A c \in Calls : ReadingHolds(c) /\ PurseHolds(c) /\ ActionHolds(c)

-----------------------------------------------------------------------------
(* What the stall is.                                                      *)

StallHolds ==
    /\ \A l \in watching : Stands(l)
    /\ \A l \in Lots :
         /\ told[l] <= 1 + echoes[l]
         /\ told[l] > 0 => Stands(l) /\ ~OpenNow(l)
         /\ Held(l) => told[l] <= echoes[l]
         /\ l \in Listed => Held(l) \/ told[l] > 0 \/ l \in wiped

ShopInv == ShopTyped /\ CallsHold /\ EntriesHold /\ PursesHold /\ StallHolds

-----------------------------------------------------------------------------
(* What a step leaves alone.                                               *)

\* A step that is not a call's own may tell it, at most, of a spend it missed.
Undisturbed(b) ==
    /\ call'[b].pc = call[b].pc /\ call'[b].op = call[b].op
    /\ call'[b].landed = call[b].landed
    /\ IF call[b].pc \in WritingPc
       THEN /\ call'[b].target = call[b].target /\ call'[b].asset = call[b].asset
            /\ call'[b].raw = call[b].raw /\ call'[b].price = call[b].price
            /\ call'[b].verify = call[b].verify /\ call'[b].bal = call[b].bal
            /\ call'[b].seen = call[b].seen /\ call[b].missed \subseteq call'[b].missed
       ELSE call'[b] = call[b]

\* Offers keep their terms, and never open again; a lot is written by the call
\* that lists it.
Advance(D) ==
    \A o \in Offers :
        IF Stands(o)
        THEN /\ offers'[o].state # "none"
             /\ offers'[o].seller = offers[o].seller /\ offers'[o].qty = offers[o].qty
             /\ offers'[o].price = offers[o].price
             /\ offers'[o].state \in {"open", "stale"} => OpenNow(o)
        ELSE \/ offers'[o] = offers[o]
             \/ offers'[o].state # "none" /\ \E c \in D : Lister(c) /\ call[c].target = o

LEMMA CallTypes ==
    ASSUME ShopTyped, NEW c \in Calls
    PROVE  /\ call[c].pc = "ready" => call[c] \in ReadyCall
           /\ call[c].pc \in WritingPc => call[c] \in WritingCall
           /\ call[c].pc \in SyncingPc => call[c] \in SyncCall
           /\ call[c].pc = "done" => call[c] \in DoneCall
           /\ call[c].pc \in {"ready", "done"} \cup WritingPc \cup SyncingPc
           /\ call[c].landed \in BOOLEAN
BY DEF ShopTyped, ReadyCall, WritingCall, SyncCall, DoneCall, WritingPc, SyncingPc

LEMMA OfferTypes ==
    ASSUME ShopTyped, NEW o \in Offers
    PROVE  offers[o] \in Offer /\ offers[o].qty \in Nat /\ offers[o].price \in Nat
           /\ offers[o].state \in States /\ offers[o].seller \in {None, "me", "them"}
BY DEF ShopTyped, Offer

LEMMA CallsKept ==
    ASSUME ShopTyped, ShopTyped', CallsHold, NEW D \in SUBSET Calls,
           \A b \in Calls \ D : Undisturbed(b), Advance(D),
           \A o \in Offers : ~Stands(o)' => offers'[o] = NoOffer,
           \A c \in D : CallHolds(c)',
           \A c \in D : (call[c].landed => call'[c].landed),
           \A c \in D, b \in Calls :
              (Lister(b) /\ Lister(c) /\ call[b].target = call[c].target => b = c)'
    PROVE  CallsHold'
<1>1. Landed \subseteq Landed'
  BY CallTypes DEF Landed, Undisturbed
<1>2. ASSUME NEW b \in Calls \ D PROVE CallHolds(b)'
  <2>1. Undisturbed(b) /\ CallHolds(b) /\ b \in Calls
    BY DEF CallsHold
  <2>2. CASE call[b].pc \in WritingPc
    <3>1. WritingHolds(b) /\ call[b] \in WritingCall
      BY <2>1, <2>2, CallTypes DEF CallHolds
    <3>2. call'[b].op = "list" => (Stands(call[b].target) = (Stands(call[b].target))')
      <4> SUFFICES ASSUME call[b].op = "list", call[b].target \in Offers
                   PROVE  Stands(call[b].target) = (offers'[call[b].target].state # "none")
        BY <2>1, <2>2, <3>1 DEF Undisturbed, WritingHolds, Offers, Stands
      <4>1. CASE Stands(call[b].target)
        BY <4>1 DEF Advance
      <4>2. CASE ~Stands(call[b].target)
        <5>1. Lister(b)
          BY <2>2, <3>1, <4>2 DEF Lister, WritingHolds, WritingPc
        <5>2. \A c \in D : ~(Lister(c) /\ call[c].target = call[b].target)
          BY <5>1 DEF CallsHold
        <5>3. offers'[call[b].target] = offers[call[b].target]
          BY <4>2, <5>2 DEF Advance
        <5> QED BY <4>2, <5>3 DEF Stands
      <4> QED BY <4>1, <4>2
    <3>3. call'[b].op \in {"buy", "cancel"} =>
            (Stands(call[b].target))' /\ offers'[call[b].target].price = offers[call[b].target].price
      BY <2>1, <2>2, <3>1 DEF Undisturbed, WritingHolds, Advance, Stands, Offers
    <3>4. WritingHolds(b)'
      BY <1>1, <2>1, <2>2, <3>1, <3>2, <3>3 DEF WritingHolds, Undisturbed, Price, Stands
    <3> QED BY <2>1, <2>2, <3>4 DEF CallHolds, Undisturbed, WritingPc, SyncingPc
  <2>3. CASE call[b].pc \in SyncingPc
    <3>1. RoundHolds(b) /\ call[b] \in SyncCall /\ call'[b] = call[b]
      BY <2>1, <2>3, CallTypes DEF CallHolds, Undisturbed, WritingPc, SyncingPc
    <3>2. \A l \in call[b].asked : l \in Offers
      BY <3>1 DEF SyncCall, Offers
    <3>3. RoundHolds(b)'
      BY <3>1, <3>2 DEF RoundHolds, Advance, Stands, OpenNow
    <3> QED BY <2>1, <2>3, <3>1, <3>3 DEF CallHolds, WritingPc, SyncingPc
  <2>4. CASE call[b].pc \in {"ready", "done"}
    BY <2>1, <2>4 DEF CallHolds, Undisturbed, AnswerHolds, WritingPc, SyncingPc
  <2> QED BY <2>2, <2>3, <2>4, CallTypes
<1>3. ASSUME NEW b \in Calls, NEW c \in Calls
      PROVE  (Lister(b) /\ Lister(c) /\ call[b].target = call[c].target => b = c)'
  <2>1. CASE b \in D \/ c \in D
    BY <2>1
  <2>2. CASE b \notin D /\ c \notin D
    BY <2>2 DEF Undisturbed, Lister, CallsHold, WritingPc
  <2> QED BY <2>1, <2>2
<1>4. \A c \in Calls : CallHolds(c)'
  BY <1>2
<1> QED BY <1>3, <1>4 DEF CallsHold

\* A call that is still the one it was, though further on.
SameTerms(b) ==
    /\ call'[b].op = call[b].op /\ call'[b].target = call[b].target
    /\ call'[b].asset = call[b].asset /\ call'[b].raw = call[b].raw

LEMMA CostType ==
    ASSUME ShopTyped, CallsHold, NEW b \in Calls, call[b].pc \in WritingPc
    PROVE  /\ Cost(b) \in Nat /\ Hidden(b) \in BOOLEAN /\ call[b].raw \in Nat
           /\ ~Hidden(b) => Cost(b) <= call[b].raw
           /\ call[b].op = "cancel" => Cost(b) = 0
<1>1. call[b] \in WritingCall /\ WritingHolds(b)
  BY CallTypes DEF CallsHold, CallHolds
<1>2. call[b].op = "buy" => offers[call[b].target].price \in Nat
  BY <1>1, OfferTypes DEF WritingHolds
<1> QED BY <1>1, <1>2 DEF Cost, Hidden, Price, WritingHolds, WritingCall

LEMMA CostStays ==
    ASSUME ShopTyped, CallsHold, NEW D, Advance(D), NEW b \in Calls,
           call[b].pc \in WritingPc, SameTerms(b)
    PROVE  Cost(b)' = Cost(b) /\ Hidden(b)' = Hidden(b)
<1>1. call[b] \in WritingCall /\ WritingHolds(b)
  BY CallTypes DEF CallsHold, CallHolds
<1>2. call[b].op = "buy" => offers'[call[b].target].price = offers[call[b].target].price
  BY <1>1 DEF WritingHolds, Advance
<1> QED BY <1>1, <1>2 DEF Cost, Hidden, Price, SameTerms

LEMMA UndisturbedTerms ==
    ASSUME NEW b \in Calls, Undisturbed(b), call[b].pc \in WritingPc
    PROVE  SameTerms(b)
BY DEF Undisturbed, SameTerms

EntriesTyped ==
    /\ \A a \in Assets : [b \in Calls |-> DueIn(b, a)] \in [Calls -> Nat]
    /\ \A a \in Assets, s \in SUBSET Calls :
         [b \in Calls |-> SinceIn(b, a, s)] \in [Calls -> Nat]

LEMMA EntryTypes == ShopTyped /\ CallsHold => EntriesTyped
<1> SUFFICES ASSUME ShopTyped, CallsHold PROVE EntriesTyped
  OBVIOUS
<1>1. \A b \in Calls, a \in Assets : DueIn(b, a) \in Nat
  BY CostType DEF DueIn, WritingPc
<1>2. \A b \in Calls, a \in Assets, s \in SUBSET Calls : SinceIn(b, a, s) \in Nat
  BY CostType DEF SinceIn, WritingPc
<1> QED BY <1>1, <1>2 DEF EntriesTyped

LEMMA NextEntryTypes == ShopTyped' /\ CallsHold' => EntriesTyped'
BY EntryTypes, PTL

SumsTyped ==
    /\ \A a \in Assets : Due(a) \in Nat
    /\ \A a \in Assets, s \in SUBSET Calls : Since(a, s) \in Nat

LEMMA SumTypes == ShopTyped /\ CallsHold => SumsTyped
<1> SUFFICES ASSUME ShopTyped, CallsHold PROVE SumsTyped
  OBVIOUS
<1>1. ASSUME NEW f \in [Calls -> Nat] PROVE SumFunction(f) \in Nat
  <2>1. f \in [Calls -> Int] /\ \A x \in Calls : f[x] \in Nat
    OBVIOUS
  <2> QED BY <2>1, SumType, ShopAssumption
<1>2. ASSUME NEW a \in Assets PROVE Due(a) \in Nat
  BY <1>1, EntryTypes DEF Due, EntriesTyped
<1>3. ASSUME NEW a \in Assets, NEW s \in SUBSET Calls PROVE Since(a, s) \in Nat
  BY <1>1, EntryTypes DEF Since, EntriesTyped
<1> QED BY <1>2, <1>3 DEF SumsTyped

LEMMA NextSumTypes == ShopTyped' /\ CallsHold' => SumsTyped'
BY SumTypes, PTL

\* One call's part of a sum changes, and the sum by as much.
DueMoved(c) ==
    \A a \in Assets : Due(a)' = Due(a) + (DueIn(c, a)' - DueIn(c, a))

SinceMoved(c) ==
    \A a \in Assets, s \in SUBSET Calls :
        Since(a, s)' = Since(a, s) + (SinceIn(c, a, s)' - SinceIn(c, a, s))

LEMMA SumsMove ==
    ASSUME ShopTyped, ShopTyped', CallsHold, CallsHold', NEW c \in Calls,
           \A b \in Calls \ {c} : Undisturbed(b), Advance({c})
    PROVE  DueMoved(c) /\ SinceMoved(c)
<1>1. EntriesTyped /\ EntriesTyped'
  BY EntryTypes, NextEntryTypes
<1>2. \A b \in Calls \ {c} : call[b].pc \in WritingPc => SameTerms(b) /\ Cost(b)' = Cost(b)
  BY UndisturbedTerms, CostStays
<1>3. \A b \in Calls \ {c}, a \in Assets : DueIn(b, a)' = DueIn(b, a)
  BY <1>2 DEF DueIn, Undisturbed, SameTerms, WritingPc
<1>4. \A b \in Calls \ {c}, a \in Assets, s \in SUBSET Calls :
        SinceIn(b, a, s)' = SinceIn(b, a, s)
  BY <1>2 DEF SinceIn, Undisturbed, SameTerms, WritingPc
<1>5. ASSUME NEW f \in [Calls -> Nat], NEW h \in [Calls -> Nat],
             \A b \in Calls \ {c} : h[b] = f[b]
      PROVE  SumFunction(h) = SumFunction(f) + (h[c] - f[c])
  <2>1. f \in [Calls -> Int] /\ h \in [Calls -> Int] /\ \A b \in Calls : b # c => h[b] = f[b]
    BY <1>5
  <2> QED BY <2>1, SumChanges, ShopAssumption
<1>6. ASSUME NEW a \in Assets PROVE Due(a)' = Due(a) + (DueIn(c, a)' - DueIn(c, a))
  <2> DEFINE f == [b \in Calls |-> DueIn(b, a)]
             h == [b \in Calls |-> DueIn(b, a)']
  <2>1. f \in [Calls -> Nat] /\ h \in [Calls -> Nat]
    BY <1>1 DEF EntriesTyped
  <2>2. /\ \A b \in Calls \ {c} : h[b] = f[b]
        /\ h[c] = DueIn(c, a)' /\ f[c] = DueIn(c, a)
    BY <1>3
  <2>3. Due(a) = SumFunction(f) /\ Due(a)' = SumFunction(h)
    BY DEF Due
  <2> HIDE DEF f, h
  <2> QED BY <1>5, <2>1, <2>2, <2>3
<1>7. ASSUME NEW a \in Assets, NEW s \in SUBSET Calls
      PROVE  Since(a, s)' = Since(a, s) + (SinceIn(c, a, s)' - SinceIn(c, a, s))
  <2> DEFINE f == [b \in Calls |-> SinceIn(b, a, s)]
             h == [b \in Calls |-> SinceIn(b, a, s)']
  <2>1. f \in [Calls -> Nat] /\ h \in [Calls -> Nat]
    BY <1>1 DEF EntriesTyped
  <2>2. /\ \A b \in Calls \ {c} : h[b] = f[b]
        /\ h[c] = SinceIn(c, a, s)' /\ f[c] = SinceIn(c, a, s)
    BY <1>4
  <2>3. Since(a, s) = SumFunction(f) /\ Since(a, s)' = SumFunction(h)
    BY DEF Since
  <2> HIDE DEF f, h
  <2> QED BY <1>5, <2>1, <2>2, <2>3
<1> QED BY <1>6, <1>7 DEF DueMoved, SinceMoved

\* A step takes from the balance no more than it takes from what is owed, or
\* adds to what a reading has not seen.
Backed(c) ==
    \A a \in Assets : balance[a] + DueIn(c, a)' <= balance'[a] + DueIn(c, a)

Showing(c) ==
    \A b \in Calls \ {c}, a \in Assets, s \in SUBSET Calls :
        /\ call[b].pc = "reading" /\ call[b].asset = a /\ call[b].seen = s
        /\ Landed' \ s \subseteq At("landed")'
        => balance[a] + SinceIn(c, a, s) <= balance'[a] + SinceIn(c, a, s)'

LEMMA PartTypes ==
    ASSUME ShopTyped, ShopTyped', CallsHold, CallsHold', NEW c \in Calls, NEW a \in Assets
    PROVE  /\ DueIn(c, a) \in Nat /\ DueIn(c, a)' \in Nat
           /\ \A s \in SUBSET Calls : SinceIn(c, a, s) \in Nat /\ SinceIn(c, a, s)' \in Nat
           /\ Due(a) \in Nat /\ \A s \in SUBSET Calls : Since(a, s) \in Nat
           /\ balance[a] \in Nat /\ balance'[a] \in Nat
<1>1. EntriesTyped /\ EntriesTyped'
  BY EntryTypes, NextEntryTypes
<1>2. [d \in Calls |-> DueIn(d, a)] \in [Calls -> Nat]
      /\ [d \in Calls |-> DueIn(d, a)'] \in [Calls -> Nat]
  BY <1>1 DEF EntriesTyped
<1>3. ASSUME NEW s \in SUBSET Calls PROVE SinceIn(c, a, s) \in Nat /\ SinceIn(c, a, s)' \in Nat
  <2>1. [d \in Calls |-> SinceIn(d, a, s)] \in [Calls -> Nat]
        /\ [d \in Calls |-> SinceIn(d, a, s)'] \in [Calls -> Nat]
    BY <1>1 DEF EntriesTyped
  <2> QED BY <2>1
<1> QED BY <1>2, <1>3, SumTypes DEF ShopTyped, SumsTyped

LEMMA ReadingsKept ==
    ASSUME ShopTyped, ShopTyped', CallsHold, CallsHold', PursesHold, NEW c \in Calls,
           \A b \in Calls \ {c} : Undisturbed(b), SinceMoved(c), Showing(c),
           call[c].landed => call[c].pc = "landed" /\ call'[c].landed
    PROVE  \A b \in Calls \ {c} : ReadingHolds(b)'
<1> SUFFICES ASSUME NEW b \in Calls \ {c}, NEW a \in Assets, NEW s \in SUBSET Calls,
                    call'[b].pc = "reading", call'[b].bal # {}, call'[b].asset = a,
                    call'[b].seen = s, Landed' \ s \subseteq At("landed")'
             PROVE  Given(call'[b].bal) <= balance'[a] + Since(a, s)'
  BY DEF ReadingHolds
<1>1. /\ call[b].pc = "reading" /\ call'[b].bal = call[b].bal
      /\ call[b].asset = a /\ call[b].seen = s
  BY DEF Undisturbed, WritingPc
<1>2. call[b].bal \in SUBSET Nat
  BY <1>1, CallTypes DEF WritingCall, WritingPc
<1>3. Landed \ s \subseteq At("landed")
  <2> SUFFICES ASSUME NEW d \in Calls, call[d].landed, d \notin s
               PROVE  call[d].pc = "landed"
    BY DEF Landed, At
  <2>1. CASE d = c
    BY <2>1
  <2>2. CASE d # c
    <3>1. call'[d].landed /\ call'[d].pc = call[d].pc
      BY <2>2 DEF Undisturbed
    <3> QED BY <3>1 DEF At, Landed
  <2> QED BY <2>1, <2>2
<1>4. Given(call[b].bal) <= balance[a] + Since(a, s)
  BY <1>1, <1>3 DEF PursesHold, ReadingHolds
<1>5. balance[a] + SinceIn(c, a, s) <= balance'[a] + SinceIn(c, a, s)'
  BY <1>1 DEF Showing
<1>6. Since(a, s)' = Since(a, s) + (SinceIn(c, a, s)' - SinceIn(c, a, s))
  BY DEF SinceMoved
<1>7. Given(call[b].bal) \in Nat
  BY <1>2 DEF Given
<1>8. Given(call[b].bal) <= balance'[a] + Since(a, s)'
  BY <1>4, <1>5, <1>6, <1>7, PartTypes
<1> QED BY <1>1, <1>8

LEMMA BackingKept ==
    ASSUME ShopTyped, ShopTyped', CallsHold, CallsHold', PursesHold, NEW c \in Calls,
           \A b \in Calls \ {c} : Undisturbed(b), Advance({c}), DueMoved(c), Backed(c)
    PROVE  \A b \in Calls \ {c} : PurseHolds(b)' /\ ActionHolds(b)'
<1>1. ASSUME NEW a \in Assets
      PROVE  /\ Due(a)' \in Int
             /\ \A n \in Nat : n + Due(a) <= balance[a] => n + Due(a)' <= balance'[a]
  <2>1. Due(a)' = Due(a) + (DueIn(c, a)' - DueIn(c, a))
        /\ balance[a] + DueIn(c, a)' <= balance'[a] + DueIn(c, a)
    BY DEF DueMoved, Backed
  <2> QED BY <2>1, PartTypes
<1>2. ASSUME NEW b \in Calls \ {c}, NEW a \in Assets, call'[b].asset = a,
             call'[b].pc = "measured", call'[b].missed = {}, Given(call'[b].bal) > 0
      PROVE  Given(call'[b].bal) + Due(a)' <= balance'[a]
  <2>1. /\ call[b].pc = "measured" /\ call[b].missed = {} /\ call'[b].bal = call[b].bal
        /\ call[b].asset = a
    BY <1>2, CallTypes DEF Undisturbed, WritingPc, WritingCall
  <2>2. Given(call[b].bal) \in Nat
    BY <2>1, CallTypes DEF WritingCall, WritingPc, Given
  <2>3. Given(call[b].bal) + Due(a) <= balance[a]
    BY <1>2, <2>1 DEF PursesHold, PurseHolds
  <2> QED BY <1>1, <2>1, <2>2, <2>3
<1>3. ASSUME NEW b \in Calls \ {c}, NEW a \in Assets, call'[b].asset = a,
             call'[b].pc = "acting", ~Careless(b)', call'[b].raw > 0
      PROVE  Due(a)' <= balance'[a]
  <2>1. call[b].pc = "acting" /\ SameTerms(b) /\ call[b].missed \subseteq call'[b].missed
    BY <1>3, UndisturbedTerms DEF Undisturbed, WritingPc
  <2>2. ~Careless(b)
    BY <1>3, <2>1, CostStays DEF Careless, WritingPc
  <2>3. Due(a) <= balance[a] /\ Due(a) \in Nat
    BY <1>3, <2>1, <2>2, SumTypes DEF PursesHold, ActionHolds, SameTerms, SumsTyped
  <2>4. 0 + Due(a)' <= balance'[a]
    BY <1>1, <2>3
  <2> QED BY <1>1, <2>4
<1> QED BY <1>2, <1>3 DEF PurseHolds, ActionHolds

-----------------------------------------------------------------------------
(* The entries that are up.                                                *)

\* A sequence without the element at one place.
LEMMA RemovedAt ==
    ASSUME NEW S, NEW s \in Seq(S), NEW k \in 1..Len(s)
    PROVE  /\ RemoveAt(s, k) \in Seq(S) /\ Len(RemoveAt(s, k)) = Len(s) - 1
           /\ \A i \in 1..(Len(s) - 1) : RemoveAt(s, k)[i] = IF i < k THEN s[i] ELSE s[i + 1]
<1> DEFINE n == Len(s)
           before == SubSeq(s, 1, k - 1)
           after == SubSeq(s, k + 1, n)
<1>1. n \in Nat /\ k \in Int /\ 1 <= k /\ k <= n /\ \A i \in 1..n : s[i] \in S
  OBVIOUS
<1>2. RemoveAt(s, k) = before \o after
  BY DEF RemoveAt
<1> HIDE DEF n
<1>3. before \in Seq(S) /\ Len(before) = k - 1 /\ \A i \in 1..(k - 1) : before[i] = s[i]
  <2>1. \A i \in 1..(k - 1) : s[i] \in S
    BY <1>1
  <2>2. /\ before \in Seq(S)
        /\ Len(before) = IF 1 <= k - 1 THEN (k - 1) - 1 + 1 ELSE 0
        /\ \A i \in 1..((k - 1) - 1 + 1) : before[i] = s[1 + i - 1]
    BY <1>1, <2>1, SubSeqProperties
  <2> HIDE DEF before
  <2>3. \A i \in 1..(k - 1) : i \in 1..((k - 1) - 1 + 1) /\ 1 + i - 1 = i
    BY <1>1
  <2> QED BY <1>1, <2>2, <2>3
<1>4. after \in Seq(S) /\ Len(after) = n - k /\ \A i \in 1..(n - k) : after[i] = s[k + i]
  <2>1. \A i \in (k + 1)..n : s[i] \in S
    BY <1>1
  <2>2. /\ after \in Seq(S)
        /\ Len(after) = IF k + 1 <= n THEN n - (k + 1) + 1 ELSE 0
        /\ \A i \in 1..(n - (k + 1) + 1) : after[i] = s[k + 1 + i - 1]
    BY <1>1, <2>1, SubSeqProperties
  <2> HIDE DEF after
  <2>3. \A i \in 1..(n - k) : i \in 1..(n - (k + 1) + 1) /\ k + 1 + i - 1 = k + i
    BY <1>1
  <2> QED BY <1>1, <2>2, <2>3
<1> HIDE DEF before, after
<1>5. /\ before \o after \in Seq(S)
      /\ Len(before \o after) = Len(before) + Len(after)
      /\ \A i \in 1..(Len(before) + Len(after)) : (before \o after)[i] =
           IF i <= Len(before) THEN before[i] ELSE after[i - Len(before)]
  BY <1>3, <1>4, ConcatProperties
<1>6. Len(before) + Len(after) = n - 1
  BY <1>1, <1>3, <1>4
<1>7. ASSUME NEW i \in 1..(n - 1)
      PROVE (before \o after)[i] = IF i < k THEN s[i] ELSE s[i + 1]
  <2>1. (before \o after)[i] = IF i <= k - 1 THEN before[i] ELSE after[i - (k - 1)]
    BY <1>3, <1>5, <1>6
  <2>2. CASE i < k
    BY <1>1, <1>3, <2>1, <2>2
  <2>3. CASE ~(i < k)
    <3>1. i - (k - 1) \in 1..(n - k) /\ k + (i - (k - 1)) = i + 1 /\ ~(i <= k - 1)
      BY <1>1, <2>3
    <3>2. (before \o after)[i] = s[k + (i - (k - 1))]
      BY <1>4, <2>1, <3>1
    <3> QED BY <2>3, <3>1, <3>2
  <2> QED BY <2>2, <2>3
<1>8. /\ before \o after \in Seq(S) /\ Len(before \o after) = n - 1
  BY <1>5, <1>6
<1> QED BY <1>2, <1>7, <1>8 DEF n

LEMMA EntryDown ==
    ASSUME inFlight \in Seq(Calls), IsInjective(inFlight), NEW c \in Calls
    PROVE  /\ Down(c) \in Seq(Calls) /\ IsInjective(Down(c))
           /\ Range(Down(c)) = Range(inFlight) \ {c}
<1>1. CASE c \notin Range(inFlight)
  BY <1>1 DEF Down
<1>2. CASE c \in Range(inFlight)
  <2> DEFINE k == EntryOf(c)
             n == Len(inFlight)
  <2>1. k \in 1..n /\ inFlight[k] = c /\ DOMAIN inFlight = 1..n /\ n \in Nat
    BY <1>2 DEF EntryOf, Range
  <2>2. Down(c) = RemoveAt(inFlight, k)
    BY <1>2 DEF Down
  <2> HIDE DEF k
  <2>3. /\ Down(c) \in Seq(Calls) /\ Len(Down(c)) = n - 1
        /\ \A i \in 1..(n - 1) : Down(c)[i] = IF i < k THEN inFlight[i] ELSE inFlight[i + 1]
    BY <2>1, <2>2, RemovedAt
  <2>4. DOMAIN Down(c) = 1..(n - 1)
    BY <2>3
  <2> HIDE DEF n
  <2>5. \A i, j \in 1..n : inFlight[i] = inFlight[j] => i = j
    BY <2>1 DEF IsInjective
  <2> DEFINE w == Down(c)
  <2> HIDE DEF w
  <2>6. DOMAIN w = 1..(n - 1)
        /\ \A i \in 1..(n - 1) : w[i] = IF i < k THEN inFlight[i] ELSE inFlight[i + 1]
    BY <2>3, <2>4 DEF w
  <2>7. IsInjective(w)
    <3> SUFFICES ASSUME NEW i \in 1..(n - 1), NEW j \in 1..(n - 1), w[i] = w[j] PROVE i = j
      BY <2>6 DEF IsInjective
    <3>1. i \in 1..n /\ j \in 1..n /\ i + 1 \in 1..n /\ j + 1 \in 1..n
      BY <2>1
    <3>2. CASE i < k /\ j < k
      BY <2>5, <2>6, <3>1, <3>2
    <3>3. CASE i < k /\ ~(j < k)
      BY <2>1, <2>5, <2>6, <3>1, <3>3
    <3>4. CASE ~(i < k) /\ j < k
      BY <2>1, <2>5, <2>6, <3>1, <3>4
    <3>5. CASE ~(i < k) /\ ~(j < k)
      BY <2>1, <2>5, <2>6, <3>1, <3>5
    <3> QED BY <3>2, <3>3, <3>4, <3>5
  <2>8. \A x : x \in Range(w) => x \in Range(inFlight) \ {c}
    <3> SUFFICES ASSUME NEW i \in 1..(n - 1) PROVE w[i] \in Range(inFlight) \ {c}
      BY <2>6 DEF Range
    <3>1. i \in 1..n /\ i + 1 \in 1..n /\ i # i + 1
      BY <2>1
    <3>2. CASE i < k
      BY <2>1, <2>5, <2>6, <3>1, <3>2 DEF Range
    <3>3. CASE ~(i < k)
      <4>1. i + 1 # k
        BY <2>1, <3>3
      <4> QED BY <2>1, <2>5, <2>6, <3>1, <3>3, <4>1 DEF Range
    <3> QED BY <3>2, <3>3
  <2>9. \A x : x \in Range(inFlight) \ {c} => x \in Range(w)
    <3> SUFFICES ASSUME NEW i \in 1..n, inFlight[i] # c PROVE inFlight[i] \in Range(w)
      BY <2>1 DEF Range
    <3>1. CASE i < k
      BY <2>1, <2>6, <3>1 DEF Range
    <3>2. CASE i > k
      <4>1. i - 1 \in 1..(n - 1) /\ ~(i - 1 < k) /\ (i - 1) + 1 = i
        BY <2>1, <3>2
      <4>2. w[i - 1] = inFlight[i]
        BY <2>6, <4>1
      <4> QED BY <2>6, <4>1, <4>2 DEF Range
    <3> QED BY <2>1, <3>1, <3>2
  <2> QED BY <2>3, <2>7, <2>8, <2>9 DEF w
<1> QED BY <1>1, <1>2

LEMMA EntryUp ==
    ASSUME inFlight \in Seq(Calls), IsInjective(inFlight), NEW c \in Calls,
           c \notin Range(inFlight)
    PROVE  /\ Append(inFlight, c) \in Seq(Calls) /\ IsInjective(Append(inFlight, c))
           /\ Range(Append(inFlight, c)) = Range(inFlight) \cup {c}
<1> DEFINE n == Len(inFlight)
           w == Append(inFlight, c)
<1>1. /\ w \in Seq(Calls) /\ Len(w) = n + 1 /\ w[n + 1] = c
      /\ \A i \in 1..n : w[i] = inFlight[i]
  BY AppendProperties
<1>2. DOMAIN w = 1..(n + 1) /\ DOMAIN inFlight = 1..n /\ n \in Nat
  BY <1>1
<1> HIDE DEF w, n
<1>3. \A i \in 1..(n + 1) : i \in 1..n \/ i = n + 1
  BY <1>2
<1>4. \A i \in 1..n : i \in 1..(n + 1) /\ w[i] \in Range(inFlight)
  BY <1>1, <1>2 DEF Range
<1>5. IsInjective(w)
  BY <1>1, <1>2, <1>3, <1>4 DEF IsInjective
<1>6. Range(w) = Range(inFlight) \cup {c}
  <2>1. \A x : x \in Range(w) => x \in Range(inFlight) \cup {c}
    BY <1>1, <1>2, <1>3, <1>4 DEF Range
  <2>2. \A x \in Range(inFlight) : x \in Range(w)
    BY <1>1, <1>2, <1>4 DEF Range
  <2>3. n + 1 \in 1..(n + 1)
    BY <1>2
  <2>4. c \in Range(w)
    BY <1>1, <1>2, <2>3 DEF Range
  <2> QED BY <2>1, <2>2, <2>4
<1> QED BY <1>1, <1>5, <1>6 DEF w

Acts(pc) == pc \in {"acting", "landed"}
Acted(pc) == pc \in {"acting", "landed", "adrift", "done"}

LEMMA EntriesStay ==
    ASSUME EntriesHold, NEW c \in Calls, \A b \in Calls \ {c} : Undisturbed(b),
           UNCHANGED <<inFlight, dropped>>,
           Acts(call'[c].pc) <=> Acts(call[c].pc), Acted(call[c].pc) => Acted(call'[c].pc)
    PROVE  EntriesHold'
<1>1. \A b \in Calls : /\ Acts(call'[b].pc) <=> Acts(call[b].pc)
                       /\ Acted(call[b].pc) => Acted(call'[b].pc)
  BY DEF Undisturbed
<1>2. (At("acting") \cup At("landed"))' = At("acting") \cup At("landed")
  BY <1>1 DEF At, Acts
<1>3. dropped \subseteq (At("acting") \cup At("landed") \cup At("adrift") \cup At("done"))'
  BY <1>1 DEF At, Acted, EntriesHold
<1> QED BY <1>2, <1>3 DEF EntriesHold, PendingIsTrue

LEMMA EntriesGoUp ==
    ASSUME ShopTyped, EntriesHold, NEW c \in Calls, \A b \in Calls \ {c} : Undisturbed(b),
           inFlight' = Append(inFlight, c), dropped' = dropped,
           ~Acted(call[c].pc), call'[c].pc = "acting"
    PROVE  EntriesHold' /\ inFlight' \in Seq(Calls)
<1>1. c \notin Range(inFlight) /\ c \notin dropped
  BY DEF EntriesHold, PendingIsTrue, At, Acted
<1>2. /\ inFlight' \in Seq(Calls) /\ IsInjective(inFlight')
      /\ Range(inFlight') = Range(inFlight) \cup {c}
  BY <1>1, EntryUp DEF ShopTyped, EntriesHold, PendingIsTrue
<1>3. \A b \in Calls : /\ Acts(call'[b].pc) <=> Acts(call[b].pc) \/ b = c
                       /\ Acted(call[b].pc) => Acted(call'[b].pc)
  BY DEF Undisturbed, Acts, Acted
<1>4. (At("acting") \cup At("landed"))' = At("acting") \cup At("landed") \cup {c}
  BY <1>3 DEF At, Acts
<1>5. dropped \subseteq (At("acting") \cup At("landed") \cup At("adrift") \cup At("done"))'
  BY <1>3 DEF At, Acted, EntriesHold
<1> QED BY <1>1, <1>2, <1>4, <1>5 DEF EntriesHold, PendingIsTrue

LEMMA EntriesComeDown ==
    ASSUME ShopTyped, EntriesHold, NEW c \in Calls, \A b \in Calls \ {c} : Undisturbed(b),
           inFlight' = Down(c), dropped' = dropped,
           Acts(call[c].pc), call'[c].pc \in {"adrift", "done"}
    PROVE  EntriesHold' /\ inFlight' \in Seq(Calls)
<1>1. /\ inFlight' \in Seq(Calls) /\ IsInjective(inFlight')
      /\ Range(inFlight') = Range(inFlight) \ {c}
  BY EntryDown DEF ShopTyped, EntriesHold, PendingIsTrue
<1>2. \A b \in Calls : /\ Acts(call'[b].pc) <=> Acts(call[b].pc) /\ b # c
                       /\ Acted(call[b].pc) => Acted(call'[b].pc)
  BY DEF Undisturbed, Acts, Acted
<1>3. (At("acting") \cup At("landed"))' = (At("acting") \cup At("landed")) \ {c}
  BY <1>2 DEF At, Acts
<1>4. dropped \subseteq (At("acting") \cup At("landed") \cup At("adrift") \cup At("done"))'
  BY <1>2 DEF At, Acted, EntriesHold
<1> QED BY <1>1, <1>3, <1>4 DEF EntriesHold, PendingIsTrue

-----------------------------------------------------------------------------
(* The stall.                                                              *)

\* A step of a call that writes, and ends no listing, is nothing to the stall.
LEMMA StallStays ==
    ASSUME ShopTyped, StallHolds, NEW c \in Calls, \A b \in Calls \ {c} : Undisturbed(b),
           Advance({c}), UNCHANGED <<watching, told, echoes, wiped>>,
           call[c].pc \notin SyncingPc \cup {"done"}, call'[c].pc \notin SyncingPc,
           call'[c].pc = "done" => call'[c].op # "list" \/ call'[c].answer # "done"
    PROVE  StallHolds'
<1>1. Syncing' = Syncing /\ \A b \in Syncing : call'[b] = call[b]
  BY DEF Syncing, Undisturbed, WritingPc, SyncingPc
<1>2. Listed' = Listed
  <2>1. \A b \in Calls : call'[b].pc = "done" /\ call'[b].op = "list" /\ call'[b].answer = "done"
                           <=> call[b].pc = "done" /\ call[b].op = "list" /\ call[b].answer = "done"
    BY DEF Undisturbed, WritingPc, SyncingPc
  <2>2. \A b \in Calls : call[b].pc = "done" /\ call[b].op = "list" /\ call[b].answer = "done"
                           => call'[b].target = call[b].target
    BY DEF Undisturbed, WritingPc, SyncingPc
  <2> QED BY <2>1, <2>2 DEF Listed, At
<1>3. \A l \in Lots : /\ Stands(l) => Stands(l)'
                      /\ Stands(l) /\ ~OpenNow(l) => ~OpenNow(l)'
  BY DEF Advance, Stands, OpenNow, Offers
<1>4. \A l \in watching : Stands(l)'
  BY <1>3 DEF StallHolds, ShopTyped
<1>5. \A l \in Lots : Held(l)' = Held(l)
  BY <1>1 DEF Held, Holders
<1> QED BY <1>1, <1>2, <1>3, <1>4, <1>5 DEF StallHolds, ShopTyped

-----------------------------------------------------------------------------
(* One step of one call.                                                   *)

AnyCall == ReadyCall \cup WritingCall \cup SyncCall \cup DoneCall

LEMMA OneCallMoves ==
    ASSUME ShopTyped, NEW c \in Calls, NEW r \in AnyCall, call' = [call EXCEPT ![c] = r]
    PROVE  /\ call' \in [Calls -> AnyCall] /\ call'[c] = r
           /\ \A b \in Calls \ {c} : call'[b] = call[b] /\ Undisturbed(b)
<1>1. call \in [Calls -> AnyCall]
  BY DEF ShopTyped, AnyCall
<1>2. call' \in [Calls -> AnyCall] /\ call'[c] = r /\ \A b \in Calls \ {c} : call'[b] = call[b]
  BY <1>1
<1>3. ASSUME NEW b \in Calls \ {c} PROVE Undisturbed(b)
  <2>1. call'[b] = call[b]
    BY <1>2
  <2> QED BY <2>1 DEF Undisturbed
<1> QED BY <1>2, <1>3

LEMMA OffersStay ==
    ASSUME CallsHold, offers' = offers, NEW D
    PROVE  Advance(D) /\ \A o \in Offers : ~Stands(o)' => offers'[o] = NoOffer
BY DEF Advance, CallsHold, Stands, OpenNow

\* What a step of one call has to see to.
Seen(c) ==
    /\ \A b \in Calls \ {c} : Undisturbed(b)
    /\ Advance({c}) /\ \A o \in Offers : ~Stands(o)' => offers'[o] = NoOffer
    /\ CallHolds(c)'
    /\ call[c].landed => call[c].pc = "landed" /\ call'[c].landed
    /\ \A b \in Calls : (Lister(b) /\ Lister(c) /\ call[b].target = call[c].target => b = c)'

LEMMA StepKeepsCalls ==
    ASSUME ShopTyped, ShopTyped', CallsHold, NEW c \in Calls, Seen(c)
    PROVE  CallsHold'
<1>1. \A b \in Calls \ {c} : Undisturbed(b)
  BY DEF Seen
<1> QED BY <1>1, CallsKept DEF Seen

OwnHold(c) == ReadingHolds(c) /\ PurseHolds(c) /\ ActionHolds(c)

LEMMA StepKeepsInv ==
    ASSUME ShopInv, NEW c \in Calls, ShopTyped', Seen(c), EntriesHold', StallHolds',
           Backed(c), Showing(c), CallsHold' /\ DueMoved(c) => OwnHold(c)'
    PROVE  ShopInv'
<1>1. CallsHold'
  BY StepKeepsCalls DEF ShopInv
<1>2. (\A b \in Calls \ {c} : Undisturbed(b)) /\ Advance({c})
      /\ (call[c].landed => call[c].pc = "landed" /\ call'[c].landed)
  BY DEF Seen
<1>3. DueMoved(c) /\ SinceMoved(c)
  BY <1>1, <1>2, SumsMove DEF ShopInv
<1>4. \A b \in Calls \ {c} : ReadingHolds(b)'
  BY <1>1, <1>2, <1>3, ReadingsKept DEF ShopInv
<1>5. \A b \in Calls \ {c} : PurseHolds(b)' /\ ActionHolds(b)'
  BY <1>1, <1>2, <1>3, BackingKept DEF ShopInv
<1>6. PursesHold'
  BY <1>1, <1>3, <1>4, <1>5 DEF PursesHold, OwnHold
<1> QED BY <1>1, <1>6 DEF ShopInv

\* A step that signs nothing, and ends nothing that was signed.
LEMMA QuietStep ==
    ASSUME ShopInv, NEW c \in Calls, NEW r \in AnyCall, call' = [call EXCEPT ![c] = r],
           UNCHANGED <<balance, arrivals, offers, inFlight, dropped, watching, told, echoes, wiped>>,
           faults' \in 0..MaxFaults,
           call[c].pc \in {"ready", "reading", "measured"},
           r.pc \in {"reading", "measured", "done"},
           ~r.landed, r.pc = "done" => r.answer # "done",
           CallHolds(c)',
           \A b \in Calls : (Lister(b) /\ Lister(c) /\ call[b].target = call[c].target => b = c)',
           ShopTyped' /\ CallsHold' /\ DueMoved(c) => OwnHold(c)'
    PROVE  ShopInv'
<1>1. /\ call' \in [Calls -> AnyCall] /\ call'[c] = r
      /\ \A b \in Calls \ {c} : call'[b] = call[b] /\ Undisturbed(b)
  BY OneCallMoves DEF ShopInv
<1>2. ShopTyped'
  BY <1>1 DEF ShopInv, ShopTyped, AnyCall
<1>3. ~call[c].landed
  <2>1. call[c].pc = "ready" => call[c].landed = FALSE
    BY CallTypes DEF ShopInv, ReadyCall
  <2>2. call[c].pc \in {"reading", "measured"} => call[c].landed = FALSE
    BY DEF ShopInv, CallsHold, CallHolds, WritingHolds, WritingPc
  <2> QED BY <2>1, <2>2
<1>4. Seen(c)
  BY <1>1, <1>3, OffersStay DEF Seen, ShopInv
<1>5. EntriesHold'
  BY <1>1, EntriesStay DEF ShopInv, Acts, Acted
<1>6. StallHolds'
  BY <1>1, <1>4, StallStays DEF ShopInv, SyncingPc, Seen
<1>7. Backed(c)
  <2>1. ASSUME NEW a \in Assets PROVE balance[a] + DueIn(c, a)' <= balance'[a] + DueIn(c, a)
    BY <1>1 DEF DueIn, ShopInv, ShopTyped
  <2> QED BY <2>1 DEF Backed
<1>8. Showing(c)
  <2>1. ASSUME NEW a \in Assets, NEW s \in SUBSET Calls
        PROVE  balance[a] + SinceIn(c, a, s) <= balance'[a] + SinceIn(c, a, s)'
    BY <1>1 DEF SinceIn, ShopInv, ShopTyped
  <2> QED BY <2>1 DEF Showing
<1> QED BY <1>2, <1>4, <1>5, <1>6, <1>7, <1>8, StepKeepsInv

-----------------------------------------------------------------------------
(* The calls that begin.                                                   *)

Begun(r, op, target, asset, raw) ==
    /\ r \in WritingCall /\ r \in AnyCall
    /\ r.pc = "reading" /\ r.op = op /\ r.target = target /\ r.asset = asset
    /\ r.raw = raw /\ r.bal = {} /\ r.seen = {} /\ r.landed = FALSE

LEMMA WritingIs ==
    ASSUME NEW op \in Ops, NEW target \in Offers \cup {None}, NEW asset \in Assets,
           NEW raw \in Nat, NEW price \in SUBSET Nat, NEW verify \in BOOLEAN
    PROVE  /\ Begun(Writing(op, target, asset, raw), op, target, asset, raw)
           /\ Begun([Writing(op, target, asset, raw) EXCEPT !.price = price],
                    op, target, asset, raw)
           /\ Begun([Writing(op, target, asset, raw) EXCEPT !.price = price, !.verify = verify],
                    op, target, asset, raw)
BY DEF Begun, Writing, WritingCall, AnyCall, WritingPc

LEMMA GivenType == ASSUME NEW v \in SUBSET Nat PROVE Given(v) \in Nat
BY DEF Given

\* A price in integers is one.
LEMMA PriceRawType ==
    ASSUME NEW each \in Optional(Int), NEW price \in Optional(Int), NEW q \in Nat
    PROVE  PriceRaw(each, price, q) \in SUBSET Nat
<1>1. \A e \in Nat : e * q \in Nat
  OBVIOUS
<1>2. \A p \in price : p > 0 => p \in Nat
  BY DEF Optional
<1>3. \A e \in each : e > 0 => e \in Nat
  BY DEF Optional
<1>4. {p \in price : p > 0} \in SUBSET Nat
  BY <1>2
<1>5. {e * q : e \in {u \in each : u > 0}} \in SUBSET Nat
  BY <1>1, <1>3
<1> QED BY <1>4, <1>5 DEF PriceRaw

\* A call that writes begins with nothing read.
LEMMA BeginKeepsInv ==
    ASSUME ShopInv, NEW c \in Calls, call[c].pc = "ready",
           NEW op \in Ops \ {"cancel"}, NEW target \in Offers \cup {None},
           NEW asset \in Assets, NEW raw \in Nat,
           NEW r, Begun(r, op, target, asset, raw), call' = [call EXCEPT ![c] = r],
           op = "list" => target \in Lots /\ Unused(target),
           op = "buy" => target \in Offers /\ offers[target] # NoOffer /\ asset = Money,
           UNCHANGED <<chain, inFlight, stall, shut, bounds>>
    PROVE  ShopInv'
<1>1. /\ r \in WritingCall /\ r \in AnyCall
      /\ r.pc = "reading" /\ r.op = op /\ r.target = target /\ r.asset = asset
      /\ r.raw = raw /\ r.bal = {} /\ r.seen = {} /\ r.landed = FALSE
  BY DEF Begun
<1>2. call' = [call EXCEPT ![c] = r]
  OBVIOUS
<1>3. call'[c] = r /\ \A b \in Calls \ {c} : call'[b] = call[b]
  BY <1>1, <1>2, OneCallMoves DEF ShopInv
<1>4. UNCHANGED <<balance, arrivals, offers, inFlight, dropped, watching, told, echoes, wiped>>
      /\ faults' \in 0..MaxFaults
  BY DEF chain, stall, past, shut, bounds, ShopInv, ShopTyped
<1>5. CallHolds(c)'
  <2>1. op = "list" => ~Stands(target)
    BY DEF Unused, Stands, NoOffer
  <2>2. op = "buy" => Stands(target)
    BY DEF ShopInv, CallsHold
  <2>3. WritingHolds(c)'
    BY <1>1, <1>3, <1>4, <2>1, <2>2 DEF WritingHolds, Stands
  <2> QED BY <1>1, <1>3, <2>3 DEF CallHolds, WritingPc, SyncingPc
<1>6. ASSUME NEW b \in Calls PROVE (Lister(b) /\ Lister(c) /\ call[b].target = call[c].target => b = c)'
  <2> SUFFICES ASSUME b # c, Lister(b), op = "list", call[b].target = target PROVE FALSE
    BY <1>1, <1>3 DEF Lister
  <2> QED BY DEF Unused, Lister
<1>7. OwnHold(c)'
  BY <1>1, <1>3 DEF OwnHold, ReadingHolds, PurseHolds, ActionHolds
<1> QED BY <1>1, <1>2, <1>4, <1>5, <1>6, <1>7, QuietStep

LEMMA ListKeepsInv ==
    ASSUME ShopInv, NEW c \in Calls, NEW lot \in Lots, NEW asset \in Assets,
           NEW asked \in Listings, List(c, lot, asset, asked.qty, asked.each, asked.price)
    PROVE  ShopInv'
<1>1. asked.qty \in Optional(Int) /\ asked.each \in Optional(Int) /\ asked.price \in Optional(Int)
  BY ShopAssumption
<1>2. PICK q \in WholeQty(asked.qty) :
        call' = [call EXCEPT ![c] = [Writing("list", lot, asset, q)
                   EXCEPT !.price = PriceRaw(asked.each, asked.price, q)]]
  BY DEF List
<1>3. q \in Nat
  BY <1>1 DEF WholeQty, Optional
<1> DEFINE p == PriceRaw(asked.each, asked.price, q)
<1>4. p \in SUBSET Nat
  BY <1>1, <1>3, PriceRawType
<1>5. PICK r : r = [Writing("list", lot, asset, q) EXCEPT !.price = p]
  OBVIOUS
<1>6. call' = [call EXCEPT ![c] = r]
  BY <1>2, <1>5
<1> HIDE DEF p
<1>7. "list" \in Ops /\ "list" \in Ops \ {"cancel"} /\ lot \in Offers \cup {None}
  BY DEF Ops, Offers
<1>8. call[c].pc = "ready" /\ Unused(lot) /\ UNCHANGED <<chain, inFlight, stall, shut, bounds>>
  BY DEF List, Ready
<1>9. Begun(r, "list", lot, asset, q)
  BY <1>3, <1>4, <1>5, <1>7, WritingIs
<1> QED BY <1>3, <1>6, <1>7, <1>8, <1>9, BeginKeepsInv

LEMMA GiftKeepsInv ==
    ASSUME ShopInv, NEW c \in Calls, NEW to, NEW asked \in Gifts,
           Gift(c, to, asked.asset, asked.amount)
    PROVE  ShopInv'
<1>1. asked.asset \in Assets /\ asked.amount \in Nat
  BY ShopAssumption DEF Gift
<1>2. call' = [call EXCEPT ![c] = Writing("gift", None, asked.asset, asked.amount)]
  BY DEF Gift
<1>3. "gift" \in Ops /\ "gift" \in Ops \ {"cancel"} /\ None \in Offers \cup {None}
  BY DEF Ops
<1>4. call[c].pc = "ready" /\ UNCHANGED <<chain, inFlight, stall, shut, bounds>>
  BY DEF Gift, Ready
<1>5. Begun(Writing("gift", None, asked.asset, asked.amount), "gift", None,
            asked.asset, asked.amount)
  BY <1>1, <1>3, WritingIs
<1> QED BY <1>1, <1>2, <1>3, <1>4, <1>5, BeginKeepsInv

LEMMA BuyKeepsInv ==
    ASSUME ShopInv, NEW c \in Calls, NEW o \in Offers, NEW shown \in Optional(Shown),
           NEW verify \in Optional(BOOLEAN), Buy(c, o, shown, verify)
    PROVE  ShopInv'
<1>1. shown \in SUBSET Nat /\ Given(shown) \in Nat
  BY ShopAssumption, GivenType DEF Optional
<1> DEFINE v == shown # {} /\ verify # {FALSE}
<1>2. PICK r : r = [Writing("buy", o, Money, Given(shown)) EXCEPT !.price = shown, !.verify = v]
  OBVIOUS
<1>3. call' = [call EXCEPT ![c] = r]
  BY <1>2 DEF Buy
<1>4. v \in BOOLEAN /\ "buy" \in Ops /\ "buy" \in Ops \ {"cancel"}
      /\ o \in Offers \cup {None} /\ Money \in Assets
  BY DEF Ops, Money, Assets
<1>5. call[c].pc = "ready" /\ offers[o] # NoOffer
      /\ UNCHANGED <<chain, inFlight, stall, shut, bounds>>
  BY DEF Buy, Ready
<1> HIDE DEF v
<1>6. Begun(r, "buy", o, Money, Given(shown))
  BY <1>1, <1>2, <1>4, WritingIs
<1> QED BY <1>1, <1>3, <1>4, <1>5, <1>6, BeginKeepsInv

LEMMA ReadBalanceKeepsInv == ASSUME ShopInv, NEW c \in Calls, ReadBalance(c) PROVE ShopInv'
<1> DEFINE r == [call[c] EXCEPT !.bal = {balance[call[c].asset]}, !.seen = Landed]
<1>1. call[c].pc = "reading" /\ call[c] \in WritingCall /\ WritingHolds(c)
  BY CallTypes DEF ReadBalance, ShopInv, CallsHold, CallHolds, WritingPc
<1>2. balance[call[c].asset] \in Nat /\ Landed \in SUBSET Calls
  BY <1>1 DEF ShopInv, ShopTyped, WritingCall, Landed
<1>3. /\ r \in WritingCall /\ r \in AnyCall /\ r.pc = "reading" /\ r.op = call[c].op
      /\ r.target = call[c].target /\ r.asset = call[c].asset /\ r.raw = call[c].raw
      /\ r.bal = {balance[call[c].asset]} /\ r.seen = Landed /\ r.landed = call[c].landed
  BY <1>1, <1>2 DEF WritingCall, AnyCall
<1>4. call' = [call EXCEPT ![c] = r]
  BY DEF ReadBalance
<1> HIDE DEF r
<1>5. call'[c] = r /\ \A b \in Calls \ {c} : call'[b] = call[b]
  BY <1>3, <1>4, OneCallMoves DEF ShopInv
<1>6. UNCHANGED <<balance, arrivals, offers, inFlight, dropped, watching, told, echoes, wiped>>
      /\ faults' \in 0..MaxFaults
  BY DEF ReadBalance, chain, stall, past, shut, bounds, ShopInv, ShopTyped
<1>7. ~r.landed
  BY <1>1, <1>3 DEF WritingHolds
<1>8. CallHolds(c)'
  <2>1. Landed' = Landed
    BY <1>3, <1>5 DEF Landed
  <2>2. WritingHolds(c)'
    BY <1>1, <1>3, <1>5, <1>6, <2>1 DEF WritingHolds, Stands
  <2> QED BY <1>3, <1>5, <2>2 DEF CallHolds, WritingPc, SyncingPc
<1>9. \A b \in Calls : (Lister(b) /\ Lister(c) /\ call[b].target = call[c].target => b = c)'
  BY <1>1, <1>3, <1>5 DEF Lister, ShopInv, CallsHold
<1>10. ASSUME ShopTyped', CallsHold' PROVE OwnHold(c)'
  <2>1. SumsTyped'
    BY <1>10, NextSumTypes
  <2>2. ReadingHolds(c)'
    BY <1>1, <1>2, <1>3, <1>5, <1>6, <2>1 DEF ReadingHolds, SumsTyped, Given
  <2> QED BY <1>3, <1>5, <2>2 DEF OwnHold, PurseHolds, ActionHolds
<1> QED BY <1>1, <1>3, <1>4, <1>6, <1>7, <1>8, <1>9, <1>10, QuietStep

LEMMA EndedIs ==
    ASSUME ShopInv, NEW c \in Calls, call[c].pc \in WritingPc, NEW answer \in Answers
    PROVE  /\ Ended(c, answer) \in DoneCall /\ Ended(c, answer) \in AnyCall
           /\ Ended(c, answer).pc = "done" /\ Ended(c, answer).op = call[c].op
           /\ Ended(c, answer).answer = answer /\ Ended(c, answer).landed = call[c].landed
           /\ Ended(c, answer).cause = IF answer = "overspent" THEN Careless(c) ELSE TRUE
<1>1. call[c] \in WritingCall
  BY CallTypes DEF ShopInv
<1>2. Careless(c) \in BOOLEAN
  BY DEF Careless
<1> QED BY <1>1, <1>2 DEF Ended, DoneCall, AnyCall, WritingCall, Careless

LEMMA UnreadableKeepsInv == ASSUME ShopInv, NEW c \in Calls, Unreadable(c) PROVE ShopInv'
<1> DEFINE r == Ended(c, "funds-unreadable")
<1>1. call[c].pc = "reading" /\ WritingHolds(c)
  BY DEF Unreadable, ShopInv, CallsHold, CallHolds, WritingPc
<1>2. /\ r \in AnyCall /\ r.pc = "done" /\ r.answer = "funds-unreadable" /\ ~r.landed
  BY <1>1, EndedIs DEF Answers, WritingPc, WritingHolds
<1>3. call' = [call EXCEPT ![c] = r]
  BY DEF Unreadable
<1> HIDE DEF r
<1>4. call'[c] = r
  BY <1>2, <1>3, OneCallMoves DEF ShopInv
<1>5. UNCHANGED <<balance, arrivals, offers, inFlight, dropped, watching, told, echoes, wiped>>
      /\ faults' \in 0..MaxFaults
  BY ShopAssumption DEF Unreadable, Fault, chain, stall, past, shut, bounds, ShopInv, ShopTyped
<1>6. CallHolds(c)' /\ OwnHold(c)'
  BY <1>2, <1>4 DEF CallHolds, AnswerHolds, OwnHold, ReadingHolds, PurseHolds, ActionHolds,
                    WritingPc, SyncingPc
<1>7. \A b \in Calls : (Lister(b) /\ Lister(c) /\ call[b].target = call[c].target => b = c)'
  BY <1>2, <1>4 DEF Lister
<1> QED BY <1>1, <1>2, <1>3, <1>5, <1>6, <1>7, QuietStep

-----------------------------------------------------------------------------
(* The purse.                                                              *)

LEMMA MaxOfZero ==
    ASSUME NEW x \in Int
    PROVE  Max({0, x}) = IF x >= 0 THEN x ELSE 0
<1>1. \E m \in {0, x} : \A y \in {0, x} : m >= y
  OBVIOUS
<1>2. Max({0, x}) \in {0, x} /\ \A y \in {0, x} : Max({0, x}) >= y
  BY <1>1 DEF Max
<1> QED BY <1>2

\* The debts of the calls that are up, of the calls that act, and of none but
\* these.
Debt(b, a) == IF b \in Range(inFlight) /\ call[b].asset = a THEN call[b].raw ELSE 0

ActDebt(b, a) == IF call[b].pc = "acting" /\ call[b].asset = a THEN call[b].raw ELSE 0

Debts(a) == SumFunction([b \in Calls |-> Debt(b, a)])

ActDebts(a) == SumFunction([b \in Calls |-> ActDebt(b, a)])

LEMMA PendingActs ==
    ASSUME ShopTyped, EntriesHold
    PROVE  \A b \in Range(inFlight) :
             b \in Calls /\ call[b].pc \in {"acting", "landed"} /\ call[b] \in WritingCall
BY CallTypes DEF EntriesHold, PendingIsTrue, At, WritingPc

LEMMA DebtTypes ==
    ASSUME ShopTyped, EntriesHold, NEW a \in Assets
    PROVE  /\ [b \in Calls |-> Debt(b, a)] \in [Calls -> Nat]
           /\ [b \in Calls |-> ActDebt(b, a)] \in [Calls -> Nat]
           /\ Debts(a) \in Nat /\ ActDebts(a) \in Nat
<1>1. \A b \in Calls : Debt(b, a) \in Nat
  BY PendingActs DEF Debt, WritingCall
<1>2. \A b \in Calls : ActDebt(b, a) \in Nat
  BY CallTypes DEF ActDebt, WritingCall, WritingPc
<1>3. ASSUME NEW f \in [Calls -> Nat] PROVE SumFunction(f) \in Nat
  <2>1. f \in [Calls -> Int] /\ \A x \in Calls : f[x] \in Nat
    OBVIOUS
  <2> QED BY <2>1, SumType, ShopAssumption
<1> QED BY <1>1, <1>2, <1>3 DEF Debts, ActDebts

\* What the source sums up is that.
LEMMA DebtsAre ==
    ASSUME ShopTyped, EntriesHold, NEW a \in Assets
    PROVE  /\ CommittedRaw(Range(inFlight), a) = Debts(a)
           /\ SumFunction([c \in {b \in At("acting") : call[b].asset = a} |-> call[c].raw])
                = ActDebts(a)
<1>1. ASSUME NEW f \in [Calls -> Nat], NEW T \in SUBSET Calls, \A x \in Calls \ T : f[x] = 0
      PROVE  SumFunction([x \in T |-> f[x]]) = SumFunction(f)
  <2>1. f \in [Calls -> Int]
    OBVIOUS
  <2> QED BY <1>1, <2>1, SumWithoutZeros, ShopAssumption
<1> DEFINE f == [b \in Calls |-> Debt(b, a)]
           h == [b \in Calls |-> ActDebt(b, a)]
           P == Range(inFlight)
           A == {b \in At("acting") : call[b].asset = a}
<1>2. CommittedRaw(P, a) = Debts(a)
  <2>1. P \in SUBSET Calls
    BY PendingActs
  <2>2. f \in [Calls -> Nat] /\ \A x \in Calls \ P : f[x] = 0
    BY DebtTypes DEF Debt
  <2>3. ASSUME NEW b \in P PROVE Max({0, -Moves(b)[a]}) = f[b]
    <3>1. b \in Calls /\ call[b].raw \in Nat /\ call[b].asset \in Assets
      BY PendingActs DEF WritingCall
    <3>2. -Moves(b)[a] = IF a = call[b].asset THEN call[b].raw ELSE 0
      BY <3>1 DEF Moves
    <3>3. Max({0, -Moves(b)[a]}) = IF a = call[b].asset THEN call[b].raw ELSE 0
      <4>1. CASE a = call[b].asset
        BY <3>1, <3>2, <4>1, MaxOfZero
      <4>2. CASE a # call[b].asset
        BY <3>1, <3>2, <4>2, MaxOfZero
      <4> QED BY <4>1, <4>2
    <3> QED BY <3>1, <3>3 DEF Debt
  <2>4. [b \in P |-> Max({0, -Moves(b)[a]})] = [b \in P |-> f[b]]
    <3> HIDE DEF f, P
    <3> QED BY <2>3
  <2> HIDE DEF f, P
  <2>5. SumFunction([b \in P |-> f[b]]) = SumFunction(f)
    BY <1>1, <2>1, <2>2
  <2> QED BY <2>4, <2>5 DEF CommittedRaw, Debts, f
<1>3. SumFunction([b \in A |-> call[b].raw]) = ActDebts(a)
  <2>1. A \in SUBSET Calls
    BY DEF At
  <2>2. h \in [Calls -> Nat] /\ \A x \in Calls \ A : h[x] = 0
    BY DebtTypes DEF ActDebt, At
  <2>3. [b \in A |-> call[b].raw] = [b \in A |-> h[b]]
    BY DEF ActDebt, At
  <2> HIDE DEF h, A
  <2>4. SumFunction([b \in A |-> h[b]]) = SumFunction(h)
    BY <1>1, <2>1, <2>2
  <2> QED BY <2>3, <2>4 DEF ActDebts, h
<1> QED BY <1>2, <1>3

\* What a check misses that reads the purse now.
Misses(c) == Unseen(c, call[c].seen) \cup {b \in Range(inFlight) \ call[c].seen : Hidden(b)}

\* A purse that misses nothing, less the debts and with those of the actions
\* added again, is in the balance.
LEMMA PurseIsBacked ==
    ASSUME ShopInv, NEW c \in Calls, call[c].pc = "reading", call[c].bal # {}, Misses(c) = {},
           NEW a \in Assets, call[c].asset = a
    PROVE  /\ (Given(call[c].bal) - Debts(a)) + ActDebts(a) <= balance[a]
           /\ Due(a) <= ActDebts(a)
           /\ At("landed") = {} => Debts(a) = ActDebts(a)
<1> DEFINE s == call[c].seen
           P == Range(inFlight)
<1>1. call[c] \in WritingCall /\ WritingHolds(c) /\ s \in SUBSET Calls /\ s \subseteq Landed
  BY CallTypes DEF ShopInv, CallsHold, CallHolds, WritingHolds, WritingPc, WritingCall
<1>2. \A b \in P : b \in Calls /\ call[b].pc \in {"acting", "landed"} /\ call[b] \in WritingCall
  BY PendingActs DEF ShopInv
<1>3. \A b \in Calls : call[b].pc \in WritingPc => call[b].landed = (call[b].pc = "landed")
  BY DEF ShopInv, CallsHold, CallHolds, WritingHolds
<1>4. \A b \in Calls : b \in Landed \/ call[b].pc \in {"acting", "adrift"} => b \in s \cup P
  <2>1. c \notin Landed
    BY <1>3 DEF Landed, WritingPc
  <2> QED BY <2>1 DEF Misses, Unseen, Adrift, At
<1>5. \A b \in P \ s : ~Hidden(b) /\ Cost(b) <= call[b].raw /\ Cost(b) \in Nat
  BY <1>2, CostType DEF Misses, ShopInv, WritingPc
<1>6. \A b \in Calls : call[b].pc \in {"acting", "adrift"} => b \notin s
  BY <1>1, <1>3 DEF Landed, WritingPc
<1>7. \A b \in Calls : call[b].pc # "adrift" /\ (call[b].pc = "acting" => b \in P \ s)
  BY <1>2, <1>4, <1>6
<1>8. Landed \ s \subseteq At("landed")
  BY <1>2, <1>3, <1>4 DEF Landed, At, WritingPc
<1>9. Given(call[c].bal) <= balance[a] + Since(a, s)
  BY <1>1, <1>8 DEF ShopInv, PursesHold, ReadingHolds
<1> DEFINE D == [b \in Calls |-> Debt(b, a)]
           E == [b \in Calls |-> ActDebt(b, a)]
           U == [b \in Calls |-> DueIn(b, a)]
           V == [b \in Calls |-> SinceIn(b, a, s)]
           W == [b \in Calls |-> E[b] + V[b]]
<1>10. D \in [Calls -> Nat] /\ E \in [Calls -> Nat] /\ U \in [Calls -> Nat] /\ V \in [Calls -> Nat]
  BY <1>1, DebtTypes, EntryTypes DEF ShopInv, EntriesTyped
<1>11. ASSUME NEW b \in Calls PROVE U[b] <= E[b]
  <2>1. U[b] = DueIn(b, a) /\ E[b] = ActDebt(b, a)
    OBVIOUS
  <2>2. U[b] \in Nat /\ E[b] \in Nat
    BY <1>10
  <2>3. CASE call[b].pc = "acting"
    BY <1>5, <1>7, <2>1, <2>3 DEF DueIn, ActDebt
  <2>4. CASE call[b].pc # "acting"
    BY <1>7, <2>1, <2>4 DEF DueIn, ActDebt
  <2> QED BY <2>3, <2>4
<1>12. ASSUME NEW b \in Calls PROVE E[b] + V[b] <= D[b]
  <2>1. D[b] = Debt(b, a) /\ E[b] = ActDebt(b, a) /\ V[b] = SinceIn(b, a, s)
    OBVIOUS
  <2>2. D[b] \in Nat /\ E[b] \in Nat /\ V[b] \in Nat
    BY <1>10
  <2> HIDE DEF D, E, V
  <2>3. CASE call[b].pc = "acting"
    BY <1>7, <2>1, <2>2, <2>3 DEF Debt, ActDebt, SinceIn
  <2>4. CASE call[b].pc = "landed" /\ b \notin s
    <3>1. b \in P \ s
      BY <1>3, <1>4, <2>4 DEF Landed, WritingPc
    <3> QED BY <1>5, <2>1, <2>2, <2>4, <3>1 DEF Debt, ActDebt, SinceIn
  <2>5. CASE call[b].pc # "acting" /\ ~(call[b].pc = "landed" /\ b \notin s)
    BY <2>1, <2>2, <2>5 DEF ActDebt, SinceIn
  <2> QED BY <2>3, <2>4, <2>5
<1>13. At("landed") = {} => D = E
  <2> SUFFICES ASSUME At("landed") = {}, NEW b \in Calls PROVE Debt(b, a) = ActDebt(b, a)
    OBVIOUS
  <2>1. b \in P <=> call[b].pc = "acting"
    BY <1>2, <1>7 DEF At
  <2> QED BY <2>1 DEF Debt, ActDebt
<1>14. Debts(a) = SumFunction(D) /\ ActDebts(a) = SumFunction(E)
       /\ Due(a) = SumFunction(U) /\ Since(a, s) = SumFunction(V)
  BY DEF Debts, ActDebts, Due, Since
<1>15. /\ Debts(a) \in Nat /\ ActDebts(a) \in Nat /\ Due(a) \in Nat /\ Since(a, s) \in Nat
       /\ balance[a] \in Nat /\ Given(call[c].bal) \in Nat
  BY <1>1, DebtTypes, SumTypes, GivenType DEF ShopInv, SumsTyped, ShopTyped, WritingCall
<1>16. \A b \in Calls : W[b] = E[b] + V[b]
  OBVIOUS
<1>17. W \in [Calls -> Int]
  BY <1>10
<1> HIDE DEF D, E, U, V
<1>18. SumFunction(U) <= SumFunction(E)
  <2>1. U \in [Calls -> Int] /\ E \in [Calls -> Int]
    BY <1>10
  <2> QED BY <1>11, <2>1, SumOfSums, ShopAssumption
<1>19. SumFunction(W) = SumFunction(E) + SumFunction(V)
  <2>1. E \in [Calls -> Int] /\ V \in [Calls -> Int]
    BY <1>10
  <2> QED BY <2>1, SumOfSums, ShopAssumption
<1> HIDE DEF W
<1>20. SumFunction(W) <= SumFunction(D)
  <2>1. D \in [Calls -> Int] /\ \A b \in Calls : W[b] <= D[b]
    BY <1>10, <1>12, <1>16
  <2> QED BY <1>17, <2>1, SumOfSums, ShopAssumption
<1>21. ActDebts(a) + Since(a, s) <= Debts(a)
  BY <1>14, <1>19, <1>20
<1> HIDE DEF s
<1>22. (Given(call[c].bal) - Debts(a)) + ActDebts(a) <= balance[a]
  BY <1>9, <1>15, <1>21
<1> QED BY <1>13, <1>14, <1>18, <1>22

LEMMA SpendableIs ==
    ASSUME ShopInv, NEW a \in Assets, NEW n \in Nat
    PROVE  /\ Spendable(a, n) = IF n >= Debts(a) THEN n - Debts(a) ELSE 0
           /\ Spendable(a, n) \in Nat
<1>1. CommittedRaw(Range(inFlight), a) = Debts(a) /\ Debts(a) \in Nat
  BY DebtsAre, DebtTypes DEF ShopInv
<1>2. n - Debts(a) \in Int
  BY <1>1
<1>3. Spendable(a, n) = IF n - Debts(a) >= 0 THEN n - Debts(a) ELSE 0
  BY <1>1, <1>2, MaxOfZero DEF Spendable
<1> QED BY <1>1, <1>3

\* What a check leaves behind.
LEMMA Measured ==
    ASSUME ShopInv, NEW c \in Calls, Measure(c)
    PROVE  /\ call[c].pc = "reading" /\ call[c] \in WritingCall /\ WritingHolds(c)
           /\ call[c].bal # {} /\ call[c].asset \in Assets
           /\ call'[c] \in WritingCall /\ call'[c] \in AnyCall
           /\ call' = [call EXCEPT ![c] = call'[c]]
           /\ call'[c].pc = "measured" /\ SameTerms(c)
           /\ call'[c].landed = call[c].landed
           /\ call'[c].price = call[c].price /\ call'[c].verify = call[c].verify
           /\ call'[c].bal = {Spendable(call[c].asset, Given(call[c].bal))}
           /\ call'[c].missed = Misses(c)
           /\ \A b \in Calls \ {c} : call'[b] = call[b]
           /\ Given(call[c].bal) \in Nat
           /\ Spendable(call[c].asset, Given(call[c].bal)) \in Nat
           /\ UNCHANGED <<chain, inFlight, stall, shut, bounds>>
<1>1. /\ call[c].pc = "reading" /\ call[c] \in WritingCall /\ WritingHolds(c)
      /\ call[c].bal # {} /\ call[c].asset \in Assets /\ call[c].bal \in SUBSET Nat
  BY CallTypes DEF Measure, ShopInv, CallsHold, CallHolds, WritingPc, WritingCall
<1> DEFINE m == Spendable(call[c].asset, Given(call[c].bal))
           x == Misses(c)
<1>2. m \in Nat /\ Given(call[c].bal) \in Nat
  BY <1>1, GivenType, SpendableIs
<1>3. x \in SUBSET Calls
  BY PendingActs DEF Misses, Unseen, Landed, At, Adrift, ShopInv
<1>4. call' = [call EXCEPT ![c].pc = "measured", ![c].bal = {m}, ![c].missed = x,
                           ![c].seen = {}]
      /\ UNCHANGED <<chain, inFlight, stall, shut, bounds>>
  BY DEF Measure, Misses
<1> HIDE DEF m, x
<1> DEFINE r == [call[c] EXCEPT !.pc = "measured", !.bal = {m}, !.missed = x, !.seen = {}]
<1>5. call' = [call EXCEPT ![c] = r]
  BY <1>4
<1>6. /\ r \in WritingCall /\ r \in AnyCall
      /\ r.pc = "measured" /\ r.bal = {m} /\ r.missed = x
      /\ r.op = call[c].op /\ r.target = call[c].target /\ r.asset = call[c].asset
      /\ r.raw = call[c].raw /\ r.landed = call[c].landed /\ r.price = call[c].price
      /\ r.verify = call[c].verify
  BY <1>1, <1>2, <1>3 DEF WritingCall, WritingPc, AnyCall
<1> HIDE DEF r
<1>7. call'[c] = r /\ \A b \in Calls \ {c} : call'[b] = call[b]
  BY <1>5, <1>6, OneCallMoves DEF ShopInv
<1>8. call' = [call EXCEPT ![c] = call'[c]]
  BY <1>5, <1>7
<1>9. SameTerms(c)
  BY <1>6, <1>7 DEF SameTerms
<1> QED BY <1>1, <1>2, <1>4, <1>6, <1>7, <1>8, <1>9 DEF m, x

LEMMA MeasureKeepsInv == ASSUME ShopInv, NEW c \in Calls, Measure(c) PROVE ShopInv'
<1> DEFINE r == call'[c]
<1>1. /\ call[c].pc = "reading" /\ call[c] \in WritingCall /\ WritingHolds(c)
      /\ call[c].bal # {} /\ call[c].asset \in Assets
      /\ r \in AnyCall /\ call' = [call EXCEPT ![c] = r]
      /\ r.pc = "measured" /\ SameTerms(c) /\ r.landed = call[c].landed
      /\ r.bal = {Spendable(call[c].asset, Given(call[c].bal))} /\ r.missed = Misses(c)
      /\ \A b \in Calls \ {c} : call'[b] = call[b]
      /\ Given(call[c].bal) \in Nat /\ Spendable(call[c].asset, Given(call[c].bal)) \in Nat
  BY Measured
<1>2. UNCHANGED <<balance, arrivals, offers, inFlight, dropped, watching, told, echoes, wiped>>
      /\ faults' \in 0..MaxFaults
  BY Measured DEF chain, stall, past, shut, bounds, ShopInv, ShopTyped
<1>3. ~r.landed
  BY <1>1 DEF WritingHolds
<1>4. CallHolds(c)'
  <2>1. WritingHolds(c)'
    BY <1>1, <1>2 DEF WritingHolds, Stands, SameTerms
  <2> QED BY <1>1, <2>1 DEF CallHolds, WritingPc, SyncingPc
<1>5. \A b \in Calls : (Lister(b) /\ Lister(c) /\ call[b].target = call[c].target => b = c)'
  BY <1>1 DEF Lister, ShopInv, CallsHold, SameTerms
<1>6. ASSUME DueMoved(c) PROVE OwnHold(c)'
  <2>1. ASSUME NEW a \in Assets, r.asset = a, r.missed = {}, Given(r.bal) > 0
        PROVE  Given(r.bal) + Due(a)' <= balance'[a]
    <3>1. call[c].asset = a /\ Misses(c) = {}
      BY <1>1, <2>1 DEF SameTerms
    <3>2. /\ (Given(call[c].bal) - Debts(a)) + ActDebts(a) <= balance[a]
          /\ Due(a) <= ActDebts(a)
      BY <1>1, <3>1, PurseIsBacked
    <3>3. Due(a)' = Due(a)
      <4>1. Due(a)' = Due(a) + (DueIn(c, a)' - DueIn(c, a))
        BY <1>6 DEF DueMoved
      <4>2. DueIn(c, a)' = 0 /\ DueIn(c, a) = 0
        BY <1>1 DEF DueIn
      <4>3. Due(a) \in Nat
        BY SumTypes DEF ShopInv, SumsTyped
      <4> QED BY <4>1, <4>2, <4>3
    <3>4. Given(r.bal) = Spendable(a, Given(call[c].bal))
      BY <1>1, <3>1 DEF Given
    <3>5. Given(r.bal) = Given(call[c].bal) - Debts(a)
      BY <1>1, <2>1, <3>4, SpendableIs
    <3>6. Debts(a) \in Nat /\ ActDebts(a) \in Nat /\ Due(a) \in Nat /\ balance[a] \in Nat
      BY DebtTypes, SumTypes DEF ShopInv, SumsTyped, ShopTyped
    <3> QED BY <1>1, <1>2, <3>2, <3>3, <3>5, <3>6
  <2>2. PurseHolds(c)'
    BY <2>1 DEF PurseHolds
  <2> QED BY <1>1, <2>2 DEF OwnHold, ReadingHolds, ActionHolds
<1> QED BY <1>1, <1>2, <1>3, <1>4, <1>5, <1>6, QuietStep

-----------------------------------------------------------------------------
(* The actions.                                                            *)

LEMMA CancelKeepsInv ==
    ASSUME ShopInv, NEW c \in Calls, NEW lot \in Lots, Cancel(c, lot) PROVE ShopInv'
<1> DEFINE r == [Writing("cancel", lot, "ware", 0) EXCEPT !.pc = "acting"]
<1>1. /\ r \in WritingCall /\ r \in AnyCall /\ r.pc = "acting" /\ r.op = "cancel"
      /\ r.target = lot /\ r.raw = 0 /\ r.landed = FALSE
  BY DEF Writing, WritingCall, AnyCall, WritingPc, Ops, Offers, Assets
<1>2. call' = [call EXCEPT ![c] = r]
  BY DEF Cancel
<1>3. /\ call[c].pc = "ready" /\ offers[lot] # NoOffer /\ inFlight' = Append(inFlight, c)
      /\ UNCHANGED <<chain, stall, shut, bounds>>
  BY DEF Cancel, Ready
<1> HIDE DEF r
<1>4. /\ call' \in [Calls -> AnyCall] /\ call'[c] = r
      /\ \A b \in Calls \ {c} : call'[b] = call[b] /\ Undisturbed(b)
  BY <1>1, <1>2, OneCallMoves DEF ShopInv
<1>5. UNCHANGED <<balance, arrivals, offers, dropped, watching, told, echoes, wiped>> /\ faults' = faults
  BY <1>3 DEF chain, stall, past, shut, bounds
<1>6. EntriesHold' /\ inFlight' \in Seq(Calls)
  BY <1>1, <1>3, <1>4, <1>5, EntriesGoUp DEF ShopInv, Acted
<1>7. ShopTyped'
  BY <1>4, <1>5, <1>6 DEF ShopInv, ShopTyped, AnyCall
<1>8. Seen(c)
  <2>1. WritingHolds(c)'
    <3>1. Stands(lot) /\ lot \in Offers
      BY <1>3 DEF ShopInv, CallsHold, Offers
    <3> QED BY <1>1, <1>4, <1>5, <3>1 DEF WritingHolds, Stands
  <2>2. CallHolds(c)'
    BY <1>1, <1>4, <2>1 DEF CallHolds, WritingPc, SyncingPc
  <2>3. ~call[c].landed
    BY <1>3, CallTypes DEF ShopInv, ReadyCall
  <2>4. ~Lister(c)'
    BY <1>1, <1>4 DEF Lister
  <2> QED BY <1>4, <1>5, <2>2, <2>3, <2>4, OffersStay DEF Seen, ShopInv
<1>9. StallHolds'
  BY <1>1, <1>3, <1>4, <1>5, <1>8, StallStays DEF ShopInv, SyncingPc, Seen
<1>10. Backed(c) /\ Showing(c)
  <2>1. \A a \in Assets : balance'[a] = balance[a] /\ balance[a] \in Nat
    BY <1>5 DEF ShopInv, ShopTyped
  <2>2. \A a \in Assets : DueIn(c, a)' = 0 /\ DueIn(c, a) = 0
    BY <1>1, <1>3, <1>4 DEF DueIn, Cost
  <2>3. \A a \in Assets, s \in SUBSET Calls : SinceIn(c, a, s)' = 0 /\ SinceIn(c, a, s) = 0
    BY <1>1, <1>3, <1>4 DEF SinceIn
  <2> QED BY <2>1, <2>2, <2>3 DEF Backed, Showing
<1>11. OwnHold(c)'
  BY <1>1, <1>4 DEF OwnHold, ReadingHolds, PurseHolds, ActionHolds
<1> QED BY <1>6, <1>7, <1>8, <1>9, <1>10, <1>11, StepKeepsInv

\* The action of a call is over, or given up.
LEMMA DownStep ==
    ASSUME ShopInv, NEW c \in Calls, NEW r \in AnyCall, call' = [call EXCEPT ![c] = r],
           call[c].pc \in {"acting", "landed"}, r.pc \in {"adrift", "done"},
           r.landed = call[c].landed, r.pc = "adrift" => SameTerms(c),
           CallHolds(c)', inFlight' = Down(c), StallHolds',
           balance' \in [Assets -> Nat], \A a \in Assets : balance[a] <= balance'[a],
           arrivals' \in [Assets -> Nat], watching' \in SUBSET Lots, echoes' \in [Lots -> Nat], wiped' \in SUBSET Lots,
           UNCHANGED <<offers, dropped, told>>, faults' \in 0..MaxFaults
    PROVE  ShopInv'
<1>1. /\ call' \in [Calls -> AnyCall] /\ call'[c] = r
      /\ \A b \in Calls \ {c} : call'[b] = call[b] /\ Undisturbed(b)
  BY OneCallMoves DEF ShopInv
<1>2. EntriesHold' /\ inFlight' \in Seq(Calls)
  BY <1>1, EntriesComeDown DEF ShopInv, Acts
<1>3. ShopTyped'
  BY <1>1, <1>2 DEF ShopInv, ShopTyped, AnyCall
<1>4. WritingHolds(c) /\ call[c] \in WritingCall
  BY CallTypes DEF ShopInv, CallsHold, CallHolds, WritingPc
<1>5. Seen(c)
  <2>1. \A b \in Calls : (Lister(b) /\ Lister(c) /\ call[b].target = call[c].target => b = c)'
    <3> SUFFICES ASSUME NEW b \in Calls \ {c}, Lister(b), Lister(c)',
                        call'[b].target = call'[c].target PROVE FALSE
      BY <1>1 DEF Lister
    <3>1. r.pc = "adrift" /\ SameTerms(c) /\ r.op = "list"
      BY <1>1 DEF Lister
    <3>2. call[c].pc # "landed"
      BY <1>1, <1>4, <3>1 DEF WritingHolds, CallHolds, WritingPc
    <3>3. Lister(c) /\ call[b].target = call[c].target
      BY <1>1, <3>1, <3>2 DEF Lister, SameTerms
    <3> QED BY <3>3 DEF ShopInv, CallsHold
  <2> QED BY <1>1, <1>4, <2>1, OffersStay DEF Seen, ShopInv, WritingHolds
<1>6. CallsHold'
  BY <1>3, <1>5, StepKeepsCalls DEF ShopInv
<1>7. Backed(c)
  <2>1. ASSUME NEW a \in Assets PROVE balance[a] + DueIn(c, a)' <= balance'[a] + DueIn(c, a)
    <3>1. DueIn(c, a)' <= DueIn(c, a)
      <4>1. CASE r.pc = "adrift"
        <5>1. call[c].pc = "acting" /\ Cost(c)' = Cost(c)
          BY <1>1, <1>4, <1>5, <4>1, CostStays DEF WritingHolds, CallHolds, WritingPc, ShopInv, Seen
        <5> QED BY <1>1, <1>3, <1>6, <4>1, <5>1, PartTypes DEF DueIn, SameTerms, ShopInv
      <4>2. CASE r.pc = "done"
        BY <1>1, <1>3, <1>6, <4>2, PartTypes DEF DueIn, ShopInv
      <4> QED BY <4>1, <4>2
    <3> QED BY <1>3, <1>6, <3>1, PartTypes DEF ShopInv
  <2> QED BY <2>1 DEF Backed
<1>8. Showing(c)
  <2> SUFFICES ASSUME NEW b \in Calls \ {c}, NEW a \in Assets, NEW s \in SUBSET Calls,
                      Landed' \ s \subseteq At("landed")'
               PROVE  balance[a] + SinceIn(c, a, s) <= balance'[a] + SinceIn(c, a, s)'
    BY DEF Showing
  <2>1. c \in Landed <=> call[c].pc = "landed"
    BY <1>4 DEF Landed, WritingHolds
  <2>2. c \in Landed => c \in s
    BY <1>1 DEF Landed, At
  <2>3. SinceIn(c, a, s) = 0 /\ SinceIn(c, a, s)' = 0
    BY <1>1, <2>1, <2>2 DEF SinceIn
  <2> QED BY <1>3, <1>6, <2>3, PartTypes DEF ShopInv
<1>9. OwnHold(c)'
  BY <1>1 DEF OwnHold, ReadingHolds, PurseHolds, ActionHolds
<1> QED BY <1>2, <1>3, <1>5, <1>7, <1>8, <1>9, StepKeepsInv

Unaffordable(c) ==
    /\ call[c].pc = "measured" /\ Given(call[c].bal) < call[c].raw
    /\ call' = [call EXCEPT ![c] = Ended(c, "insufficient-balance")]
    /\ UNCHANGED <<chain, inFlight, stall, shut, bounds>>

LEMMA UnaffordableKeepsInv ==
    ASSUME ShopInv, NEW c \in Calls, Unaffordable(c) PROVE ShopInv'
<1> DEFINE r == Ended(c, "insufficient-balance")
<1>1. call[c].pc = "measured" /\ WritingHolds(c)
  BY DEF Unaffordable, ShopInv, CallsHold, CallHolds, WritingPc
<1>2. /\ r \in AnyCall /\ r.pc = "done" /\ r.answer = "insufficient-balance" /\ ~r.landed
  BY <1>1, EndedIs DEF Answers, WritingPc, WritingHolds
<1>3. call' = [call EXCEPT ![c] = r]
  BY DEF Unaffordable
<1> HIDE DEF r
<1>4. call'[c] = r
  BY <1>2, <1>3, OneCallMoves DEF ShopInv
<1>5. UNCHANGED <<balance, arrivals, offers, inFlight, dropped, watching, told, echoes, wiped>>
      /\ faults' \in 0..MaxFaults
  BY DEF Unaffordable, chain, stall, past, shut, bounds, ShopInv, ShopTyped
<1>6. CallHolds(c)' /\ OwnHold(c)'
  BY <1>2, <1>4 DEF CallHolds, AnswerHolds, OwnHold, ReadingHolds, PurseHolds, ActionHolds,
                    WritingPc, SyncingPc
<1>7. \A b \in Calls : (Lister(b) /\ Lister(c) /\ call[b].target = call[c].target => b = c)'
  BY <1>2, <1>4 DEF Lister
<1> QED BY <1>1, <1>2, <1>3, <1>5, <1>6, <1>7, QuietStep

\* The entry goes up, and who has measured has missed it.
GoesUp(c) ==
    /\ call[c].pc = "measured" /\ ~(Given(call[c].bal) < call[c].raw)
    /\ call' = [b \in Calls |->
          IF b = c THEN [call[b] EXCEPT !.pc = "acting", !.bal = {}]
          ELSE IF call[b].pc = "measured" \/ (call[b].pc = "acting" /\ Careless(c))
               THEN [call[b] EXCEPT !.missed = @ \cup {c}] ELSE call[b]]
    /\ inFlight' = Append(inFlight, c)
    /\ UNCHANGED <<chain, stall, shut, bounds>>

LEMMA GoneUp ==
    ASSUME ShopInv, NEW c \in Calls, GoesUp(c)
    PROVE  /\ call[c].pc = "measured" /\ call[c] \in WritingCall /\ WritingHolds(c)
           /\ call' \in [Calls -> AnyCall]
           /\ call'[c].pc = "acting" /\ SameTerms(c) /\ call'[c].missed = call[c].missed
           /\ call'[c].landed = call[c].landed /\ call'[c].price = call[c].price
           /\ call'[c].verify = call[c].verify
           /\ \A b \in Calls \ {c} :
                /\ Undisturbed(b)
                /\ call[b].pc = "measured" \/ (call[b].pc = "acting" /\ Careless(c)) =>
                     call'[b].missed # {}
<1>1. call[c].pc = "measured" /\ call[c] \in WritingCall /\ WritingHolds(c)
  BY CallTypes DEF GoesUp, ShopInv, CallsHold, CallHolds, WritingPc
<1>2. call' = [b \in Calls |->
          IF b = c THEN [call[b] EXCEPT !.pc = "acting", !.bal = {}]
          ELSE IF call[b].pc = "measured" \/ (call[b].pc = "acting" /\ Careless(c))
               THEN [call[b] EXCEPT !.missed = @ \cup {c}] ELSE call[b]]
  BY DEF GoesUp
<1> DEFINE F(b) ==
          IF b = c THEN [call[b] EXCEPT !.pc = "acting", !.bal = {}]
          ELSE IF call[b].pc = "measured" \/ (call[b].pc = "acting" /\ Careless(c))
               THEN [call[b] EXCEPT !.missed = @ \cup {c}] ELSE call[b]
<1>3. call'[c] = [call[c] EXCEPT !.pc = "acting", !.bal = {}]
  <2>1. call'[c] = F(c)
    BY <1>2, Zenon
  <2> QED BY <2>1
<1>4. /\ call'[c] \in WritingCall
      /\ call'[c].pc = "acting" /\ SameTerms(c) /\ call'[c].missed = call[c].missed
      /\ call'[c].landed = call[c].landed /\ call'[c].price = call[c].price
      /\ call'[c].verify = call[c].verify
  BY <1>1, <1>3 DEF WritingCall, SameTerms, WritingPc
<1>5. ASSUME NEW b \in Calls \ {c}
      PROVE /\ Undisturbed(b) /\ call'[b] \in AnyCall
            /\ call[b].pc = "measured" \/ (call[b].pc = "acting" /\ Careless(c)) =>
                 call'[b].missed # {}
  <2> DEFINE misses == call[b].pc = "measured" \/ (call[b].pc = "acting" /\ Careless(c))
  <2>1. call'[b] = IF misses THEN [call[b] EXCEPT !.missed = @ \cup {c}] ELSE call[b]
    BY <1>2
  <2>2. misses => call[b].pc \in WritingPc /\ call[b] \in WritingCall
    BY CallTypes DEF ShopInv, WritingPc
  <2>3. call[b] \in AnyCall
    BY DEF ShopInv, ShopTyped, AnyCall
  <2> HIDE DEF misses
  <2>4. CASE misses
    <3>1. call'[b] = [call[b] EXCEPT !.missed = @ \cup {c}]
      BY <2>1, <2>4
    <3>2. call'[b] \in WritingCall
      BY <2>2, <2>4, <3>1 DEF WritingCall
    <3>3. Undisturbed(b) /\ c \in call'[b].missed
      BY <2>2, <2>4, <3>1 DEF WritingCall, Undisturbed
    <3> QED BY <3>2, <3>3 DEF AnyCall
  <2>5. CASE ~misses
    <3>1. call'[b] = call[b]
      BY <2>1, <2>5
    <3> QED BY <2>3, <2>5, <3>1 DEF Undisturbed, misses
  <2> QED BY <2>4, <2>5
<1>6. call' \in [Calls -> AnyCall]
  <2>1. \A b \in Calls : call'[b] \in AnyCall
    BY <1>4, <1>5 DEF AnyCall
  <2>2. call' = [b \in Calls |-> F(b)]
    BY <1>2
  <2> HIDE DEF F
  <2>3. DOMAIN call' = Calls /\ call' = [b \in Calls |-> call'[b]]
    BY <2>2
  <2> QED BY <2>1, <2>3
<1> QED BY <1>1, <1>4, <1>5, <1>6

LEMMA GoesUpKeepsInv == ASSUME ShopInv, NEW c \in Calls, GoesUp(c) PROVE ShopInv'
<1>1. /\ call[c].pc = "measured" /\ call[c] \in WritingCall /\ WritingHolds(c)
      /\ call' \in [Calls -> AnyCall]
      /\ call'[c].pc = "acting" /\ SameTerms(c) /\ call'[c].missed = call[c].missed
      /\ call'[c].landed = call[c].landed /\ call'[c].price = call[c].price
      /\ call'[c].verify = call[c].verify
      /\ \A b \in Calls \ {c} : Undisturbed(b)
  BY GoneUp
<1>2. \A b \in Calls \ {c} :
        call[b].pc = "measured" \/ (call[b].pc = "acting" /\ Careless(c)) =>
          call'[b].missed # {}
  BY GoneUp
<1>3. UNCHANGED <<balance, arrivals, offers, dropped, watching, told, echoes, wiped>> /\ faults' = faults
  BY DEF GoesUp, chain, stall, past, shut, bounds
<1>4. EntriesHold' /\ inFlight' \in Seq(Calls)
  BY <1>1, <1>3, EntriesGoUp DEF ShopInv, Acted, GoesUp
<1>5. ShopTyped'
  BY <1>1, <1>3, <1>4 DEF ShopInv, ShopTyped, AnyCall
<1>6. Seen(c)
  <2>1. WritingHolds(c)'
    BY <1>1, <1>3 DEF WritingHolds, Stands, SameTerms
  <2>2. CallHolds(c)'
    BY <1>1, <2>1 DEF CallHolds, WritingPc, SyncingPc
  <2>3. ~call[c].landed
    BY <1>1 DEF WritingHolds
  <2>4. \A b \in Calls : (Lister(b) /\ Lister(c) /\ call[b].target = call[c].target => b = c)'
    <3> SUFFICES ASSUME NEW b \in Calls \ {c}, Lister(b)', Lister(c)',
                        call'[b].target = call'[c].target PROVE FALSE
      OBVIOUS
    <3>1. Lister(b) /\ call[b].target = call'[b].target
      BY <1>1 DEF Lister, Undisturbed, WritingPc
    <3>2. Lister(c) /\ call[c].target = call'[c].target
      BY <1>1 DEF Lister, SameTerms
    <3> QED BY <3>1, <3>2 DEF ShopInv, CallsHold
  <2> QED BY <1>1, <1>3, <2>2, <2>3, <2>4, OffersStay DEF Seen, ShopInv
<1>7. CallsHold'
  BY <1>5, <1>6, StepKeepsCalls DEF ShopInv
<1>8. StallHolds'
  BY <1>1, <1>3, <1>6, StallStays DEF ShopInv, SyncingPc, Seen
<1>9. Advance({c}) /\ (call[c].landed => call[c].pc = "landed" /\ call'[c].landed)
  BY <1>6 DEF Seen
<1>10. DueMoved(c) /\ SinceMoved(c)
  BY <1>1, <1>5, <1>7, <1>9, SumsMove DEF ShopInv
<1>11. Showing(c)
  <2>1. \A a \in Assets : balance'[a] = balance[a] /\ balance[a] \in Nat
    BY <1>3 DEF ShopInv, ShopTyped
  <2>2. \A a \in Assets, s \in SUBSET Calls : SinceIn(c, a, s)' = 0 /\ SinceIn(c, a, s) = 0
    BY <1>1 DEF SinceIn
  <2> QED BY <2>1, <2>2 DEF Showing
<1>12. \A b \in Calls \ {c} : ReadingHolds(b)'
  BY <1>1, <1>5, <1>7, <1>9, <1>10, <1>11, ReadingsKept DEF ShopInv
<1>13. Cost(c)' = Cost(c) /\ Hidden(c)' = Hidden(c) /\ Careless(c)' = Careless(c)
  <2>1. Cost(c)' = Cost(c) /\ Hidden(c)' = Hidden(c)
    BY <1>1, <1>9, CostStays DEF ShopInv, WritingPc
  <2> QED BY <1>1, <2>1 DEF Careless
<1>14. ASSUME ~Careless(c), NEW a \in Assets,
              Due(a) <= balance[a] \/ (call[c].asset = a /\ call[c].raw > 0)
       PROVE  Due(a)' <= balance'[a]
  <2>1. Due(a)' = Due(a) + (DueIn(c, a)' - DueIn(c, a))
    BY <1>10 DEF DueMoved
  <2>2. DueIn(c, a) = 0 /\ DueIn(c, a)' = (IF call[c].asset = a THEN Cost(c) ELSE 0)
    BY <1>1, <1>13 DEF DueIn, SameTerms
  <2>3. Due(a) \in Nat /\ balance[a] \in Nat /\ Cost(c) \in Nat /\ call[c].raw \in Nat
        /\ Cost(c) <= call[c].raw
    BY <1>1, <1>14, SumTypes, CostType DEF ShopInv, SumsTyped, ShopTyped, Careless, WritingPc
  <2>4. Given(call[c].bal) \in Nat /\ Given(call[c].bal) >= call[c].raw
    <3>1. call[c].bal \in SUBSET Nat /\ ~(Given(call[c].bal) < call[c].raw)
      BY <1>1 DEF GoesUp, WritingCall
    <3>2. Given(call[c].bal) \in Nat
      BY <3>1, GivenType
    <3> QED BY <2>3, <3>1, <3>2
  <2>5. CASE call[c].asset = a /\ call[c].raw > 0
    <3>1. Given(call[c].bal) + Due(a) <= balance[a]
      BY <1>1, <1>14, <2>3, <2>4, <2>5 DEF ShopInv, PursesHold, PurseHolds, Careless
    <3> QED BY <1>3, <2>1, <2>2, <2>3, <2>4, <2>5, <3>1
  <2>6. CASE Due(a) <= balance[a] /\ ~(call[c].asset = a /\ call[c].raw > 0)
    BY <1>3, <2>1, <2>2, <2>3, <2>6
  <2> QED BY <1>14, <2>5, <2>6
<1>15. ASSUME NEW b \in Calls \ {c} PROVE PurseHolds(b)' /\ ActionHolds(b)'
  <2>1. Undisturbed(b)
    BY <1>1
  <2>2. PurseHolds(b)'
    BY <1>2, <2>1 DEF PurseHolds, Undisturbed
  <2>3. ASSUME NEW a \in Assets, call'[b].pc = "acting", call'[b].asset = a, ~Careless(b)',
               call'[b].raw > 0
        PROVE  Due(a)' <= balance'[a]
    <3>1. call[b].pc = "acting" /\ SameTerms(b) /\ call[b].missed \subseteq call'[b].missed
      BY <2>1, <2>3, UndisturbedTerms DEF Undisturbed, WritingPc
    <3>2. ~Careless(b) /\ ~Careless(c)
      BY <1>2, <1>9, <2>3, <3>1, CostStays DEF Careless, WritingPc, ShopInv
    <3>3. Due(a) <= balance[a]
      BY <2>3, <3>1, <3>2 DEF ShopInv, PursesHold, ActionHolds, SameTerms
    <3> QED BY <1>14, <3>2, <3>3
  <2> QED BY <2>2, <2>3 DEF ActionHolds
<1>16. OwnHold(c)'
  <2>1. ASSUME NEW a \in Assets, call'[c].asset = a, ~Careless(c)', call'[c].raw > 0
        PROVE  Due(a)' <= balance'[a]
    BY <1>1, <1>13, <1>14, <2>1 DEF SameTerms
  <2>2. ActionHolds(c)'
    BY <2>1 DEF ActionHolds
  <2> QED BY <1>1, <2>2 DEF OwnHold, ReadingHolds, PurseHolds
<1>17. PursesHold'
  BY <1>12, <1>15, <1>16 DEF PursesHold, OwnHold
<1> QED BY <1>4, <1>5, <1>7, <1>8, <1>17 DEF ShopInv

LEMMA ActKeepsInv == ASSUME ShopInv, NEW c \in Calls, Act(c) PROVE ShopInv'
<1>1. Unaffordable(c) \/ GoesUp(c)
  <2>1. CASE Given(call[c].bal) < call[c].raw
    BY <2>1 DEF Act, Unaffordable
  <2>2. CASE ~(Given(call[c].bal) < call[c].raw)
    BY <2>2 DEF Act, GoesUp
  <2> QED BY <2>1, <2>2
<1> QED BY <1>1, UnaffordableKeepsInv, GoesUpKeepsInv

LEMMA OfferMoves ==
    ASSUME ShopTyped, CallsHold, NEW D, NEW t \in Offers, Stands(t),
           NEW v \in {"stale", "taken", "cancelled"}, v = "stale" => OpenNow(t),
           offers' = [offers EXCEPT ![t].state = v]
    PROVE  /\ offers' \in [Offers -> Offer] /\ Advance(D)
           /\ \A o \in Offers : offers'[o].state = "none" => offers'[o] = NoOffer
<1> DEFINE n == [offers[t] EXCEPT !.state = v]
<1>1. offers' = [offers EXCEPT ![t] = n]
  OBVIOUS
<1>2. offers \in [Offers -> Offer] /\ offers[t] \in Offer
      /\ \A o \in Offers : offers[o].state = "none" => offers[o] = NoOffer
  BY DEF ShopTyped, CallsHold, Stands
<1>3. n \in Offer /\ n.state = v /\ n.seller = offers[t].seller /\ n.qty = offers[t].qty
      /\ n.price = offers[t].price
  BY <1>2 DEF Offer, States
<1> HIDE DEF n
<1>4. offers' \in [Offers -> Offer] /\ offers'[t] = n
      /\ \A o \in Offers : o # t => offers'[o] = offers[o]
  BY <1>1, <1>2, <1>3
<1>5. Advance(D)
  <2> SUFFICES ASSUME NEW o \in Offers
               PROVE  IF Stands(o)
                      THEN /\ offers'[o].state # "none"
                           /\ offers'[o].seller = offers[o].seller
                           /\ offers'[o].qty = offers[o].qty
                           /\ offers'[o].price = offers[o].price
                           /\ offers'[o].state \in {"open", "stale"} => OpenNow(o)
                      ELSE offers'[o] = offers[o]
    BY DEF Advance
  <2>1. CASE o = t
    BY <1>3, <1>4, <2>1 DEF Stands
  <2>2. CASE o # t
    BY <1>4, <2>2 DEF Stands, OpenNow
  <2> QED BY <2>1, <2>2
<1> QED BY <1>2, <1>3, <1>4, <1>5

\* What a block takes is what it costs, and it writes the offer of its call.
LEMMA Effective ==
    ASSUME ShopInv, NEW c \in Calls, call[c].pc \in {"acting", "adrift"},
           Allowed(c), Affords(c), Effect(c)
    PROVE  /\ balance' \in [Assets -> Nat] /\ arrivals' \in [Assets -> Nat]
           /\ offers' \in [Offers -> Offer]
           /\ \A a \in Assets : balance[a] <= balance'[a] +
                                  (IF call[c].asset = a THEN Cost(c) ELSE 0)
           /\ Advance({c})
           /\ \A o \in Offers : offers'[o].state = "none" => offers'[o] = NoOffer
           /\ call[c].op = "list" => offers'[call[c].target].state # "none"
<1>1. call[c] \in WritingCall /\ WritingHolds(c) /\ Cost(c) \in Nat
      /\ (call[c].op = "cancel" => Cost(c) = 0)
  BY CallTypes, CostType DEF ShopInv, CallsHold, CallHolds, WritingPc
<1> DEFINE a == call[c].asset
           t == call[c].target
<1>2. a \in Assets /\ balance \in [Assets -> Nat] /\ arrivals \in [Assets -> Nat]
      /\ offers \in [Offers -> Offer] /\ call[c].raw \in Nat /\ Given(call[c].price) \in Nat
      /\ balance[a] >= Cost(c)
  BY <1>1, GivenType DEF WritingCall, ShopInv, ShopTyped, Affords
<1>3. call[c].op # "gift" => t \in Offers /\ offers[t].qty \in Nat
  BY <1>1, OfferTypes DEF WritingHolds, Offers, ShopInv, WritingCall, Ops
<1>4. \A o \in Offers : offers[o].state = "none" => offers[o] = NoOffer
  BY DEF ShopInv, CallsHold, Stands
<1>5. balance' \in [Assets -> Nat] /\
      \A x \in Assets : balance[x] <= balance'[x] + (IF a = x THEN Cost(c) ELSE 0)
  <2>1. CASE call[c].op = "cancel"
    <3>1. balance' = [balance EXCEPT ![a] = @ + offers[t].qty]
      BY <2>1 DEF Effect
    <3> HIDE DEF a, t
    <3> QED BY <1>1, <1>2, <1>3, <2>1, <3>1
  <2>2. CASE call[c].op # "cancel"
    <3>1. balance' = [balance EXCEPT ![a] = @ - Cost(c)]
      BY <2>2 DEF Effect
    <3> HIDE DEF a
    <3>2. balance[a] - Cost(c) \in Nat
      BY <1>1, <1>2
    <3> QED BY <1>1, <1>2, <3>1, <3>2
  <2> QED BY <2>1, <2>2
<1>6. arrivals' \in [Assets -> Nat]
  <2>1. CASE call[c].op = "buy"
    <3>1. arrivals' = [arrivals EXCEPT !["ware"] = @ + offers[t].qty]
      BY <2>1 DEF Effect
    <3> HIDE DEF t
    <3> QED BY <1>2, <1>3, <2>1, <3>1 DEF Assets
  <2>2. CASE call[c].op # "buy"
    BY <1>2, <2>2 DEF Effect
  <2> QED BY <2>1, <2>2
<1>7. /\ offers' \in [Offers -> Offer] /\ Advance({c})
      /\ \A o \in Offers : offers'[o].state = "none" => offers'[o] = NoOffer
      /\ call[c].op = "list" => offers'[t].state # "none"
  <2>1. CASE call[c].op = "list"
    <3> DEFINE n == OpenOffer("me", call[c].raw, Given(call[c].price))
    <3>1. offers' = [offers EXCEPT ![t] = n]
      BY <2>1 DEF Effect
    <3>2. n \in Offer /\ n.state = "open"
      BY <1>2 DEF OpenOffer, Offer, States
    <3>3. t \in Offers /\ ~Stands(t) /\ Lister(c)
      BY <1>1, <1>3, <2>1 DEF WritingHolds, Lister
    <3> HIDE DEF n
    <3>4. offers' \in [Offers -> Offer] /\ offers'[t] = n
          /\ \A o \in Offers : o # t => offers'[o] = offers[o]
      BY <1>2, <3>1, <3>2, <3>3
    <3>5. Advance({c})
      <4> SUFFICES ASSUME NEW o \in Offers
                   PROVE  IF Stands(o)
                          THEN /\ offers'[o].state # "none"
                               /\ offers'[o].seller = offers[o].seller
                               /\ offers'[o].qty = offers[o].qty
                               /\ offers'[o].price = offers[o].price
                               /\ offers'[o].state \in {"open", "stale"} => OpenNow(o)
                          ELSE \/ offers'[o] = offers[o]
                               \/ offers'[o].state # "none" /\ Lister(c) /\ call[c].target = o
        BY DEF Advance
      <4>1. CASE o = t
        BY <3>2, <3>3, <3>4, <4>1
      <4>2. CASE o # t
        BY <3>4, <4>2 DEF Stands, OpenNow
      <4> QED BY <4>1, <4>2
    <3> QED BY <1>4, <3>2, <3>4, <3>5
  <2>2. CASE call[c].op \in {"buy", "cancel"}
    <3>1. PICK v \in {"taken", "cancelled"} : offers' = [offers EXCEPT ![t].state = v]
      BY <2>2 DEF Effect
    <3>2. t \in Offers /\ Stands(t)
      BY <1>1, <1>3, <2>2 DEF WritingHolds
    <3> QED BY <2>2, <3>1, <3>2, OfferMoves DEF ShopInv
  <2>3. CASE call[c].op = "gift"
    <3>1. offers' = offers
      BY <2>3 DEF Effect
    <3> QED BY <1>2, <1>4, <2>3, <3>1, OffersStay DEF ShopInv
  <2> QED BY <1>1, <2>1, <2>2, <2>3 DEF WritingCall, Ops
<1> QED BY <1>5, <1>6, <1>7

\* The block lands, of a call that is waited for or of one that was given up.
LEMMA LandStep ==
    ASSUME ShopInv, NEW c \in Calls, NEW r \in AnyCall, call' = [call EXCEPT ![c] = r],
           call[c].pc \in {"acting", "adrift"}, Allowed(c), Affords(c), Effect(c),
           UNCHANGED <<inFlight, stall, shut, bounds>>, r.landed = TRUE,
           \/ /\ call[c].pc = "acting" /\ r.pc = "landed" /\ SameTerms(c)
              /\ r.price = call[c].price /\ r.verify = call[c].verify
           \/ call[c].pc = "adrift" /\ r.pc = "done" /\ r.answer = "failed"
    PROVE  ShopInv'
<1>1. /\ call' \in [Calls -> AnyCall] /\ call'[c] = r
      /\ \A b \in Calls \ {c} : call'[b] = call[b] /\ Undisturbed(b)
  BY OneCallMoves DEF ShopInv
<1>2. /\ balance' \in [Assets -> Nat] /\ arrivals' \in [Assets -> Nat]
      /\ offers' \in [Offers -> Offer]
      /\ \A a \in Assets : balance[a] <= balance'[a] +
                             (IF call[c].asset = a THEN Cost(c) ELSE 0)
      /\ Advance({c})
      /\ \A o \in Offers : offers'[o].state = "none" => offers'[o] = NoOffer
      /\ call[c].op = "list" => offers'[call[c].target].state # "none"
  BY Effective
<1>3. UNCHANGED <<inFlight, dropped, watching, told, echoes, wiped>> /\ faults' = faults
  BY DEF stall, past, shut, bounds
<1>4. ShopTyped'
  BY <1>1, <1>2, <1>3 DEF ShopInv, ShopTyped, AnyCall
<1>5. call[c] \in WritingCall /\ WritingHolds(c) /\ ~call[c].landed
  BY CallTypes DEF ShopInv, CallsHold, CallHolds, WritingHolds, WritingPc
<1>6. CallHolds(c)'
  <2>1. CASE r.pc = "landed"
    <3>1. SameTerms(c) /\ r.price = call[c].price /\ r.verify = call[c].verify
      BY <2>1
    <3>2. call[c].op \in {"buy", "cancel"} =>
            /\ call[c].target \in Offers /\ offers'[call[c].target].state # "none"
            /\ offers'[call[c].target].price = Price(c)
      BY <1>2, <1>5 DEF WritingHolds, Offers, Advance, Price
    <3>3. call[c].op = "buy" /\ call[c].verify => call[c].price = {Price(c)}
      BY DEF Allowed, Matches
    <3>4. WritingHolds(c)'
      <4>1. /\ call'[c].pc = "landed" /\ call'[c].landed = TRUE
            /\ call'[c].op = call[c].op /\ call'[c].target = call[c].target
            /\ call'[c].asset = call[c].asset /\ call'[c].raw = call[c].raw
            /\ call'[c].price = call[c].price /\ call'[c].verify = call[c].verify
        BY <1>1, <2>1, <3>1 DEF SameTerms
      <4>2. call[c].op \in {"list", "buy", "cancel"} =>
              call[c].target \in Offers /\ offers'[call[c].target].state # "none"
        BY <1>2, <1>5, <3>2 DEF WritingHolds, Offers
      <4>3. Price(c)' = offers'[call[c].target].price
        BY <4>1 DEF Price
      <4> QED BY <1>5, <3>2, <3>3, <4>1, <4>2, <4>3 DEF WritingHolds, Stands
    <3> QED BY <1>1, <2>1, <3>4 DEF CallHolds, WritingPc, SyncingPc
  <2>2. CASE r.pc = "done"
    BY <1>1, <2>2 DEF CallHolds, AnswerHolds, WritingPc, SyncingPc
  <2> QED BY <2>1, <2>2
<1>7. Seen(c)
  <2>1. ~Lister(c)'
    BY <1>1 DEF Lister
  <2> QED BY <1>1, <1>2, <1>5, <1>6, <2>1 DEF Seen, Stands
<1>8. CallsHold'
  BY <1>4, <1>7, StepKeepsCalls DEF ShopInv
<1>9. EntriesHold'
  BY <1>1, <1>3, EntriesStay DEF ShopInv, Acts, Acted
<1>10. StallHolds'
  BY <1>1, <1>2, <1>3, StallStays DEF ShopInv, SyncingPc
<1>11. Cost(c) \in Nat
  BY CostType DEF ShopInv, WritingPc
<1>12. Backed(c)
  <2>1. ASSUME NEW a \in Assets PROVE balance[a] + DueIn(c, a)' <= balance'[a] + DueIn(c, a)
    <3>1. DueIn(c, a)' = 0 /\ DueIn(c, a) = (IF call[c].asset = a THEN Cost(c) ELSE 0)
      BY <1>1 DEF DueIn
    <3>2. balance[a] \in Nat /\ balance'[a] \in Nat
      BY <1>2 DEF ShopInv, ShopTyped
    <3> QED BY <1>2, <1>11, <3>1, <3>2
  <2> QED BY <2>1 DEF Backed
<1>13. Showing(c)
  <2> SUFFICES ASSUME NEW b \in Calls \ {c}, NEW a \in Assets, NEW s \in SUBSET Calls,
                      call[b].pc = "reading", call[b].seen = s, Landed' \ s \subseteq At("landed")'
               PROVE  balance[a] + SinceIn(c, a, s) <= balance'[a] + SinceIn(c, a, s)'
    BY DEF Showing
  <2>1. c \notin s
    BY <1>5 DEF ShopInv, CallsHold, CallHolds, WritingHolds, WritingPc, Landed
  <2>2. r.pc = "landed" /\ SameTerms(c)
    BY <1>1, <2>1 DEF Landed, At
  <2>3. Cost(c)' = Cost(c)
    BY <1>2, <2>2, CostStays DEF ShopInv, WritingPc
  <2>4. SinceIn(c, a, s) = 0 /\ SinceIn(c, a, s)' = (IF call[c].asset = a THEN Cost(c) ELSE 0)
    BY <1>1, <2>1, <2>2, <2>3 DEF SinceIn, SameTerms
  <2>5. balance[a] \in Nat /\ balance'[a] \in Nat
    BY <1>2 DEF ShopInv, ShopTyped
  <2> QED BY <1>2, <1>11, <2>4, <2>5
<1>14. OwnHold(c)'
  BY <1>1 DEF OwnHold, ReadingHolds, PurseHolds, ActionHolds
<1> QED BY <1>4, <1>7, <1>9, <1>10, <1>12, <1>13, <1>14, StepKeepsInv

LEMMA LandKeepsInv == ASSUME ShopInv, NEW c \in Calls, Land(c) PROVE ShopInv'
<1> DEFINE r == [call[c] EXCEPT !.pc = "landed", !.landed = TRUE]
<1>1. call[c].pc = "acting" /\ Allowed(c) /\ Affords(c) /\ Effect(c)
      /\ UNCHANGED <<inFlight, stall, shut, bounds>>
  BY DEF Land
<1>2. call[c] \in WritingCall
  BY <1>1, CallTypes DEF ShopInv, WritingPc
<1>3. call' = [call EXCEPT ![c] = r]
  BY DEF Land
<1>4. /\ r \in AnyCall /\ r.landed = TRUE /\ r.pc = "landed" /\ r.price = call[c].price
      /\ r.verify = call[c].verify /\ r.op = call[c].op /\ r.target = call[c].target
      /\ r.asset = call[c].asset /\ r.raw = call[c].raw
  BY <1>2 DEF WritingCall, AnyCall, WritingPc
<1> HIDE DEF r
<1>5. SameTerms(c)
  <2>1. call'[c] = r
    BY <1>3, <1>4, OneCallMoves DEF ShopInv
  <2> QED BY <1>4, <2>1 DEF SameTerms
<1> QED BY <1>1, <1>3, <1>4, <1>5, LandStep

LEMMA LandsLateKeepsInv == ASSUME ShopInv, NEW c \in Calls, LandsLate(c) PROVE ShopInv'
<1> DEFINE r == [Ended(c, "failed") EXCEPT !.landed = TRUE]
<1>1. call[c].pc = "adrift" /\ Allowed(c) /\ Affords(c) /\ Effect(c)
      /\ UNCHANGED <<inFlight, stall, shut, bounds>>
  BY DEF LandsLate
<1>2. Ended(c, "failed") \in DoneCall /\ Ended(c, "failed").answer = "failed"
  BY <1>1, EndedIs DEF WritingPc, Answers
<1>3. call' = [call EXCEPT ![c] = r]
  BY DEF LandsLate
<1>4. r \in AnyCall /\ r.landed = TRUE /\ r.pc = "done" /\ r.answer = "failed"
  BY <1>2 DEF DoneCall, AnyCall
<1> HIDE DEF r
<1> QED BY <1>1, <1>3, <1>4, LandStep

\* The argument of shop.ts:250: who has missed nothing, and whose cost was not
\* hidden, is not refused for want of balance.
LEMMA OverspentHasCause ==
    ASSUME ShopInv, NEW c \in Calls, call[c].pc = "acting", ~Affords(c)
    PROVE  Careless(c)
<1> SUFFICES ASSUME ~Careless(c) PROVE FALSE
  OBVIOUS
<1> DEFINE a == call[c].asset
           U == [b \in Calls |-> DueIn(b, a)]
<1>1. call[c] \in WritingCall /\ a \in Assets /\ call[c].raw \in Nat /\ balance[a] \in Nat
  BY CallTypes DEF ShopInv, ShopTyped, WritingPc, WritingCall
<1>2. Cost(c) \in Nat /\ Cost(c) <= call[c].raw
  BY CostType DEF ShopInv, WritingPc, Careless
<1>3. balance[a] < Cost(c)
  BY <1>1, <1>2 DEF Affords
<1>4. Due(a) <= balance[a]
  BY <1>1, <1>2, <1>3 DEF ShopInv, PursesHold, ActionHolds
<1>5. U \in [Calls -> Nat] /\ U[c] = Cost(c)
  BY <1>1, EntryTypes DEF ShopInv, EntriesTyped, DueIn
<1>6. Due(a) = SumFunction(U) /\ Due(a) \in Nat
  BY <1>1, SumTypes DEF Due, ShopInv, SumsTyped
<1> HIDE DEF U
<1>7. U[c] <= SumFunction(U)
  <2>1. U \in [Calls -> Int] /\ \A b \in Calls : U[b] \in Nat
    BY <1>5
  <2> QED BY <2>1, SumHoldsEach, ShopAssumption
<1> HIDE DEF a
<1> QED BY <1>1, <1>2, <1>3, <1>4, <1>5, <1>6, <1>7

\* An action that throws.
LEMMA ThrowStep ==
    ASSUME ShopInv, NEW c \in Calls, NEW answer \in {"refused", "overspent", "failed"},
           call[c].pc = "acting" \/ (call[c].pc = "landed" /\ answer = "failed"),
           answer = "overspent" => ~Affords(c),
           Rejected(c, answer), UNCHANGED <<chain, stall, shut>>, faults' \in 0..MaxFaults
    PROVE  ShopInv'
<1> DEFINE r == Ended(c, answer)
<1>1. WritingHolds(c) /\ call[c].pc \in WritingPc /\ answer \in Answers
  BY DEF ShopInv, CallsHold, CallHolds, WritingPc, Answers
<1>2. /\ r \in AnyCall /\ r.pc = "done" /\ r.answer = answer /\ r.landed = call[c].landed
      /\ r.cause = IF answer = "overspent" THEN Careless(c) ELSE TRUE
  BY <1>1, EndedIs
<1>3. call' = [call EXCEPT ![c] = r] /\ inFlight' = Down(c)
  BY DEF Rejected
<1> HIDE DEF r
<1>4. call'[c] = r /\ \A b \in Calls \ {c} : Undisturbed(b)
  BY <1>2, <1>3, OneCallMoves DEF ShopInv
<1>5. UNCHANGED <<balance, arrivals, offers, dropped, watching, told, echoes, wiped>>
  BY DEF chain, stall, past, shut
<1>6. CallHolds(c)'
  <2>1. answer = "overspent" => r.cause
    BY <1>2, OverspentHasCause
  <2>2. r.landed => answer = "failed"
    BY <1>1, <1>2 DEF WritingHolds
  <2> QED BY <1>2, <1>4, <2>1, <2>2 DEF CallHolds, AnswerHolds, WritingPc, SyncingPc
<1>7. StallHolds'
  <2>1. Advance({c})
    BY <1>5, OffersStay DEF ShopInv
  <2>2. call[c].pc \notin SyncingPc \cup {"done"} /\ call'[c].pc \notin SyncingPc
        /\ call'[c].answer # "done"
    BY <1>2, <1>4 DEF SyncingPc
  <2> QED BY <1>4, <1>5, <2>1, <2>2, StallStays DEF ShopInv
<1>8. /\ balance' \in [Assets -> Nat] /\ \A a \in Assets : balance[a] <= balance'[a]
      /\ arrivals' \in [Assets -> Nat] /\ watching' \in SUBSET Lots /\ echoes' \in [Lots -> Nat] /\ wiped' \in SUBSET Lots
  BY <1>5 DEF ShopInv, ShopTyped
<1> QED BY <1>2, <1>3, <1>5, <1>6, <1>7, <1>8, DownStep

LEMMA RefusedKeepsInv == ASSUME ShopInv, NEW c \in Calls, Refused(c) PROVE ShopInv'
<1>1. faults' \in 0..MaxFaults
  BY DEF Refused, bounds, ShopInv, ShopTyped
<1> QED BY <1>1, ThrowStep DEF Refused

LEMMA FailsKeepsInv == ASSUME ShopInv, NEW c \in Calls, Fails(c) PROVE ShopInv'
<1>1. faults' \in 0..MaxFaults
  BY ShopAssumption DEF Fails, Fault, ShopInv, ShopTyped
<1> QED BY <1>1, ThrowStep DEF Fails

LEMMA TimesOutKeepsInv == ASSUME ShopInv, NEW c \in Calls, TimesOut(c) PROVE ShopInv'
<1> DEFINE r == [call[c] EXCEPT !.pc = "adrift", !.missed = {}]
<1>1. call[c].pc = "acting" /\ call[c] \in WritingCall /\ WritingHolds(c)
  BY CallTypes DEF TimesOut, ShopInv, CallsHold, CallHolds, WritingPc
<1>2. call' = [call EXCEPT ![c] = r] /\ inFlight' = Down(c)
  BY DEF TimesOut
<1>3. /\ r \in WritingCall /\ r \in AnyCall /\ r.pc = "adrift" /\ r.landed = call[c].landed
      /\ r.op = call[c].op /\ r.target = call[c].target /\ r.asset = call[c].asset
      /\ r.raw = call[c].raw
  BY <1>1 DEF WritingCall, AnyCall, WritingPc
<1> HIDE DEF r
<1>4. call'[c] = r /\ \A b \in Calls \ {c} : Undisturbed(b)
  BY <1>2, <1>3, OneCallMoves DEF ShopInv
<1>5. UNCHANGED <<balance, arrivals, offers, dropped, watching, told, echoes, wiped>>
      /\ faults' \in 0..MaxFaults
  BY ShopAssumption DEF TimesOut, Fault, chain, stall, past, shut, ShopInv, ShopTyped
<1>6. CallHolds(c)'
  <2>1. WritingHolds(c)'
    BY <1>1, <1>3, <1>4, <1>5 DEF WritingHolds, Stands
  <2> QED BY <1>3, <1>4, <2>1 DEF CallHolds, WritingPc, SyncingPc
<1>7. StallHolds'
  <2>1. Advance({c})
    BY <1>5, OffersStay DEF ShopInv
  <2>2. call[c].pc \notin SyncingPc \cup {"done"} /\ call'[c].pc \notin SyncingPc \cup {"done"}
    BY <1>1, <1>3, <1>4 DEF SyncingPc
  <2> QED BY <1>4, <1>5, <2>1, <2>2, StallStays DEF ShopInv
<1>8. /\ balance' \in [Assets -> Nat] /\ \A a \in Assets : balance[a] <= balance'[a]
      /\ arrivals' \in [Assets -> Nat] /\ watching' \in SUBSET Lots /\ echoes' \in [Lots -> Nat] /\ wiped' \in SUBSET Lots
  BY <1>5 DEF ShopInv, ShopTyped
<1>9. SameTerms(c)
  BY <1>3, <1>4 DEF SameTerms
<1> QED BY <1>1, <1>2, <1>3, <1>5, <1>6, <1>7, <1>8, <1>9, DownStep

\* What is on its way comes home.
LEMMA Collected ==
    ASSUME ShopTyped, CollectAll
    PROVE  /\ balance' \in [Assets -> Nat] /\ arrivals' \in [Assets -> Nat] /\ offers' = offers
           /\ \A a \in Assets : balance[a] <= balance'[a]
<1>1. \A a \in Assets : balance[a] \in Nat /\ arrivals[a] \in Nat
  BY DEF ShopTyped
<1>2. balance' = [a \in Assets |-> balance[a] + arrivals[a]] /\ arrivals' = Zero
      /\ offers' = offers
  BY DEF CollectAll
<1> QED BY <1>1, <1>2 DEF Zero

LEMMA FinishKeepsInv == ASSUME ShopInv, NEW c \in Calls, Finish(c) PROVE ShopInv'
<1> DEFINE r == Ended(c, "done")
           lot == call[c].target
<1>1. call[c].pc = "landed" /\ call[c] \in WritingCall /\ WritingHolds(c)
  BY CallTypes DEF Finish, ShopInv, CallsHold, CallHolds, WritingPc
<1>2. /\ r \in AnyCall /\ r.pc = "done" /\ r.answer = "done" /\ r.landed = call[c].landed
      /\ r.op = call[c].op /\ r.target = lot
  BY <1>1, EndedIs DEF WritingPc, Answers, Ended
<1>3. call' = [call EXCEPT ![c] = r] /\ inFlight' = Down(c)
  BY DEF Finish
<1>4. call[c].op = "list" => lot \in Lots /\ Stands(lot)
  BY <1>1 DEF WritingHolds
<1>5. /\ IF call[c].op = "list"
         THEN /\ watching' = watching \cup {lot} /\ wiped' = wiped \ {lot}
              /\ echoes' = [echoes EXCEPT ![lot] = IF told[lot] > @ THEN @ + 1 ELSE @]
         ELSE UNCHANGED <<watching, echoes, wiped>>
      /\ told' = told /\ dropped' = dropped /\ faults' = faults
      /\ IF call[c].op = "buy" THEN CollectAll ELSE UNCHANGED chain
  BY DEF Finish, Watch, shut, bounds
<1> HIDE DEF r, lot
<1>6. call'[c] = r /\ \A b \in Calls \ {c} : call'[b] = call[b]
  BY <1>2, <1>3, OneCallMoves DEF ShopInv
<1>7. /\ balance' \in [Assets -> Nat] /\ arrivals' \in [Assets -> Nat] /\ offers' = offers
      /\ \A a \in Assets : balance[a] <= balance'[a]
  <2>1. CASE call[c].op = "buy"
    BY <1>5, <2>1, Collected DEF ShopInv
  <2>2. CASE call[c].op # "buy"
    BY <1>5, <2>2 DEF chain, ShopInv, ShopTyped
  <2> QED BY <2>1, <2>2
<1>8. watching' \in SUBSET Lots /\ echoes' \in [Lots -> Nat] /\ wiped' \in SUBSET Lots
  <2>1. /\ watching \in SUBSET Lots /\ wiped \in SUBSET Lots
        /\ echoes \in [Lots -> Nat] /\ told \in [Lots -> Nat]
    BY DEF ShopInv, ShopTyped
  <2>2. CASE call[c].op = "list"
    <3>1. \A l \in Lots : echoes[l] \in Nat /\ echoes[l] + 1 \in Nat
      BY <2>1
    <3> QED BY <1>4, <1>5, <2>1, <2>2, <3>1
  <2>3. CASE call[c].op # "list"
    BY <1>5, <2>1, <2>3
  <2> QED BY <2>2, <2>3
<1>9. CallHolds(c)'
  <2>1. r.landed
    BY <1>1, <1>2 DEF WritingHolds
  <2> QED BY <1>2, <1>6, <2>1 DEF CallHolds, AnswerHolds, WritingPc, SyncingPc
<1>10. StallHolds'
  <2>1. Syncing' = Syncing /\ \A b \in Syncing : call'[b] = call[b]
    BY <1>1, <1>2, <1>6 DEF Syncing
  <2>2. Listed' \subseteq Listed \cup (IF call[c].op = "list" THEN {lot} ELSE {})
    <3> SUFFICES ASSUME NEW b \in Calls, call'[b].pc = "done", call'[b].op = "list",
                        call'[b].answer = "done"
                 PROVE  call'[b].target \in Listed \/ (call[c].op = "list" /\ call'[b].target = lot)
      BY DEF Listed, At
    <3>1. CASE b = c
      BY <1>2, <1>6, <3>1
    <3>2. CASE b # c
      BY <1>6, <3>2 DEF Listed, At
    <3> QED BY <3>1, <3>2
  <2>3. \A l \in Lots : told[l] \in Nat /\ echoes[l] \in Nat
    BY DEF ShopInv, ShopTyped
  <2>4. \A l \in watching' : Stands(l)'
    BY <1>4, <1>5, <1>7 DEF StallHolds, ShopInv, Stands
  <2>5. \A l \in Lots : Stands(l)' = Stands(l) /\ OpenNow(l)' = OpenNow(l)
    BY <1>7 DEF Stands, OpenNow
  <2>6. ASSUME NEW l \in Lots
        PROVE  /\ told'[l] <= 1 + echoes'[l]
               /\ told'[l] > 0 => Stands(l) /\ ~OpenNow(l)
               /\ Held(l)' => told'[l] <= echoes'[l]
               /\ l \in Listed' => Held(l)' \/ told'[l] > 0 \/ l \in wiped'
    <3>1. /\ told[l] <= 1 + echoes[l] /\ (told[l] > 0 => Stands(l) /\ ~OpenNow(l))
          /\ Held(l) => told[l] <= echoes[l]
          /\ l \in Listed => Held(l) \/ told[l] > 0 \/ l \in wiped
      BY DEF StallHolds, ShopInv
    <3>2. CASE call[c].op = "list" /\ l = lot
      <4>1. echoes'[l] = IF told[l] > echoes[l] THEN echoes[l] + 1 ELSE echoes[l]
        BY <1>4, <1>5, <3>2 DEF ShopInv, ShopTyped
      <4>2. told'[l] <= echoes'[l] /\ echoes'[l] \in Nat
        BY <1>5, <2>3, <3>1, <4>1
      <4>3. Held(l)'
        BY <1>5, <3>2 DEF Held
      <4> QED BY <1>5, <2>3, <3>1, <4>2, <4>3
    <3>3. CASE ~(call[c].op = "list" /\ l = lot)
      <4>1. echoes'[l] = echoes[l] /\ (l \in wiped' <=> l \in wiped)
            /\ (l \in watching' <=> l \in watching)
        BY <1>5, <3>3 DEF ShopInv, ShopTyped
      <4>2. Held(l)' = Held(l)
        BY <2>1, <4>1 DEF Held, Holders
      <4>3. l \in Listed' => l \in Listed
        BY <2>2, <3>3
      <4> QED BY <1>5, <3>1, <4>1, <4>2, <4>3
    <3> QED BY <3>2, <3>3
  <2> QED BY <2>4, <2>5, <2>6 DEF StallHolds
<1>11. faults' \in 0..MaxFaults
  BY <1>5 DEF ShopInv, ShopTyped
<1> QED BY <1>1, <1>2, <1>3, <1>5, <1>7, <1>8, <1>9, <1>10, <1>11, DownStep

\* Nothing was forgotten before close().
ClosingHolds == ~closed => dropped = {}

\* close() takes the entries of what acts.
LEMMA CloseKeepsInv == ASSUME ShopInv, ClosingHolds, Close PROVE ShopInv'
<1>1. inFlight' = <<>> /\ dropped' = Range(inFlight)
      /\ UNCHANGED <<chain, call, stall, bounds>> /\ ~closed
  BY DEF Close
<1>2. UNCHANGED <<balance, arrivals, offers, watching, told, echoes, wiped, call, faults>>
  BY <1>1 DEF chain, stall, past, bounds
<1>3. ShopTyped'
  BY <1>1, <1>2 DEF ShopInv, ShopTyped
<1>4. CallsHold'
  BY <1>2 DEF ShopInv, CallsHold, CallHolds, WritingHolds, AnswerHolds, RoundHolds, Lister,
              Stands, OpenNow, Landed, Price
<1>5. PursesHold'
  BY <1>2 DEF ShopInv, PursesHold, ReadingHolds, PurseHolds, ActionHolds, Careless, Hidden,
              Landed, At, Due, DueIn, Since, SinceIn, Cost, Price
<1>6. StallHolds'
  BY <1>2 DEF ShopInv, StallHolds, Held, Holders, Syncing, Listed, At, Stands, OpenNow
<1>7. EntriesHold'
  <2>1. Range(inFlight') = {} /\ IsInjective(inFlight')
    BY <1>1 DEF Range, IsInjective
  <2>2. Range(inFlight) = At("acting") \cup At("landed")
    BY <1>1 DEF ShopInv, EntriesHold, PendingIsTrue, ClosingHolds
  <2>3. /\ At("acting")' = At("acting") /\ At("landed")' = At("landed")
        /\ At("adrift")' = At("adrift") /\ At("done")' = At("done")
    BY <1>2 DEF At
  <2> QED BY <1>1, <2>1, <2>2, <2>3 DEF EntriesHold, PendingIsTrue
<1> QED BY <1>3, <1>4, <1>5, <1>6, <1>7 DEF ShopInv

-----------------------------------------------------------------------------
(* The rounds.                                                             *)

LEMMA SyncStep ==
    ASSUME ShopInv, NEW c \in Calls, NEW r \in AnyCall, call' = [call EXCEPT ![c] = r],
           call[c].pc \in SyncingPc \cup {"ready"}, r.pc \in SyncingPc \cup {"done"},
           CallHolds(c)', StallHolds',
           balance' \in [Assets -> Nat], \A a \in Assets : balance[a] <= balance'[a],
           arrivals' \in [Assets -> Nat], watching' \in SUBSET Lots, echoes' \in [Lots -> Nat], wiped' \in SUBSET Lots,
           told' \in [Lots -> Nat], faults' \in 0..MaxFaults,
           UNCHANGED <<offers, inFlight, dropped>>
    PROVE  ShopInv'
<1>1. /\ call' \in [Calls -> AnyCall] /\ call'[c] = r
      /\ \A b \in Calls \ {c} : call'[b] = call[b] /\ Undisturbed(b)
  BY OneCallMoves DEF ShopInv
<1>2. ShopTyped'
  BY <1>1 DEF ShopInv, ShopTyped, AnyCall
<1>3. Seen(c)
  <2>1. ~call[c].landed
    BY CallTypes DEF ShopInv, ReadyCall, SyncCall
  <2>2. ~Lister(c)'
    BY <1>1 DEF Lister, SyncingPc
  <2> QED BY <1>1, <2>1, <2>2, OffersStay DEF Seen, ShopInv
<1>4. EntriesHold'
  BY <1>1, EntriesStay DEF ShopInv, Acts, Acted, SyncingPc
<1>5. Backed(c) /\ Showing(c)
  <2>1. \A a \in Assets : balance[a] \in Nat /\ balance'[a] \in Nat
    BY DEF ShopInv, ShopTyped
  <2>2. \A a \in Assets : DueIn(c, a)' = 0 /\ DueIn(c, a) = 0
    BY <1>1 DEF DueIn, SyncingPc
  <2>3. \A a \in Assets, s \in SUBSET Calls : SinceIn(c, a, s)' = 0 /\ SinceIn(c, a, s) = 0
    BY <1>1 DEF SinceIn, SyncingPc
  <2> QED BY <2>1, <2>2, <2>3 DEF Backed, Showing
<1>6. OwnHold(c)'
  BY <1>1 DEF OwnHold, ReadingHolds, PurseHolds, ActionHolds, SyncingPc
<1> QED BY <1>2, <1>3, <1>4, <1>5, <1>6, StepKeepsInv

\* A round goes on, or is given up: the stall is what it was.
LEMMA RoundStep ==
    ASSUME ShopInv, NEW c \in Calls, NEW r \in AnyCall, call' = [call EXCEPT ![c] = r],
           call[c].pc \in SyncingPc, r.pc \in SyncingPc \cup {"done"}, r.op = "sync",
           \A l \in call[c].asked : r.pc \in SyncingPc /\ l \in r.asked,
           r.pc \in SyncingPc => \A l \in r.asked \ call[c].asked : told[l] = 0,
           CallHolds(c)',
           balance' \in [Assets -> Nat], \A a \in Assets : balance[a] <= balance'[a],
           arrivals' \in [Assets -> Nat], faults' \in 0..MaxFaults,
           UNCHANGED <<offers, inFlight, stall, shut>>
    PROVE  ShopInv'
<1>1. call'[c] = r /\ \A b \in Calls \ {c} : call'[b] = call[b]
  BY OneCallMoves DEF ShopInv
<1>2. UNCHANGED <<offers, watching, told, echoes, wiped, dropped>>
  BY DEF stall, past, shut
<1>3. Listed' = Listed
  <2>1. call[c].pc # "done" /\ call'[c].op # "list"
    BY <1>1 DEF SyncingPc
  <2> QED BY <1>1, <2>1 DEF Listed, At
<1>4. \A b \in Calls \ {c} : b \in Syncing' <=> b \in Syncing
  BY <1>1 DEF Syncing
<1>5. c \in Syncing /\ (c \in Syncing' <=> r.pc \in SyncingPc)
  BY <1>1 DEF Syncing, SyncingPc
<1>6. ASSUME NEW l \in Lots PROVE /\ Held(l) => Held(l)'
                                  /\ Held(l)' => Held(l) \/ told[l] = 0
  <2>1. ASSUME NEW b \in Holders(l) PROVE b \in Holders(l)'
    <3>1. CASE b = c
      BY <1>1, <1>5, <2>1, <3>1 DEF Holders
    <3>2. CASE b # c
      BY <1>1, <1>4, <2>1, <3>2 DEF Holders, Syncing
    <3> QED BY <3>1, <3>2
  <2>2. ASSUME NEW b \in Holders(l)' PROVE b \in Holders(l) \/ told[l] = 0
    <3>1. CASE b = c
      BY <1>1, <1>5, <2>2, <3>1 DEF Holders
    <3>2. CASE b # c
      BY <1>1, <1>4, <2>2, <3>2 DEF Holders, Syncing
    <3> QED BY <3>1, <3>2
  <2> QED BY <1>2, <2>1, <2>2 DEF Held
<1>7. StallHolds'
  <2>1. \A l \in Lots : told[l] \in Nat /\ echoes[l] \in Nat
    BY DEF ShopInv, ShopTyped
  <2>2. \A l \in Lots : Held(l)' => told[l] <= echoes[l]
    BY <1>6, <2>1 DEF StallHolds, ShopInv
  <2> QED BY <1>2, <1>3, <1>6, <2>2 DEF StallHolds, ShopInv, Stands, OpenNow
<1>8. /\ watching' \in SUBSET Lots /\ echoes' \in [Lots -> Nat] /\ wiped' \in SUBSET Lots
      /\ told' \in [Lots -> Nat]
  BY <1>2 DEF ShopInv, ShopTyped
<1> QED BY <1>2, <1>7, <1>8, SyncStep

LEMMA RoundTypes ==
    ASSUME ShopInv, NEW c \in Calls, call[c].pc \in SyncingPc
    PROVE  call[c] \in SyncCall /\ RoundHolds(c) /\ c \in Syncing
BY CallTypes DEF ShopInv, CallsHold, CallHolds, SyncingPc, Syncing

LEMMA RoundEnded ==
    ASSUME ShopInv, NEW c \in Calls, call[c].pc \in SyncingPc, NEW answer \in {"done", "failed"}
    PROVE  /\ Ended(c, answer) \in AnyCall /\ Ended(c, answer).pc = "done"
           /\ Ended(c, answer).op = "sync" /\ Ended(c, answer).answer = answer
           /\ Ended(c, answer).landed = FALSE
BY RoundTypes DEF Ended, SyncCall, DoneCall, AnyCall, Answers

\* A round that goes on finds what is so.
LEMMA RoundGoesOn ==
    ASSUME ShopInv, NEW c \in Calls, NEW r \in SyncCall, call' = [call EXCEPT ![c] = r],
           offers' = offers, \A l \in r.asked : Stands(l), r.gone \subseteq r.asked,
           \A l \in r.gone : ~OpenNow(l), r.pc # "asking" => r.gone = {},
           r.pc \in {"collecting", "looking"} => r.asked = {}
    PROVE  r \in AnyCall /\ r.pc \in SyncingPc /\ r.op = "sync" /\ CallHolds(c)'
<1>1. r \in AnyCall /\ r.pc \in SyncingPc /\ r.op = "sync"
  BY DEF AnyCall, SyncCall
<1>2. call'[c] = r
  BY <1>1, OneCallMoves DEF ShopInv
<1> QED BY <1>1, <1>2 DEF CallHolds, RoundHolds, SyncingPc, WritingPc, Stands, OpenNow

LEMMA SyncKeepsInv == ASSUME ShopInv, NEW c \in Calls, Sync(c) PROVE ShopInv'
<1> DEFINE r == SyncRecord
<1>1. r \in SyncCall /\ r.asked = {} /\ r.gone = {}
  BY DEF SyncRecord, SyncCall, SyncingPc
<1>2. /\ call[c].pc = "ready" /\ call' = [call EXCEPT ![c] = r]
      /\ UNCHANGED <<balance, arrivals, offers, inFlight, dropped, faults>>
      /\ UNCHANGED <<watching, told, echoes, wiped>>
  BY DEF Sync, Ready, chain, stall, past, shut, bounds
<1> HIDE DEF r
<1>3. r \in AnyCall /\ r.pc \in SyncingPc /\ r.op = "sync" /\ CallHolds(c)'
  BY <1>1, <1>2, RoundGoesOn
<1>4. call'[c] = r /\ \A b \in Calls \ {c} : call'[b] = call[b]
  BY <1>2, <1>3, OneCallMoves DEF ShopInv
<1>5. StallHolds'
  <2>1. Syncing' = Syncing \cup {c} /\ c \notin Syncing
    BY <1>2, <1>3, <1>4 DEF Syncing, SyncingPc
  <2>2. Listed' = Listed
    BY <1>2, <1>3, <1>4 DEF Listed, At, SyncingPc
  <2>3. \A b \in Syncing : call'[b] = call[b]
    BY <1>4, <2>1 DEF Syncing
  <2>4. \A l \in Lots : Held(l)' = Held(l)
    BY <1>1, <1>2, <1>4, <2>1, <2>3 DEF Held, Holders
  <2> QED BY <1>2, <2>2, <2>4 DEF StallHolds, ShopInv, Stands, OpenNow
<1>6. /\ balance' \in [Assets -> Nat] /\ \A a \in Assets : balance[a] <= balance'[a]
      /\ arrivals' \in [Assets -> Nat] /\ watching' \in SUBSET Lots /\ echoes' \in [Lots -> Nat] /\ wiped' \in SUBSET Lots
      /\ told' \in [Lots -> Nat] /\ faults' \in 0..MaxFaults
  BY <1>2 DEF ShopInv, ShopTyped
<1> QED BY <1>2, <1>3, <1>5, <1>6, SyncStep

LEMMA CollectKeepsInv == ASSUME ShopInv, NEW c \in Calls, Collect(c) PROVE ShopInv'
<1> DEFINE r == [call[c] EXCEPT !.pc = "looking"]
<1>1. /\ call[c].pc = "collecting" /\ CollectAll /\ call' = [call EXCEPT ![c] = r]
      /\ UNCHANGED <<inFlight, stall, shut, faults>>
  BY DEF Collect, bounds
<1>2. call[c] \in SyncCall /\ RoundHolds(c) /\ call[c].asked = {}
  BY <1>1, RoundTypes DEF SyncingPc, RoundHolds
<1>3. r \in SyncCall /\ r.asked = call[c].asked /\ r.gone = call[c].gone /\ r.pc = "looking"
  BY <1>2 DEF SyncCall, SyncingPc
<1> HIDE DEF r
<1>4. /\ balance' \in [Assets -> Nat] /\ arrivals' \in [Assets -> Nat] /\ offers' = offers
      /\ \A a \in Assets : balance[a] <= balance'[a]
  BY <1>1, Collected DEF ShopInv
<1>5. r \in AnyCall /\ r.pc \in SyncingPc /\ r.op = "sync" /\ CallHolds(c)'
  BY <1>1, <1>2, <1>3, <1>4, RoundGoesOn DEF RoundHolds
<1>6. faults' \in 0..MaxFaults /\ call[c].pc \in SyncingPc
  BY <1>1 DEF ShopInv, ShopTyped, SyncingPc
<1> QED BY <1>1, <1>2, <1>3, <1>4, <1>5, <1>6, RoundStep

LEMMA SyncFailsKeepsInv == ASSUME ShopInv, NEW c \in Calls, SyncFails(c) PROVE ShopInv'
<1> DEFINE r == Ended(c, "failed")
<1>1. /\ call[c].pc \in SyncingPc /\ call' = [call EXCEPT ![c] = r]
      /\ UNCHANGED <<chain, inFlight, stall, shut>> /\ faults' \in 0..MaxFaults
  BY ShopAssumption DEF SyncFails, Fault, SyncingPc, ShopInv, ShopTyped
<1>2. r \in AnyCall /\ r.pc = "done" /\ r.op = "sync" /\ r.answer = "failed" /\ r.landed = FALSE
  BY <1>1, RoundEnded
<1> HIDE DEF r
<1>3. call'[c] = r
  BY <1>1, <1>2, OneCallMoves DEF ShopInv
<1>4. CallHolds(c)'
  BY <1>2, <1>3 DEF CallHolds, AnswerHolds, WritingPc, SyncingPc
<1>5. /\ balance' \in [Assets -> Nat] /\ \A a \in Assets : balance[a] <= balance'[a]
      /\ arrivals' \in [Assets -> Nat] /\ offers' = offers
  BY <1>1 DEF chain, ShopInv, ShopTyped
<1>6. r.pc \notin SyncingPc /\ call[c].asked = {}
  BY <1>1, <1>2, RoundTypes DEF SyncFails, RoundHolds, SyncingPc
<1> QED BY <1>1, <1>2, <1>4, <1>5, <1>6, RoundStep

LEMMA MineKeepsInv ==
    ASSUME ShopInv, NEW c \in Calls, Mine(c) \/ MineBlind(c) PROVE ShopInv'
<1>1. PICK found \in SUBSET Lots :
        /\ found = {l \in Lots : OpenNow(l)} \/ found = call[c].asked
        /\ call' = [call EXCEPT ![c].pc = "found", ![c].asked = found]
  <2>1. CASE Mine(c)
    BY <2>1 DEF Mine
  <2>2. CASE MineBlind(c)
    <3>1. call[c] \in SyncCall
      BY <2>2, RoundTypes DEF MineBlind, SyncingPc
    <3>2. call' = [call EXCEPT ![c].pc = "found"]
      BY <2>2 DEF MineBlind
    <3>3. [call[c] EXCEPT !.pc = "found"] = [call[c] EXCEPT !.pc = "found", !.asked = call[c].asked]
      BY <3>1 DEF SyncCall
    <3>4. call' = [call EXCEPT ![c].pc = "found", ![c].asked = call[c].asked]
      BY <3>2, <3>3
    <3> QED BY <3>1, <3>4 DEF SyncCall
  <2> QED BY <2>1, <2>2
<1>2. /\ call[c].pc = "looking" /\ UNCHANGED <<chain, inFlight, stall, shut>>
      /\ faults' \in 0..MaxFaults
  BY ShopAssumption DEF Mine, MineBlind, Fault, bounds, ShopInv, ShopTyped
<1>3. call[c] \in SyncCall /\ RoundHolds(c) /\ call[c].asked = {}
  BY <1>2, RoundTypes DEF SyncingPc, RoundHolds
<1> DEFINE r == [call[c] EXCEPT !.pc = "found", !.asked = found]
<1>4. call' = [call EXCEPT ![c] = r]
  BY <1>1
<1>5. r \in SyncCall /\ r.asked = found /\ r.gone = call[c].gone /\ r.pc = "found"
  BY <1>3 DEF SyncCall, SyncingPc
<1> HIDE DEF r
<1>6. \A l \in found : Stands(l) /\ told[l] = 0
  <2> TAKE l \in found
  <2>1. l \in Lots /\ OpenNow(l)
    BY <1>1, <1>3
  <2> QED BY <2>1 DEF OpenNow, Stands, ShopInv, ShopTyped, StallHolds
<1>7. /\ balance' \in [Assets -> Nat] /\ \A a \in Assets : balance[a] <= balance'[a]
      /\ arrivals' \in [Assets -> Nat] /\ offers' = offers
  BY <1>2 DEF chain, ShopInv, ShopTyped
<1>8. r \in AnyCall /\ r.pc \in SyncingPc /\ r.op = "sync" /\ CallHolds(c)'
  <2>1. call[c].gone = {}
    BY <1>2, <1>3 DEF RoundHolds
  <2> QED BY <1>4, <1>5, <1>6, <1>7, <2>1, RoundGoesOn
<1>9. call[c].pc \in SyncingPc
  BY <1>2 DEF SyncingPc
<1>10. /\ \A l \in call[c].asked : r.pc \in SyncingPc /\ l \in r.asked
       /\ r.pc \in SyncingPc => \A l \in r.asked \ call[c].asked : told[l] = 0
  BY <1>3, <1>5, <1>6
<1> QED BY <1>2, <1>4, <1>7, <1>8, <1>9, <1>10, RoundStep

LEMMA AskKeepsInv == ASSUME ShopInv, NEW c \in Calls, Ask(c) PROVE ShopInv'
<1>1. PICK all \in SUBSET Lots :
        /\ all = watching \cup call[c].asked /\ watching' = all
        /\ call' = [call EXCEPT ![c].pc = "asking", ![c].asked = all]
  <2>1. watching \cup call[c].asked \in SUBSET Lots
    BY RoundTypes DEF Ask, SyncingPc, ShopInv, ShopTyped, SyncCall
  <2> QED BY <2>1 DEF Ask
<1>2. /\ call[c].pc = "found" /\ told' = told /\ echoes' = echoes /\ dropped' = dropped
      /\ wiped' = wiped \ watching'
      /\ UNCHANGED <<chain, inFlight>> /\ faults' \in 0..MaxFaults
  BY DEF Ask, shut, bounds, ShopInv, ShopTyped
<1>3. call[c] \in SyncCall /\ RoundHolds(c) /\ c \in Syncing
  BY <1>2, RoundTypes DEF SyncingPc
<1> DEFINE r == [call[c] EXCEPT !.pc = "asking", !.asked = all]
<1>4. call' = [call EXCEPT ![c] = r]
  BY <1>1
<1>5. r \in SyncCall /\ r.asked = all /\ r.gone = call[c].gone /\ r.pc = "asking"
  BY <1>3 DEF SyncCall, SyncingPc
<1> HIDE DEF r
<1>6. /\ balance' \in [Assets -> Nat] /\ \A a \in Assets : balance[a] <= balance'[a]
      /\ arrivals' \in [Assets -> Nat] /\ offers' = offers
  BY <1>2 DEF chain, ShopInv, ShopTyped
<1>7. \A l \in all : Stands(l)
  BY <1>1, <1>3 DEF RoundHolds, ShopInv, StallHolds
<1>8. r \in AnyCall /\ r.pc \in SyncingPc /\ r.op = "sync" /\ CallHolds(c)'
  <2>1. call[c].gone = {}
    BY <1>2, <1>3 DEF RoundHolds
  <2> QED BY <1>4, <1>5, <1>6, <1>7, <2>1, RoundGoesOn
<1>9. call'[c] = r /\ \A b \in Calls \ {c} : call'[b] = call[b]
  BY <1>4, <1>8, OneCallMoves DEF ShopInv
<1>10. StallHolds'
  <2>1. Syncing' = Syncing
    BY <1>2, <1>5, <1>9 DEF Syncing
  <2>2. Listed' = Listed
    BY <1>2, <1>5, <1>9 DEF Listed, At
  <2>3. \A l \in Lots : Held(l)' = Held(l)
    <3> TAKE l \in Lots
    <3>0. c \in Holders(l) <=> l \in call[c].asked
      BY <1>3 DEF Holders
    <3>1. CASE l \in all
      <4>1. Held(l)'
        BY <1>1, <3>1 DEF Held
      <4>2. Held(l)
        BY <1>1, <3>0, <3>1 DEF Held
      <4> QED BY <4>1, <4>2
    <3>2. CASE l \notin all
      <4>1. c \notin Holders(l) /\ c \notin Holders(l)'
        BY <1>1, <1>5, <1>9, <3>0, <3>2 DEF Holders
      <4>2. \A b \in Calls \ {c} : b \in Holders(l)' <=> b \in Holders(l)
        BY <1>9, <2>1 DEF Holders
      <4>3. Holders(l) \subseteq Calls /\ Holders(l)' \subseteq Calls
        BY <2>1 DEF Holders, Syncing
      <4>4. Holders(l)' = Holders(l)
        BY <4>1, <4>2, <4>3
      <4> QED BY <1>1, <3>2, <4>4 DEF Held
    <3> QED BY <3>1, <3>2
  <2>4. \A l \in Lots : Stands(l)' = Stands(l) /\ OpenNow(l)' = OpenNow(l)
    BY <1>6 DEF Stands, OpenNow
  <2>5. \A l \in wiped : l \in wiped' \/ l \in watching'
    BY <1>2
  <2>6. \A l \in watching' : Stands(l)'
    BY <1>1, <1>7, <2>4
  <2>7. \A l \in Lots : l \in Listed' => Held(l)' \/ told'[l] > 0 \/ l \in wiped'
    BY <1>2, <2>2, <2>3, <2>5 DEF StallHolds, ShopInv, Held
  <2> QED BY <1>2, <2>3, <2>4, <2>6, <2>7 DEF StallHolds, ShopInv
<1>11. /\ watching' \in SUBSET Lots /\ echoes' \in [Lots -> Nat] /\ wiped' \in SUBSET Lots
       /\ told' \in [Lots -> Nat]
  BY <1>1, <1>2 DEF ShopInv, ShopTyped
<1>12. call[c].pc \in SyncingPc \cup {"ready"}
  BY <1>2 DEF SyncingPc
<1> QED BY <1>2, <1>4, <1>6, <1>8, <1>10, <1>11, <1>12, SyncStep

LEMMA RereadKeepsInv ==
    ASSUME ShopInv, NEW c \in Calls, NEW l \in Lots, Reread(c, l) PROVE ShopInv'
<1>1. /\ call[c].pc = "asking" /\ l \in Waiting(c)
      /\ UNCHANGED <<chain, inFlight, stall, shut, bounds>>
  BY DEF Reread
<1>2. call[c] \in SyncCall /\ RoundHolds(c)
  BY <1>1, RoundTypes DEF SyncingPc
<1> DEFINE r == IF OpenNow(l) THEN [call[c] EXCEPT !.live = @ \cup {l}]
                              ELSE [call[c] EXCEPT !.gone = @ \cup {l}]
<1>3. call' = [call EXCEPT ![c] = r]
  BY DEF Reread
<1>4. /\ r \in SyncCall /\ r.asked = call[c].asked /\ r.pc = "asking"
      /\ r.gone = IF OpenNow(l) THEN call[c].gone ELSE call[c].gone \cup {l}
  <2>1. CASE OpenNow(l)
    BY <1>1, <1>2, <2>1 DEF SyncCall, SyncingPc
  <2>2. CASE ~OpenNow(l)
    BY <1>1, <1>2, <2>2 DEF SyncCall, SyncingPc
  <2> QED BY <2>1, <2>2
<1> HIDE DEF r
<1>5. /\ balance' \in [Assets -> Nat] /\ \A a \in Assets : balance[a] <= balance'[a]
      /\ arrivals' \in [Assets -> Nat] /\ offers' = offers /\ faults' \in 0..MaxFaults
  BY <1>1 DEF chain, bounds, ShopInv, ShopTyped
<1>6. (\A k \in r.asked : Stands(k)) /\ r.gone \subseteq r.asked /\ \A k \in r.gone : ~OpenNow(k)
  BY <1>1, <1>2, <1>4 DEF RoundHolds, Waiting
<1>7. r \in AnyCall /\ r.pc \in SyncingPc /\ r.op = "sync" /\ CallHolds(c)'
  BY <1>3, <1>4, <1>5, <1>6, RoundGoesOn
<1>8. call[c].pc \in SyncingPc
  BY <1>1 DEF SyncingPc
<1> QED BY <1>1, <1>2, <1>3, <1>4, <1>5, <1>7, <1>8, RoundStep

\* What has gone is told, and what was not asked for is wiped, or another round's.
LEMMA RebuildKeepsInv == ASSUME ShopInv, NEW c \in Calls, Rebuild(c) PROVE ShopInv'
<1> DEFINE r == Ended(c, "done")
           asked == call[c].asked
           gone == call[c].gone
<1>1. /\ call[c].pc = "asking" /\ call' = [call EXCEPT ![c] = r]
      /\ watching' = asked \ gone
      /\ told' = [l \in Lots |-> told[l] + IF l \in gone THEN 1 ELSE 0]
      /\ echoes' = [l \in Lots |-> echoes[l] +
             IF l \in gone /\ Holders(l) # {c} /\ told[l] = echoes[l] THEN 1 ELSE 0]
      /\ wiped' = wiped \cup {l \in watching \ asked : Holders(l) = {}}
      /\ UNCHANGED <<chain, inFlight, dropped>> /\ faults' \in 0..MaxFaults
  BY ShopAssumption DEF Rebuild, Stays, Fault, bounds, shut, ShopInv, ShopTyped
<1>2. call[c].pc \in SyncingPc
  BY <1>1 DEF SyncingPc
<1>3. call[c] \in SyncCall /\ RoundHolds(c) /\ c \in Syncing
  BY <1>2, RoundTypes
<1>4. r \in AnyCall /\ r.pc = "done" /\ r.op = "sync" /\ r.answer = "done" /\ r.landed = FALSE
  BY <1>2, RoundEnded
<1> HIDE DEF r
<1>5. call'[c] = r /\ \A b \in Calls \ {c} : call'[b] = call[b]
  BY <1>1, <1>4, OneCallMoves DEF ShopInv
<1>6. /\ balance' \in [Assets -> Nat] /\ \A a \in Assets : balance[a] <= balance'[a]
      /\ arrivals' \in [Assets -> Nat] /\ offers' = offers
  BY <1>1 DEF chain, ShopInv, ShopTyped
<1>7. /\ asked \in SUBSET Lots /\ gone \subseteq asked /\ watching \in SUBSET Lots
      /\ \A l \in asked : Stands(l) /\ \A k \in gone : ~OpenNow(k)
      /\ \A l \in Lots : told[l] \in Nat /\ echoes[l] \in Nat
  BY <1>3 DEF RoundHolds, SyncCall, ShopInv, ShopTyped
<1>12. \A l \in Lots : c \in Holders(l) <=> l \in asked
  BY <1>3 DEF Holders
<1> HIDE DEF asked, gone
<1>8. watching' \in SUBSET Lots /\ echoes' \in [Lots -> Nat] /\ wiped' \in SUBSET Lots /\ told' \in [Lots -> Nat]
  BY <1>1, <1>7 DEF ShopInv, ShopTyped
<1>9. CallHolds(c)'
  BY <1>4, <1>5 DEF CallHolds, AnswerHolds, WritingPc, SyncingPc
<1>10. StallHolds'
  <2>1. Syncing' = Syncing \ {c}
    BY <1>4, <1>5 DEF Syncing
  <2>2. Listed' = Listed
    BY <1>1, <1>4, <1>5 DEF Listed, At
  <2>3. \A l \in Lots : Stands(l)' = Stands(l) /\ OpenNow(l)' = OpenNow(l)
    BY <1>6 DEF Stands, OpenNow
  <2>4. \A l \in Lots : Holders(l)' = Holders(l) \ {c}
    BY <1>5, <2>1 DEF Holders, Syncing
  <2>5. ASSUME NEW l \in Lots
        PROVE  /\ told'[l] <= 1 + echoes'[l]
               /\ told'[l] > 0 => Stands(l) /\ ~OpenNow(l)
               /\ Held(l)' => told'[l] <= echoes'[l]
               /\ l \in Listed => Held(l)' \/ told'[l] > 0 \/ l \in wiped'
    <3>1. /\ told[l] <= 1 + echoes[l] /\ (told[l] > 0 => Stands(l) /\ ~OpenNow(l))
          /\ Held(l) => told[l] <= echoes[l]
          /\ l \in Listed => Held(l) \/ told[l] > 0 \/ l \in wiped
      BY DEF StallHolds, ShopInv
    <3>2. CASE l \in gone
      <4>1. told'[l] = told[l] + 1 /\ l \notin watching' /\ Stands(l) /\ ~OpenNow(l)
        BY <1>1, <1>7, <3>2
      <4>2. told[l] <= echoes[l]
        BY <1>7, <1>12, <3>1, <3>2 DEF Held
      <4>3. CASE Holders(l) = {c}
        <5>1. echoes'[l] = echoes[l]
          BY <1>1, <1>7, <4>3
        <5>2. ~Held(l)'
          BY <2>4, <4>1, <4>3 DEF Held
        <5> QED BY <1>7, <4>1, <4>2, <5>1, <5>2
      <4>4. CASE Holders(l) # {c}
        <5>1. echoes'[l] = echoes[l] + (IF told[l] = echoes[l] THEN 1 ELSE 0)
          BY <1>1, <3>2, <4>4
        <5>2. told'[l] <= echoes'[l] /\ echoes'[l] \in Nat
          BY <1>7, <4>1, <4>2, <5>1
        <5> QED BY <1>7, <4>1, <5>2
      <4> QED BY <4>3, <4>4
    <3>3. CASE l \notin gone
      <4>1. told'[l] = told[l] /\ echoes'[l] = echoes[l]
        BY <1>1, <1>7, <3>3
      <4>2. Held(l)' => Held(l)
        BY <1>1, <1>12, <2>4 DEF Held
      <4>3. CASE l \in asked
        <5>1. Held(l)'
          BY <1>1, <3>3, <4>3 DEF Held
        <5> QED BY <3>1, <4>1, <4>2, <5>1
      <4>4. CASE l \notin asked
        <5>1. Holders(l)' = Holders(l)
          BY <1>12, <2>4, <4>4
        <5>2. Held(l) => Held(l)' \/ l \in wiped'
          BY <1>1, <4>4, <5>1 DEF Held
        <5>3. l \in wiped => l \in wiped'
          BY <1>1
        <5> QED BY <3>1, <4>1, <4>2, <5>2, <5>3
      <4> QED BY <4>3, <4>4
    <3> QED BY <3>2, <3>3
  <2>6. \A l \in watching' : Stands(l)'
    BY <1>1, <1>7, <2>3
  <2> QED BY <2>2, <2>3, <2>5, <2>6 DEF StallHolds
<1>11. call[c].pc \in SyncingPc \cup {"ready"}
  BY <1>2
<1> QED BY <1>1, <1>4, <1>6, <1>8, <1>9, <1>10, <1>11, SyncStep

-----------------------------------------------------------------------------
(* Everybody else, and the whole.                                          *)

\* A step of the world takes nothing from the wallet.
LEMMA WorldStep ==
    ASSUME ShopInv, balance' \in [Assets -> Nat], \A a \in Assets : balance[a] <= balance'[a],
           arrivals' \in [Assets -> Nat], offers' \in [Offers -> Offer], Advance({}),
           \A o \in Offers : offers'[o].state = "none" => offers'[o] = NoOffer,
           UNCHANGED <<call, inFlight, stall, shut, bounds>>
    PROVE  ShopInv'
<1>1. UNCHANGED <<call, inFlight, watching, told, echoes, wiped, dropped, faults>>
  BY DEF stall, past, shut, bounds
<1>2. ShopTyped'
  BY <1>1 DEF ShopInv, ShopTyped
<1>3. \A b \in Calls : Undisturbed(b)
  BY <1>1 DEF Undisturbed
<1>4. CallsHold'
  <2>1. {} \in SUBSET Calls /\ \A b \in Calls \ {} : Undisturbed(b)
    BY <1>3
  <2>2. \A o \in Offers : ~Stands(o)' => offers'[o] = NoOffer
    BY DEF Stands
  <2> QED BY <1>2, <2>1, <2>2, CallsKept DEF ShopInv
<1>5. EntriesHold'
  BY <1>1 DEF ShopInv, EntriesHold, PendingIsTrue, At
<1>6. PursesHold'
  <2> SUFFICES ASSUME NEW c \in Calls
               PROVE  ReadingHolds(c)' /\ PurseHolds(c)' /\ ActionHolds(c)'
    BY DEF PursesHold
  <2>1. Advance({c}) /\ \A b \in Calls \ {c} : Undisturbed(b)
    BY <1>3 DEF Advance
  <2>2. DueMoved(c) /\ SinceMoved(c)
    BY <1>2, <1>4, <2>1, SumsMove DEF ShopInv
  <2>3. call[c].pc \in WritingPc => Cost(c)' = Cost(c) /\ Hidden(c)' = Hidden(c)
    BY <1>1, <2>1, CostStays DEF ShopInv, SameTerms
  <2>4. \A a \in Assets : DueIn(c, a)' = DueIn(c, a)
    BY <1>1, <2>3 DEF DueIn, WritingPc
  <2>5. \A a \in Assets, s \in SUBSET Calls : SinceIn(c, a, s)' = SinceIn(c, a, s)
    BY <1>1, <2>3 DEF SinceIn, WritingPc
  <2>6. ASSUME NEW a \in Assets
        PROVE  /\ Due(a)' = Due(a) /\ \A s \in SUBSET Calls : Since(a, s)' = Since(a, s)
               /\ Due(a) \in Nat /\ \A s \in SUBSET Calls : Since(a, s) \in Nat
               /\ balance[a] \in Nat /\ balance'[a] \in Nat /\ balance[a] <= balance'[a]
    <3>1. /\ Due(a) \in Nat /\ DueIn(c, a) \in Nat
          /\ balance[a] \in Nat /\ balance'[a] \in Nat
          /\ \A s \in SUBSET Calls : Since(a, s) \in Nat /\ SinceIn(c, a, s) \in Nat
      <4>1. /\ DueIn(c, a) \in Nat
            /\ \A s \in SUBSET Calls : SinceIn(c, a, s) \in Nat /\ SinceIn(c, a, s)' \in Nat
            /\ Due(a) \in Nat /\ \A s \in SUBSET Calls : Since(a, s) \in Nat
            /\ balance[a] \in Nat /\ balance'[a] \in Nat
        BY <1>2, <1>4, PartTypes DEF ShopInv
      <4> QED BY <4>1
    <3>2. Due(a)' = Due(a)
      BY <2>2, <2>4, <3>1 DEF DueMoved
    <3>3. \A s \in SUBSET Calls : Since(a, s)' = Since(a, s)
      BY <2>2, <2>5, <3>1 DEF SinceMoved
    <3> QED BY <3>1, <3>2, <3>3
  <2>7. call[c].pc \in WritingPc => Given(call[c].bal) \in Nat
    BY CallTypes, GivenType DEF ShopInv, WritingCall
  <2>8. Landed' = Landed /\ At("landed")' = At("landed")
    BY <1>1 DEF Landed, At
  <2>9. ReadingHolds(c) /\ PurseHolds(c) /\ ActionHolds(c)
    BY DEF ShopInv, PursesHold
  <2>10. ASSUME NEW a \in Assets, NEW s \in SUBSET Calls, call[c].pc = "reading",
                call[c].bal # {}, call[c].asset = a, call[c].seen = s,
                Landed' \ s \subseteq At("landed")'
         PROVE  Given(call[c].bal) <= balance'[a] + Since(a, s)'
    <3>1. Given(call[c].bal) <= balance[a] + Since(a, s)
      BY <2>8, <2>9, <2>10 DEF ReadingHolds
    <3> QED BY <2>6, <2>7, <2>10, <3>1 DEF WritingPc
  <2>11. ASSUME NEW a \in Assets, call[c].pc = "measured", call[c].asset = a,
                call[c].missed = {}, Given(call[c].bal) > 0
         PROVE  Given(call[c].bal) + Due(a)' <= balance'[a]
    <3>1. Given(call[c].bal) + Due(a) <= balance[a]
      BY <2>9, <2>11 DEF PurseHolds
    <3> QED BY <2>6, <2>7, <2>11, <3>1 DEF WritingPc
  <2>12. ASSUME NEW a \in Assets, call[c].pc = "acting", call[c].asset = a,
                ~Careless(c)', call[c].raw > 0
         PROVE  Due(a)' <= balance'[a]
    <3>1. ~Careless(c)
      BY <1>1, <2>3, <2>12 DEF Careless, WritingPc
    <3>2. Due(a) <= balance[a]
      BY <2>9, <2>12, <3>1 DEF ActionHolds
    <3> QED BY <2>6, <3>2
  <2>13. ReadingHolds(c)'
    BY <1>1, <2>10 DEF ReadingHolds
  <2>14. PurseHolds(c)'
    BY <1>1, <2>11 DEF PurseHolds
  <2>15. ActionHolds(c)'
    BY <1>1, <2>12 DEF ActionHolds
  <2> QED BY <2>13, <2>14, <2>15
<1>7. StallHolds'
  <2>1. \A l \in Lots : /\ Stands(l) => Stands(l)'
                        /\ Stands(l) /\ ~OpenNow(l) => ~OpenNow(l)'
    BY DEF Advance, Stands, OpenNow, Offers
  <2>2. Listed' = Listed /\ \A l \in Lots : Held(l)' = Held(l)
    BY <1>1 DEF Syncing, Listed, At, Held, Holders
  <2> QED BY <1>1, <2>1, <2>2 DEF StallHolds, ShopInv, ShopTyped
<1> QED BY <1>2, <1>4, <1>5, <1>6, <1>7 DEF ShopInv

LEMMA EnvironmentKeepsInv == ASSUME ShopInv, Environment PROVE ShopInv'
<1>0. \A a \in Assets : balance[a] \in Nat /\ arrivals[a] \in Nat
  BY DEF ShopInv, ShopTyped
<1>1. ASSUME NEW o \in Offers, Taken(o) PROVE ShopInv'
  <2>1. /\ Stands(o) /\ offers' = [offers EXCEPT ![o].state = "taken"] /\ balance' = balance
        /\ arrivals' = (IF offers[o].seller = "me"
                        THEN [arrivals EXCEPT ![Money] = @ + offers[o].price] ELSE arrivals)
        /\ UNCHANGED <<call, inFlight, stall, shut, bounds>>
    BY <1>1 DEF Taken, OpenNow, Stands
  <2>2. /\ offers' \in [Offers -> Offer] /\ Advance({})
        /\ \A x \in Offers : offers'[x].state = "none" => offers'[x] = NoOffer
    BY <2>1, OfferMoves DEF ShopInv
  <2>3. offers[o].price \in Nat
    BY OfferTypes DEF ShopInv
  <2>4. arrivals' \in [Assets -> Nat]
    BY <1>0, <2>1, <2>3 DEF Money, Assets, ShopInv, ShopTyped
  <2>5. balance' \in [Assets -> Nat] /\ \A a \in Assets : balance[a] <= balance'[a]
    BY <1>0, <2>1 DEF ShopInv, ShopTyped
  <2> QED BY <2>1, <2>2, <2>4, <2>5, WorldStep
<1>2. ASSUME NEW l \in Lots, Expire(l) PROVE ShopInv'
  <2>1. /\ l \in Offers /\ Stands(l) /\ OpenNow(l)
        /\ offers' = [offers EXCEPT ![l].state = "stale"]
        /\ balance' = balance /\ arrivals' = arrivals
        /\ UNCHANGED <<call, inFlight, stall, shut, bounds>>
    BY <1>2 DEF Expire, OpenNow, Stands, Offers
  <2>2. /\ offers' \in [Offers -> Offer] /\ Advance({})
        /\ \A x \in Offers : offers'[x].state = "none" => offers'[x] = NoOffer
    BY <2>1, OfferMoves DEF ShopInv
  <2>3. /\ balance' \in [Assets -> Nat] /\ \A a \in Assets : balance[a] <= balance'[a]
        /\ arrivals' \in [Assets -> Nat]
    BY <1>0, <2>1 DEF ShopInv, ShopTyped
  <2> QED BY <2>1, <2>2, <2>3, WorldStep
<1>3. ASSUME NEW l \in Lots, Sweep(l) PROVE ShopInv'
  <2>1. /\ l \in Offers /\ Stands(l)
        /\ offers' = [offers EXCEPT ![l].state = "cancelled"]
        /\ balance' = [balance EXCEPT !["ware"] = @ + offers[l].qty] /\ arrivals' = arrivals
        /\ UNCHANGED <<call, inFlight, stall, shut, bounds>>
    BY <1>3 DEF Sweep, OpenNow, Stands, Offers
  <2>2. /\ offers' \in [Offers -> Offer] /\ Advance({})
        /\ \A x \in Offers : offers'[x].state = "none" => offers'[x] = NoOffer
    BY <2>1, OfferMoves DEF ShopInv
  <2>3. offers[l].qty \in Nat
    BY <2>1, OfferTypes DEF ShopInv
  <2>4. /\ balance' \in [Assets -> Nat] /\ \A a \in Assets : balance[a] <= balance'[a]
        /\ arrivals' \in [Assets -> Nat]
    BY <1>0, <2>1, <2>3 DEF Assets, ShopInv, ShopTyped
  <2> QED BY <2>1, <2>2, <2>4, WorldStep
<1> QED BY <1>1, <1>2, <1>3 DEF Environment

LEMMA InitSound == Init => ShopInv /\ ClosingHolds
<1> SUFFICES ASSUME Init PROVE ShopInv /\ ClosingHolds
  OBVIOUS
<1>1. /\ balance = Purse /\ arrivals = Zero /\ inFlight = <<>> /\ watching = {}
      /\ closed = FALSE /\ dropped = {} /\ faults = 0
      /\ told = [l \in Lots |-> 0] /\ echoes = told /\ wiped = {}
      /\ offers = [o \in Offers |->
           IF o \in Foreign THEN OpenOffer("them", Terms[o].qty, Terms[o].price) ELSE NoOffer]
  BY DEF Init
<1>2. PICK script \in Scripts :
        call = [c \in Calls |-> [pc |-> "ready", op |-> script[c], landed |-> FALSE]]
  BY DEF Init
<1>3. \A c \in Calls : script[c] \in Ops \cup {"sync"}
  <2>1. script \in [Calls -> {"list", "gift", "buy", "cancel", "sync"}]
    BY ShopAssumption
  <2> QED BY <2>1 DEF Ops
<1>4. call \in [Calls -> ReadyCall] /\ \A c \in Calls : call[c].pc = "ready" /\ ~call[c].landed
  BY <1>2, <1>3 DEF ReadyCall
<1>5. \A o \in Offers : offers[o] \in Offer /\ (~Stands(o) => offers[o] = NoOffer)
  <2> TAKE o \in Offers
  <2>1. CASE o \in Foreign
    <3>1. Terms[o].qty \in Nat /\ Terms[o].price \in Nat
      BY <2>1, ShopAssumption
    <3> QED BY <1>1, <2>1, <3>1 DEF OpenOffer, Offer, States, Stands
  <2>2. CASE o \notin Foreign
    BY <1>1, <2>2 DEF NoOffer, Offer, States, Stands
  <2> QED BY <2>1, <2>2
<1>6. ShopTyped
  <2>1. offers \in [Offers -> Offer]
    BY <1>1, <1>5
  <2>2. balance \in [Assets -> Nat] /\ arrivals \in [Assets -> Nat] /\ faults \in 0..MaxFaults
    BY <1>1, ShopAssumption DEF Zero
  <2> QED BY <1>1, <1>4, <2>1, <2>2 DEF ShopTyped
<1>7. CallsHold
  BY <1>4, <1>5 DEF CallsHold, CallHolds, Lister, WritingPc, SyncingPc
<1>8. EntriesHold
  BY <1>1, <1>4 DEF EntriesHold, PendingIsTrue, At, Range, IsInjective
<1>9. PursesHold
  BY <1>4 DEF PursesHold, ReadingHolds, PurseHolds, ActionHolds
<1>10. StallHolds
  BY <1>1, <1>4 DEF StallHolds, Held, Holders, Syncing, Listed, At
<1> QED BY <1>1, <1>6, <1>7, <1>8, <1>9, <1>10 DEF ShopInv, ClosingHolds

LEMMA OnlyCloseCloses == ASSUME Next PROVE UNCHANGED shut \/ Close
<1>1. CASE Environment
  BY <1>1 DEF Environment, Taken, Expire, Sweep
<1>2. ASSUME NEW c \in Calls, Asks(c) PROVE UNCHANGED shut
  BY <1>2 DEF Asks, List, Gift, Buy, Cancel, Sync
<1>3. ASSUME NEW c \in Calls, Writes(c) PROVE UNCHANGED shut
  BY <1>3 DEF Writes, ReadBalance, Unreadable, Measure, Act, Land, Refused, Fails, TimesOut,
              LandsLate, Finish
<1>4. ASSUME NEW c \in Calls, Syncs(c) PROVE UNCHANGED shut
  BY <1>4 DEF Syncs, Collect, SyncFails, Mine, MineBlind, Ask, Rebuild, Reread, shut
<1> QED BY <1>1, <1>2, <1>3, <1>4 DEF Next

LEMMA NextKeepsInv ==
    ASSUME ShopInv, ClosingHolds, [Next]_vars PROVE ShopInv' /\ ClosingHolds'
<1>1. ASSUME NEW c \in Calls, Asks(c) PROVE ShopInv'
  BY <1>1, ListKeepsInv, GiftKeepsInv, BuyKeepsInv, CancelKeepsInv, SyncKeepsInv DEF Asks
<1>2. ASSUME NEW c \in Calls, Writes(c) PROVE ShopInv'
  BY <1>2, ReadBalanceKeepsInv, UnreadableKeepsInv, MeasureKeepsInv, ActKeepsInv, LandKeepsInv,
     RefusedKeepsInv, FailsKeepsInv, TimesOutKeepsInv, LandsLateKeepsInv, FinishKeepsInv
     DEF Writes
<1>3. ASSUME NEW c \in Calls, Syncs(c) PROVE ShopInv'
  BY <1>3, CollectKeepsInv, SyncFailsKeepsInv, MineKeepsInv, AskKeepsInv, RebuildKeepsInv,
     RereadKeepsInv DEF Syncs
<1>4. CASE UNCHANGED vars
  <2>1. UNCHANGED <<chain, call, inFlight, stall, shut, bounds>>
    BY <1>4 DEF vars
  <2>2. balance' = balance /\ arrivals' = arrivals /\ offers' = offers
    BY <2>1 DEF chain
  <2>3. Advance({}) /\ \A o \in Offers : offers'[o].state = "none" => offers'[o] = NoOffer
    BY <2>2, OffersStay DEF ShopInv, Stands
  <2>4. /\ balance' \in [Assets -> Nat] /\ \A a \in Assets : balance[a] <= balance'[a]
        /\ arrivals' \in [Assets -> Nat] /\ offers' \in [Offers -> Offer]
    BY <2>2 DEF ShopInv, ShopTyped
  <2>5. ShopInv'
    BY <2>1, <2>3, <2>4, WorldStep
  <2> QED BY <2>1, <2>5 DEF ClosingHolds, shut
<1>5. CASE Next
  <2>1. ShopInv'
    BY <1>1, <1>2, <1>3, <1>5, EnvironmentKeepsInv, CloseKeepsInv DEF Next
  <2>2. ClosingHolds'
    <3>1. CASE UNCHANGED shut
      BY <3>1 DEF ClosingHolds, shut
    <3>2. CASE Close
      BY <3>2 DEF ClosingHolds, Close
    <3> QED BY <1>5, <3>1, <3>2, OnlyCloseCloses
  <2> QED BY <2>1, <2>2
<1> QED BY <1>4, <1>5

\* What the shop owes, has read and watches is in order, whatever it is asked,
\* what fails, and when it is closed.
THEOREM ShopStaysSound == Spec => [](ShopInv /\ ClosingHolds)
<1>1. ShopInv /\ ClosingHolds /\ [Next]_vars => (ShopInv /\ ClosingHolds)'
  BY NextKeepsInv
<1> QED BY <1>1, InitSound, PTL DEF Spec

\* act(), and the answers of the shop (shop.ts:250): every action under way is
\* up once and nothing else is; an action is refused for want of balance only
\* for a cause its check could not have seen; and the caller is told what
\* happened.
THEOREM DebtsStayTrue == Spec => []DebtsAreTrue
<1>1. ASSUME ShopInv PROVE DebtsAreTrue
  <2>1. \A c \in Calls : /\ CallHolds(c)
                         /\ call[c].pc \in {"ready", "done"} \cup WritingPc \cup SyncingPc
    BY <1>1, CallTypes DEF ShopInv, CallsHold
  <2>2. TypeOK
    <3>1. \A o \in Offers : offers[o].state \in States
      BY <1>1, OfferTypes DEF ShopInv
    <3> QED BY <1>1, <2>1, <3>1 DEF TypeOK, ShopInv, ShopTyped, States, WritingPc, SyncingPc
  <2>3. SpentOnce
    BY <2>1 DEF SpentOnce, CallHolds, AnswerHolds
  <2>4. AnswersAreTrue
    BY <2>1 DEF AnswersAreTrue, At, CallHolds, AnswerHolds, WritingHolds, WritingPc
  <2> QED BY <1>1, <2>2, <2>3, <2>4 DEF DebtsAreTrue, ShopInv, EntriesHold
<1> QED BY <1>1, ShopStaysSound, PTL

\* sync() (shop.ts:186): what is told has left, and is told again only once for
\* each time that another round held it as it was told, or that its list() came
\* to watch it afterwards; and a listing stays watched or held by a round until
\* it is told, but for one that came between a round's snapshot and its rebuild.
THEOREM DeparturesAreTold == Spec => []DeparturesTold
<1>1. ShopInv => DeparturesTold
  BY DEF ShopInv, StallHolds, DeparturesTold
<1> QED BY <1>1, ShopStaysSound, PTL

-----------------------------------------------------------------------------
(* A purse is true.                                                        *)

\* Only its own check ends the reading of a call in a purse.
LEMMA OnlyMeasureMeasures ==
    ASSUME ShopInv, Next, NEW c \in Calls, call[c].pc = "reading", call'[c].pc = "measured"
    PROVE  Measure(c)
<1>1. DOMAIN call = Calls
  BY DEF ShopInv, ShopTyped
<1>2. CASE Environment \/ Close
  <2>1. call' = call
    BY <1>2 DEF Environment, Taken, Expire, Sweep, Close
  <2> QED BY <2>1
<1>3. ASSUME NEW d \in Calls, Asks(d) PROVE FALSE
  <2>1. call[d].pc = "ready" /\ \E r : call' = [call EXCEPT ![d] = r]
    BY <1>3 DEF Asks, List, Gift, Buy, Cancel, Sync, Ready
  <2> QED BY <1>1, <2>1
<1>4. ASSUME NEW d \in Calls, Syncs(d) PROVE FALSE
  <2>1. call[d].pc \in {"collecting", "looking", "found", "asking"}
    BY <1>4 DEF Syncs, Collect, SyncFails, Mine, MineBlind, Ask, Rebuild, Reread
  <2>2. \E r : call' = [call EXCEPT ![d] = r]
    BY <1>4 DEF Syncs, Collect, SyncFails, Mine, MineBlind, Ask, Rebuild, Reread
  <2> QED BY <1>1, <2>1, <2>2
<1>5. ASSUME NEW d \in Calls, Writes(d) PROVE Measure(c)
  <2>1. CASE Measure(d)
    <3>1. d = c \/ call'[c] = call[c]
      BY <1>1, <2>1 DEF Measure
    <3> QED BY <2>1, <3>1
  <2>2. CASE Act(d)
    <3>1. CASE Unaffordable(d)
      BY <1>1, <3>1 DEF Unaffordable
    <3>2. CASE GoesUp(d)
      BY <3>2, GoneUp DEF Undisturbed
    <3> QED BY <2>2, <3>1, <3>2 DEF Act, Unaffordable, GoesUp
  <2>3. CASE ReadBalance(d)
    BY <1>1, <2>3 DEF ReadBalance
  <2>4. CASE Unreadable(d) \/ Land(d) \/ Refused(d) \/ Fails(d) \/ TimesOut(d) \/ LandsLate(d)
               \/ Finish(d)
    <3>1. \E r : call' = [call EXCEPT ![d] = r] /\ (d = c => r.pc = "done")
      BY <2>4 DEF Unreadable, Land, Refused, Fails, TimesOut, LandsLate, Finish, Rejected, Ended
    <3> QED BY <1>1, <3>1
  <2> QED BY <1>5, <2>1, <2>2, <2>3, <2>4 DEF Writes
<1> QED BY <1>2, <1>3, <1>4, <1>5 DEF Next

LEMMA FreeIs ==
    ASSUME ShopInv, NEW a \in Assets
    PROVE  Free(a) = IF balance[a] >= ActDebts(a) THEN balance[a] - ActDebts(a) ELSE 0
<1>1. balance[a] \in Nat /\ ActDebts(a) \in Nat
      /\ SumFunction([c \in {b \in At("acting") : call[b].asset = a} |-> call[c].raw])
           = ActDebts(a)
  BY DebtsAre, DebtTypes DEF ShopInv, ShopTyped
<1>2. balance[a] - ActDebts(a) \in Int
  BY <1>1
<1>3. Free(a) = IF balance[a] - ActDebts(a) >= 0 THEN balance[a] - ActDebts(a) ELSE 0
  BY <1>1, <1>2, MaxOfZero DEF Free
<1> QED BY <1>1, <1>3

LEMMA PurseOffersWhatIsFree ==
    ASSUME ShopInv, NEW c \in Calls, Measure(c), call'[c].missed = {}
    PROVE  /\ Given(call'[c].bal) <= Free(call[c].asset)
           /\ call[c].bal = {balance[call[c].asset]} /\ At("landed") = {} =>
                Given(call'[c].bal) = Free(call[c].asset)
<1> DEFINE a == call[c].asset
           n == Given(call[c].bal)
<1>1. /\ call[c].pc = "reading" /\ call[c].bal # {} /\ a \in Assets /\ Misses(c) = {}
      /\ n \in Nat /\ call'[c].bal = {Spendable(a, n)}
  BY Measured
<1>2. Given(call'[c].bal) = Spendable(a, n)
  BY <1>1 DEF Given
<1>3. call[c].bal = {balance[a]} => n = balance[a]
  BY DEF Given
<1> HIDE DEF a, n
<1>4. /\ (n - Debts(a)) + ActDebts(a) <= balance[a]
      /\ At("landed") = {} => Debts(a) = ActDebts(a)
  BY <1>1, PurseIsBacked DEF a, n
<1>5. Spendable(a, n) = IF n >= Debts(a) THEN n - Debts(a) ELSE 0
  BY <1>1, SpendableIs
<1>6. Free(a) = IF balance[a] >= ActDebts(a) THEN balance[a] - ActDebts(a) ELSE 0
  BY <1>1, FreeIs
<1>7. Debts(a) \in Nat /\ ActDebts(a) \in Nat /\ balance[a] \in Nat
  BY <1>1, DebtTypes DEF ShopInv, ShopTyped
<1>8. Spendable(a, n) <= Free(a)
  BY <1>1, <1>4, <1>5, <1>6, <1>7
<1>9. n = balance[a] /\ At("landed") = {} => Spendable(a, n) = Free(a)
  BY <1>4, <1>5, <1>6, <1>7
<1> QED BY <1>2, <1>3, <1>8, <1>9 DEF a

\* funds() (funds.ts): a purse never offers more than is free of the debts of
\* the wallet, if its check has missed none of its spends, and all of it when
\* nothing moves.
THEOREM PurseStaysTrue == Spec => PurseIsTrue
<1>1. ShopInv /\ [Next]_vars =>
        [\A c \in Calls :
         call[c].pc = "reading" /\ call'[c].pc = "measured" /\ call'[c].missed = {} =>
           LET asset == call[c].asset
               spendable == Given(call'[c].bal)
           IN /\ spendable <= Free(asset)
              /\ call[c].bal = {balance[asset]} /\ At("landed") = {} =>
                   spendable = Free(asset)]_vars
  <2> SUFFICES ASSUME ShopInv, Next, NEW c \in Calls, call[c].pc = "reading",
                      call'[c].pc = "measured", call'[c].missed = {}
               PROVE  /\ Given(call'[c].bal) <= Free(call[c].asset)
                      /\ call[c].bal = {balance[call[c].asset]} /\ At("landed") = {} =>
                           Given(call'[c].bal) = Free(call[c].asset)
    OBVIOUS
  <2> QED BY OnlyMeasureMeasures, PurseOffersWhatIsFree
<1> QED BY <1>1, ShopStaysSound, PTL DEF Spec, PurseIsTrue
=============================================================================
