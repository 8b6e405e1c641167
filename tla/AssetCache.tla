------------------------------ MODULE AssetCache ------------------------------
(***************************************************************************)
(* AssetCache and Gate of packages/core/src/asset-cache.ts: scans of an    *)
(* inventory share one memory of issuance records and one bound on what is *)
(* asked of the node at once.  A lookup that finds every slot held waits   *)
(* in line, and is handed the slot of the one that ends.                   *)
(*                                                                         *)
(* A record never changes, so which assets are remembered is all there is  *)
(* to remember.                                                            *)
(***************************************************************************)
EXTENDS Integers, FiniteSets, SequencesExt

CONSTANTS
    Assets,
    Lists,          \* what a scan may be about: sequences of assets
    Scans,          \* calls of resolve
    Limit,          \* records remembered (2048)
    Concurrency,    \* lookups the node is asked at once (8)
    MaxFaults       \* a bound of a run

VARIABLES
    known,      \* remembered, least recently used first
    asking,     \* asset -> how far its one lookup is
    waiting,    \* lookups in line for a slot
    held,       \* slots taken
    scan,       \* what each scan has and what it waits for
    absent,     \* what the node does not know yet
    faults

vars == <<known, asking, waiting, held, scan, absent, faults>>

Answers == {"found", "nothing", "failed"}

Init ==
    /\ known = <<>>
    /\ asking = [a \in Assets |-> "no"]
    /\ waiting = <<>>
    /\ held = 0
    /\ scan = [c \in Scans |-> [pc |-> "ready", wants |-> {}, out |-> {}, waits |-> {}, late |-> {}]]
    /\ absent \in SUBSET Assets
    /\ faults = 0

In(pc) == {a \in Assets : asking[a] = pc}

\* What a list has of a set, in the order of the list.
Only(list, set) ==
    LET kept[i \in 0 .. Len(list)] ==
          IF i = 0 THEN <<>>
          ELSE IF list[i] \in set THEN Append(kept[i - 1], list[i]) ELSE kept[i - 1]
    IN kept[Len(list)]

\* recall(): what is used again moves to the end.
Recalled(list) == Only(known, Assets \ ToSet(list)) \o Only(list, ToSet(known))

\* lookUp(): a lookup that is under way is shared, whoever began it; of the
\* others, those that find a slot are sent, and the rest stand in line.
\* History: late, what the scan may miss although the node comes to know it.
Resolve(c, list) ==
    LET missing == ToSet(list) \ ToSet(known)
        fresh == Only(list, missing \cap In("no"))
        room == IF Len(fresh) < Concurrency - held THEN Len(fresh) ELSE Concurrency - held
        sent == ToSet(SubSeq(fresh, 1, room))
    IN /\ scan[c].pc = "ready"
       /\ known' = Recalled(list)
       /\ asking' = [a \in Assets |-> IF a \in sent THEN "asked"
                                      ELSE IF Contains(fresh, a) THEN "waiting" ELSE asking[a]]
       /\ waiting' = waiting \o SubSeq(fresh, room + 1, Len(fresh))
       /\ held' = held + room
       /\ scan' = [scan EXCEPT ![c] =
            [pc |-> IF missing = {} THEN "done" ELSE "waiting", wants |-> ToSet(list),
             out |-> ToSet(list) \ missing, waits |-> missing,
             late |-> missing \cap (absent \cup In("nothing"))]]
       /\ UNCHANGED <<absent, faults>>

\* Mutant: a lookup that fails keeps its slot.
ReleasedIfAnswered(a, answer) ==
    IF answer = "failed"
    THEN asking' = [asking EXCEPT ![a] = answer] /\ UNCHANGED <<waiting, held>>
    ELSE IF waiting # <<>>
    THEN /\ asking' = [asking EXCEPT ![a] = answer, ![Head(waiting)] = "asked"]
         /\ waiting' = Tail(waiting)
         /\ UNCHANGED held
    ELSE /\ asking' = [asking EXCEPT ![a] = answer]
         /\ held' = held - 1
         /\ UNCHANGED waiting

\* The slot is handed on to the first in line, or freed, however the lookup ends.
Released(a, answer) ==
    IF waiting # <<>>
    THEN /\ asking' = [asking EXCEPT ![a] = answer, ![Head(waiting)] = "asked"]
         /\ waiting' = Tail(waiting)
         /\ UNCHANGED held
    ELSE /\ asking' = [asking EXCEPT ![a] = answer]
         /\ held' = held - 1
         /\ UNCHANGED waiting

\* The node answers.
Answered(a) ==
    /\ asking[a] = "asked"
    /\ Released(a, IF a \in absent THEN "nothing" ELSE "found")
    /\ UNCHANGED <<known, scan, absent, faults>>

\* The request breaks, or the answer is about another asset.
Fails(a) ==
    /\ asking[a] = "asked"
    /\ faults < MaxFaults
    /\ faults' = faults + 1
    /\ Released(a, "failed")
    /\ UNCHANGED <<known, scan, absent>>

\* remember(): the least recently used gives way.
Remember(a) ==
    LET grown == Append(known, a)
    IN SubSeq(grown, IF Len(grown) > Limit THEN 2 ELSE 1, Len(grown))

\* What the promise of a lookup means to a scan that waits for it: the first
\* that fails ends the scan, and so does the last that does not.
Goes(s, a) ==
    IF a \notin s.waits THEN s
    ELSE IF asking[a] = "failed" THEN [s EXCEPT !.pc = "threw", !.waits = {}]
    ELSE [s EXCEPT !.waits = @ \ {a},
                   !.out = IF asking[a] = "found" THEN @ \cup {a} ELSE @,
                   !.pc = IF s.waits = {a} THEN "done" ELSE @]

\* Nothing is remembered of a lookup that found nothing, or failed.
Settle(a) ==
    /\ asking[a] \in Answers
    /\ known' = IF asking[a] = "found" THEN Remember(a) ELSE known
    /\ asking' = [asking EXCEPT ![a] = "no"]
    /\ scan' = [c \in Scans |-> Goes(scan[c], a)]
    /\ UNCHANGED <<waiting, held, absent, faults>>

\* The node catches up with an issuance.
Issued(a) ==
    /\ a \in absent
    /\ absent' = absent \ {a}
    /\ UNCHANGED <<known, asking, waiting, held, scan, faults>>

Next ==
    \/ \E c \in Scans, list \in Lists : Resolve(c, list)
    \/ \E a \in Assets : Answered(a) \/ Fails(a) \/ Settle(a) \/ Issued(a)

Spec == Init /\ [][Next]_vars

-----------------------------------------------------------------------------
(* Properties *)

TypeOK ==
    /\ IsInjective(known) /\ Len(known) <= Limit /\ ToSet(known) \subseteq Assets
    /\ \A a \in Assets : asking[a] \in {"no", "waiting", "asked"} \cup Answers
    /\ \A c \in Scans : /\ scan[c].pc \in {"ready", "waiting", "done", "threw"}
                        /\ scan[c].out \cup scan[c].waits \subseteq Assets
    /\ absent \subseteq Assets
    /\ faults \in 0 .. MaxFaults

\* The slots that are held are those of lookups the node has not answered, never
\* more than the bound for all scans together, and none is free, or lost to a
\* lookup that failed, while another stands in line (Gate.run).
NoSlotLost ==
    /\ held = Cardinality(In("asked")) /\ held <= Concurrency
    /\ ToSet(waiting) = In("waiting") /\ IsInjective(waiting)
    /\ waiting # <<>> => held = Concurrency

\* A scan that waits will be told: each asset it waits for is being looked up.
\* And one that is done has every asset the node knew of when it began, whatever
\* the memory had to forget meanwhile and whoever had asked first; but for an
\* answer that was on its way already (resolve, lookUp).
ScansAreWhole ==
    \A c \in Scans :
        /\ \A a \in scan[c].waits : asking[a] # "no"
        /\ scan[c].pc = "waiting" <=> scan[c].waits # {}
        /\ scan[c].pc = "done" => scan[c].wants \ scan[c].out \subseteq scan[c].late

\* What inventories are told, and what the node is asked for it, in one.
ScansAreServed == TypeOK /\ NoSlotLost /\ ScansAreWhole
=============================================================================
