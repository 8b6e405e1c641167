-------------------------- MODULE AtomicMarketStore --------------------------
(***************************************************************************)
(* What the market store promises: every commit is one job applied to what *)
(* is stored at that moment, whole, and nothing else ever changes it but   *)
(* clear(), after which a new life begins under a new cursor key.  What a  *)
(* job makes of an envelope is for MarketEnvelope to say.                  *)
(***************************************************************************)
EXTENDS Naturals

CONSTANTS
    Jobs,
    None,                \* no envelope stored
    EmptyEnvelope(_),    \* the envelope of a life in which nothing is stored
    Refuses(_, _),       \* a job the envelope does not admit
    After(_, _)          \* what one job makes of an envelope

VARIABLES
    stored,   \* the envelope, or None when there is none
    life      \* how often it was cleared; stands for the random cursor key

Current == IF stored = None THEN EmptyEnvelope(life) ELSE stored

Init == stored = None /\ life = 0

Commit(job) ==
    /\ ~Refuses(Current, job)
    /\ stored' = After(Current, job)
    /\ UNCHANGED life

Clear ==
    /\ stored' = None
    /\ life' = life + 1

\* Every commit counts the revision up, even one that adds nothing.
Next ==
    /\ <<stored, life>>' # <<stored, life>>
    /\ Clear \/ \E job \in Jobs : Commit(job)

Spec == Init /\ [][Next]_<<stored, life>>
=============================================================================
