------------------------------ MODULE MCClaims ------------------------------
(* Instances of Claims for TLC. *)
EXTENDS Claims

Right(r) == [root |-> r, terms |-> "right"]
Wrong(r) == [root |-> r, terms |-> "wrong"]

\* Each proof by itself, and one of them with an amount its root does not state.
OneByOne == {<<Right(r)>> : r \in Roots} \cup {<<Wrong(CHOOSE r \in Roots : TRUE)>>}

Alike == Permutations(Tabs) \cup Permutations(Calls)

\* A bound of the run: a root without room is looked at by itself, apart from
\* failures and closings (one page meets them together in MCWallet).
FullAlone == full' # {} => faults' = 0 /\ closed' = {}
=============================================================================
