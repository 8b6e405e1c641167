--------------------------- MODULE MCMarketStorage ---------------------------
(***************************************************************************)
(* Jobs for TLC.  Offer 1 is seen open, then accepted beside offer 2, and  *)
(* cancelled by a source that is wrong about it, beside offer 3; offer 2   *)
(* is seen once more as it was.  One account is polled three times,        *)
(* another once, and one page is malformed.  One participant is announced  *)
(* twice, another under an id of the first.                                *)
(***************************************************************************)
EXTENDS MarketStorage, TLC

Poll(key, at, source) ==
    [key |-> key, at |-> at, gen |-> 1, newest |-> 1, source |-> source]

Pages ==
    {Materialize(<<Observed(1, 1, "open", 0, 0, 1, 1)>>, 0, Poll(1, 1, 1)),
     Materialize(<<Observed(1, 1, "accepted", 7, 1, 1, 2),
                   Observed(2, 1, "accepted", 8, 2, 1, 2)>>, 0, Poll(1, 2, 1)),
     Materialize(<<Observed(1, 1, "cancelled", 9, 1, 2, 2),
                   Observed(3, 1, "open", 0, 0, 2, 2)>>, 2, Poll(2, 1, 2)),
     Materialize(<<Observed(2, 1, "accepted", 8, 2, 1, 3)>>, 0, Poll(1, 3, 1)),
     Materialize(<<Observed(2, 1, "accepted", 0, 0, 1, 2)>>, 0, Poll(1, 2, 1))}

Announcements == {Announce(1, 1, 1), Announce(1, 2, 2), Announce(2, 1, 1)}

AllJobs == Pages \cup Announcements

Alike == Permutations(Callers)

\* A bound of the run: a read that is complete with its first row is not
\* looked at, there is nothing in it that could be torn.
LongReads ==
    reading = Idle /\ reading' # Idle => Len(reading'.shot) > 1
=============================================================================
