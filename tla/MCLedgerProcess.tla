--------------------------- MODULE MCLedgerProcess --------------------------
(* Instances of the overlapping calls of process for TLC.                  *)
EXTENDS LedgerProcess

CONSTANTS issuer, alice, gold, dropA, dropB

\* Enough Kei to issue one token, and the bound on the blocks of each account.
SmallGenesis == [a \in Accounts |-> IF a = issuer THEN 1 ELSE 0]
SmallHeight == [a \in Accounts |-> IF a = issuer THEN 4 ELSE 2]

\* Two leaves for alice and one for the issuer in dropA, and one more for alice
\* in dropB: together more than the cap lets through.
LeafOf(a, n) == [account |-> a, asset |-> <<issuer, gold>>, amount |-> n]
SmallLeaves ==
    [r \in Roots |->
       IF r = dropA THEN {LeafOf(alice, 1), LeafOf(alice, 2), LeafOf(issuer, 1)}
       ELSE {LeafOf(alice, 2)}]
=============================================================================
