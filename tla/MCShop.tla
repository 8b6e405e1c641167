------------------------------- MODULE MCShop -------------------------------
(***************************************************************************)
(* Model-checking instance of Shop.                                        *)
(***************************************************************************)
EXTENDS Shop, TLC

CONSTANTS c1, c2, c3, l1, l2, f1

MCCalls == {c1, c2, c3}
MCPurse == [coin |-> 2, ware |-> 2]

MCTerms == [f \in Foreign |-> [qty |-> 1, price |-> 2]]

MCListings == [qty : Optional({0, 2}), each : Optional({1}), price : Optional({1})]
MCGifts == [asset : {"coin"}, amount : {1, 2}] \cup [asset : {"ware"}, amount : {0, 1}]

Script(a, b, c) == (c1 :> a) @@ (c2 :> b) @@ (c3 :> c)

\* Two that spend the wares, two that spend the money, a stall that is asked
\* for twice, and one that is taken down.
MCScripts == {Script("list", "gift", "sync"), Script("buy", "gift", "gift"),
              Script("list", "sync", "sync"), Script("list", "cancel", "buy")}
=============================================================================
