------------------------------ MODULE MCEconomy ------------------------------
(***************************************************************************)
(* A small game for TLC, one part of it at a time: its recipes and drops   *)
(* with three calls of them at a time, the top-ups its server accepts, or  *)
(* the inventories a client of it scans.  `part` is chosen once; what      *)
(* belongs to the other parts stays as it began.                           *)
(***************************************************************************)
EXTENDS Economy, PlayerServices

CONSTANTS p1, p2, c1, c2, c3, a1, a2, a3

VARIABLE part

-----------------------------------------------------------------------------
(* Recipes and drops: ten recipes and four tables. *)

S(asset, raw) == [asset |-> asset, raw |-> raw]
R(requires, costs, grants, sink) ==
    [requires |-> requires, costs |-> costs, grants |-> grants, sink |-> sink]

Shop  == R(<<>>, <<S("kei", 2)>>, <<S("gold", 1)>>, None)
Quest == R(<<>>, <<>>, <<S("kei", 1), S("gold", 2)>>, None)
Fee   == R(<<S("gold", 1)>>, <<S("gold", 1), S("kei", 1)>>, <<>>, "issuer")
Forge == R(<<>>, <<S("gold", 2)>>, <<>>, None)

MCRecipes == {Shop, Quest, Fee, Forge,
    R(<<>>, <<S("kei", 1)>>, <<>>, None),
    R(<<>>, <<S("gem", 1)>>, <<>>, "issuer"),
    R(<<S("gem", 1)>>, <<S("gem", 1)>>, <<>>, "burn"),
    R(<<>>, <<>>, <<S("ore", 1)>>, None),
    R(<<>>, <<S("kei", 1)>>, <<S("gem", 1)>>, None),
    R(<<>>, <<S("kei", 1)>>, <<S("gold", 1)>>, "burn")}

Row(symbol, raw, weight) == [symbol |-> symbol, raw |-> raw, weight |-> weight]

Boss   == [id |-> "boss", issuer |-> Issuer, nothing |-> 1,
           rows |-> <<Row("GOLD", 1, 2), Row("GEM", 1, 1)>>]
Edited == [Boss EXCEPT !.rows[1].weight = 3]
Bare   == [Boss EXCEPT !.issuer = None]
Purse  == [id |-> "purse", issuer |-> Issuer, nothing |-> 0,
           rows |-> <<Row("GOLD", 2, 1), Row("KEI", 1, 1)>>]

MCShown == {Boss, Edited, Bare}

RunOf(r, me, player, force) ==
    [pc |-> "ready", op |-> "run", recipe |-> r, me |-> me, player |-> player, force |-> force]
StockOf(r, count, to) ==
    [pc |-> "ready", op |-> "stock", recipe |-> r, count |-> count, to |-> to, mint |-> TRUE]
DropOf(table) == [pc |-> "ready", op |-> "drop", table |-> table, players |-> <<p1, p2>>]
CloseOf(c, force) == [pc |-> "ready", op |-> "close", of |-> c, force |-> force]

Script(x, y, z) == [c \in Calls |-> IF c = c1 THEN x ELSE IF c = c2 THEN y ELSE z]

MCScripts ==
    {Script(StockOf(Shop, 2, to), RunOf(Shop, p1, p1, f), RunOf(Shop, p2, p2, FALSE)) :
       to \in {None, p2}, f \in BOOLEAN}
    \cup {Script(StockOf(Shop, 2, None), RunOf(Shop, p1, p1, TRUE), RunOf(Shop, p1, p1, TRUE))}
    \cup {Script(RunOf(Quest, Issuer, p1, FALSE), RunOf(Fee, p1, p1, f), RunOf(r, me, p1, f)) :
            f \in BOOLEAN, r \in {Forge, Quest}, me \in {p1, Issuer}}
    \cup {Script(DropOf(Boss), CloseOf(c1, f), z) : f \in BOOLEAN,
            z \in {CloseOf(c1, FALSE), RunOf(Quest, Issuer, p1, FALSE), DropOf(Purse)}}

-----------------------------------------------------------------------------
\* Top-ups: three payments at 2.5 units of a tenth each; the last buys the least,
\* and the cap has room for some of what they buy beside what the game mints.
MCPayments == <<7, 4, 1>>
MCRate == [digits |-> 25, decimals |-> 1]

\* Inventories: two scans over three assets, one of which the node may come to
\* know late; one slot, two records remembered.
MCLists == {<<a1, a2, a3>>, <<a2, a1>>, <<a3>>}

-----------------------------------------------------------------------------
GameInit ==
    /\ part \in {"game", "topups", "inventory"}
    /\ Init /\ ToppingUp!Init /\ Inventory!Init
    /\ part # "game" => call = CHOOSE script \in Scripts : TRUE
    /\ part # "topups" => refunds
    /\ absent \subseteq (IF part = "inventory" THEN {a2} ELSE {})

GameNext ==
    \/ part = "game" /\ Next /\ UNCHANGED <<part, topups, inventory>>
    \/ part = "topups" /\ ToppingUp!Next /\ UNCHANGED <<part, vars, inventory>>
    \/ part = "inventory" /\ Inventory!Next /\ UNCHANGED <<part, vars, topups>>

GameSpec == GameInit /\ [][GameNext]_<<vars, part, topups, inventory>>

\* What recipes say before and after they ran: RecipesKeepTheirWord.
RecipesTrue == part = "game" => RecipesKeepTheirWord

\* The odds of a drop and the awards of players: AwardsAreHonest.
AwardsTrue == part = "game" => AwardsAreHonest

\* What a batch promises while it stands and when it is closed: BatchesKeepTheirWord.
BatchesTrue == part = "game" => BatchesKeepTheirWord
=============================================================================
