------------------------------- MODULE Economy -------------------------------
(***************************************************************************)
(* One game over one chain: its recipes, its shelf and its drops, called   *)
(* by the game and by its players at the same time (packages/economy).     *)
(***************************************************************************)
EXTENDS Recipes, Drops

CONSTANTS
    Scripts,     \* what the application may be about to call: call -> a ready call
    Shown        \* the tables a player may hold a copy of

vars == <<balance, circulating, offers, roots, closed, claimed, call, faults>>

\* Another issuer's batch, published with the salt of this game's table.
RogueSalt(table) == DropSalt(Digest(table), None)

RogueOwed == [p \in Players |-> 1]

RogueRoot(table) == [root |-> CommitRoot("fools", RogueOwed, RogueSalt(table)),
                     by |-> "another", asset |-> "fools"]

Init ==
    /\ ChainInit
    /\ roots = {RogueRoot(table) : table \in Shown}
    /\ call \in Scripts
    /\ faults = 0

Next ==
    \/ \E c \in Calls :
         \/ Run(c) \/ Write(c) \/ WriteLost(c) \/ Stop(c) \/ RunEnds(c)
         \/ Choose(c) \/ Show(c) \/ Take(c) \/ NoListing(c)
         \/ Stock(c) \/ MintShortfall(c) \/ Collect(c) \/ StockEnds(c)
         \/ \E o \in Offers : OfferCopy(c, o) \/ OfferLost(c, o)
         \/ Drop(c) \/ Publish(c) \/ PublishLost(c) \/ DropEnds(c)
         \/ Close(c) \/ Ask(c) \/ Asked(c) \/ CloseRoot(c) \/ CloseLost(c) \/ CloseEnds(c)
    \/ \E o \in Offers : CancelOffer(o)
    \/ \E p \in Players : Claim(p)

Spec == Init /\ [][Next]_vars

-----------------------------------------------------------------------------
(***************************************************************************)
(* Recipes.                                                                *)
(***************************************************************************)
\* Types: units are never negative, and no cap is passed.
TypeOK ==
    /\ balance \in [Accounts -> [Assets -> 0 .. Uncapped]]
    /\ \A s \in Assets : circulating[s] \in 0 .. MaxSupply[s]
    /\ \A o \in Offers : offers[o].state \in {"none", "open", "accepted", "cancelled"}
    /\ \A r \in roots : r.asset \in Assets
    /\ closed \subseteq roots
    /\ \A e \in claimed : e[1] \in Players
    /\ faults \in 0 .. MaxFaults

\* Every stack of a recipe names an asset of its own.
Distinct(stacks) == IsInjective([i \in DOMAIN stacks |-> stacks[i].asset])

\* The ledger would accept every block of a run now, were it written now.
Runs(r, player) ==
    LET steps == Steps(r, player)
    IN /\ Distinct(r.costs) /\ Distinct(r.grants)
       /\ Len(steps) = Len(r.costs) + Len(r.grants)
       /\ \A i \in DOMAIN steps : Accepted(steps[i])

Buys(r, player) ==
    LET give == Head(r.grants) want == Head(r.costs)
    IN /\ give.asset # want.asset /\ player # Issuer
       /\ Held(player, want.asset) >= want.raw
       /\ \E o \in Offers : /\ Open(o) /\ offers[o].to \in {None, player}
                            /\ offers[o].give = give /\ offers[o].want = want

\* The dry run tells the truth (plan.ts): a plan without problems is one the
\* ledger would accept block by block, and a plan with problems is not, of
\* recipes that name no asset twice.
PlanIsTrue ==
    \A r \in Catalogue, p \in Players :
        /\ Distinct(r.costs) /\ Distinct(r.grants) /\ Gate(r, p) =>
             (Problems(r, p, p) = {} <=>
                IF Strategy(r) = "exchange" THEN Buys(r, p) ELSE Runs(r, p))
        /\ ~Gate(r, p) => "requirement-unmet" \in Problems(r, p, p)

\* A purchase that finds nothing says why (accept() of economy.ts): after
\* "no-listing", of the copies the call had seen none is left for this player,
\* and after "not-the-counterparty" each that is left is reserved for another.
NoListingIsTrue ==
    \A c \in Calls : call[c].op = "run" /\ call[c].pc = "done"
        => /\ call[c].answer = "no-listing" => \A o \in call[c].shelf : ~Open(o)
           /\ call[c].answer = "not-the-counterparty" =>
                \A o \in call[c].shelf : Open(o) => offers[o].to \notin {None, call[c].player}

\* A purchase settles the recipe's terms and no others, and one buyer has it.
SoldAsAsked ==
    \A c \in Calls : call[c].op = "run" /\ call[c].pc = "done" /\ call[c].taken # None
        => LET o == call[c].taken r == call[c].recipe
           IN /\ offers[o].state = "accepted"
              /\ offers[o].give = Head(r.grants) /\ offers[o].want = Head(r.costs)
              /\ \A d \in Calls \ {c} : call[d].op = "run" /\ call[d].pc = "done"
                                        => call[d].taken # o

\* What a call wrote is named by its result or by its error (stoppedPartway()
\* of economy.ts and batch.ts, and stock()): only the block whose answer was
\* lost stands unnamed.
WhatStandsIsNamed ==
    \A c \in Calls : call[c].pc = "done" /\ call[c].op \in {"run", "stock", "drop"}
        => call[c].named = call[c].wrote - (IF call[c].lost THEN 1 ELSE 0)

-----------------------------------------------------------------------------
(***************************************************************************)
(* Drops.                                                                  *)
(***************************************************************************)
\* A row is rolled by as many targets as it weighs, and nothing by the rest.
OddsAsDeclared ==
    \A table \in Shown : \A i \in 0 .. Len(table.rows) :
        Cardinality({t \in 0 .. TotalWeight(table) - 1 : RollDropTable(table, t) = i})
            = IF i = 0 THEN table.nothing ELSE table.rows[i].weight

\* Awards a player may be shown: of any batch that was returned, anybody's,
\* with the amount or the digest changed; and another issuer's.
Presented ==
    LET honest == UNION {Awards(p) : p \in Players}
        rogue == {[root |-> RogueRoot(t).root, asset |-> "fools", raw |-> 1,
                   proof |-> ProofFor("fools", RogueOwed, RogueSalt(t), p),
                   digest |-> Digest(t), nonce |-> None,
                   saltProof |-> SaltProof("fools", RogueOwed, RogueSalt(t))] :
                     t \in Shown, p \in Players}
    IN honest \cup rogue \cup {[a EXCEPT !.raw = @ + 1] : a \in honest}
              \cup {[a EXCEPT !.digest = Digest(t)] : a \in honest, t \in Shown}

\* An award verifies exactly when the table's own issuer published, for this
\* very table, an open batch that owes this player what the award says
\* (verifyAward() of batch.ts).
VerifiedMeansOwed ==
    \A a \in Presented, p \in Players, t \in Shown :
        VerifyAward(p, a, t) <=>
          /\ t.issuer = Issuer /\ a.digest = Digest(t)
          /\ \A r \in closed : r.root # a.root
          /\ \E c \in Returned : \E i \in DOMAIN call[c].batch :
               /\ p \in DOMAIN call[c].batch[i].owed
               /\ Digest(call[c].table) = Digest(t)
               /\ a = AwardFor(c, i, p)

\* What a batch promised fits under the cap as long as nothing else is made
\* (assertCommitHeadroom() of headroom.ts).
PromisesFit ==
    \A c \in Calls :
        call[c].op = "drop" /\ call[c].pc \in {"publishing", "done"}
        /\ (\A d \in Calls \ {c} : call[d].op = "close" \/ call[d].pc = "ready")
        => \A i \in 1 .. call[c].wrote :
             LET e == call[c].batch[i]
             IN circulating[e.asset] + Total([p \in {q \in DOMAIN e.owed :
                    <<q, RootAt(c, i)>> \notin claimed} |-> e.owed[p]]) <= MaxSupply[e.asset]

\* Closing takes nothing (closeRoots() of batch.ts): unless it was forced, a
\* root is closed after everybody under it has claimed; and a forced close
\* names everybody who has lost something by it.
CloseTakesNothing ==
    \A c \in Calls : call[c].op = "close" /\ call[c].pc \in {"closing", "done"}
        => LET d == call[c].of
               out == {e \in Entitled(d) \ claimed : \E i \in 1 .. call[c].closes :
                         e[2] = RootAt(d, i)}
           IN out \subseteq (IF call[c].force THEN call[c].unclaimed ELSE {})

\* What recipes say before and after they ran, in one.
RecipesKeepTheirWord ==
    TypeOK /\ PlanIsTrue /\ NoListingIsTrue /\ SoldAsAsked /\ WhatStandsIsNamed

\* What players may rely on of a drop: its odds, and the awards they hold.
AwardsAreHonest == OddsAsDeclared /\ VerifiedMeansOwed

\* What a batch promises while it stands and when it is closed.
BatchesKeepTheirWord == PromisesFit /\ CloseTakesNothing
=============================================================================
