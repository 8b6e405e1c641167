------------------------------ MODULE Recipes -------------------------------
(***************************************************************************)
(* Recipes of packages/economy: what defineRecipe admits (recipe.ts), the  *)
(* dry run of plan.ts, and run and stock of economy.ts, block by block.    *)
(*                                                                         *)
(* A recipe is [requires, costs, grants, sink], stacks being sequences of  *)
(* [asset, raw], and sink "burn", "issuer" or None for the default.        *)
(***************************************************************************)
EXTENDS EconomyLedger

CONSTANTS Recipes    \* the catalogue both halves of the game import

-----------------------------------------------------------------------------
(***************************************************************************)
(* recipe.ts: the shapes one block can settle.                             *)
(***************************************************************************)
Strategy(r) == IF r.costs = <<>> THEN "grant"
               ELSE IF r.grants = <<>> THEN "sink" ELSE "exchange"

\* defineRecipe(): one asset each way, or one way only; a swap burns nothing.
WellFormed(r) ==
    /\ r.costs # <<>> \/ r.grants # <<>>
    /\ Strategy(r) = "exchange" => Len(r.costs) = 1 /\ Len(r.grants) = 1 /\ r.sink # "burn"
    /\ \A stack \in Range(r.requires \o r.costs \o r.grants) : stack.raw > 0

Catalogue == {r \in Recipes : WellFormed(r)}

\* sinkFor(): where the costs go.
Sink(r) == IF Strategy(r) = "exchange" THEN "issuer"
           ELSE IF r.sink = None THEN "burn" ELSE r.sink

-----------------------------------------------------------------------------
(***************************************************************************)
(* plan.ts: the problems a dry run finds, and the blocks of the run.       *)
(***************************************************************************)
Step(by, action, stack, to) ==
    [by |-> by, action |-> action, asset |-> stack.asset, raw |-> stack.raw, to |-> to]

OverSupply(stack) == circulating[stack.asset] + stack.raw > MaxSupply[stack.asset]

\* planGrant(): Kei is paid out of the issuer's balance, the rest is minted.
GrantProblems(stack) ==
    IF stack.asset = "kei"
    THEN {"insufficient-kei" : x \in {y \in {1} : Held(Issuer, "kei") < stack.raw}}
    ELSE IF IssuerOf[stack.asset] # Issuer THEN {"not-issuer"}
    ELSE {"over-max-supply" : x \in {y \in {1} : OverSupply(stack)}}

GrantStep(stack, player) ==
    IF stack.asset = "kei" THEN <<Step(Issuer, "send", stack, player)>>
    ELSE IF IssuerOf[stack.asset] # Issuer THEN <<>>
    ELSE <<Step(Issuer, "mint", stack, player)>>

\* checkAffordable()
Affordable(stack, player) == Held(player, stack.asset) >= stack.raw

\* checkTransferable() and checkSwappable()
Permitted(stack, from, to) == MayMove(stack.asset, from, to)

\* planSink(): holders cannot burn Kei, and what goes to the issuer must move.
SinkProblems(r, stack, player) ==
    {code \in {"insufficient-balance", "cannot-burn-kei", "transfer-not-permitted"} :
       CASE code = "insufficient-balance" -> ~Affordable(stack, player)
         [] code = "cannot-burn-kei" -> Sink(r) = "burn" /\ stack.asset = "kei"
         [] code = "transfer-not-permitted" -> /\ Sink(r) = "issuer"
                                               /\ ~Permitted(stack, player, Issuer)}

SinkStep(r, stack, player) ==
    IF Sink(r) = "issuer"
    THEN <<Step(player, IF stack.asset = "kei" THEN "send" ELSE "transfer", stack, Issuer)>>
    ELSE IF stack.asset = "kei" THEN <<>> ELSE <<Step(player, "burn", stack, None)>>

\* rawTermsMatch(): the chain's terms are exactly the recipe's.
TermsMatch(o, r) ==
    /\ Open(o)
    /\ offers[o].give = Head(r.grants)
    /\ offers[o].want = Head(r.costs)

\* matchingOffers()
Matching(r) == {o \in Offers : TermsMatch(o, r)}

\* acceptableBy(): a copy reserved for another is no copy for this player.
AcceptableBy(shelf, player) == {o \in shelf : offers[o].to \in {None, player}}

\* planExchange(): of the player, who asks for an offer to accept, or of the
\* issuer, who asks for the stock of one.
ExchangeProblems(r, player, me) ==
    LET cost == Head(r.costs) grant == Head(r.grants)
    IN IF cost.asset = grant.asset THEN {"same-asset"}
       ELSE IF player = Issuer THEN {"self-swap"}
       ELSE {code \in {"offered", "wanted", "insufficient-balance", "no-stock", "no-listing",
                      "not-the-counterparty"} :
         CASE code = "offered" -> ~Permitted(grant, Issuer, player)
           [] code = "wanted" -> ~Permitted(cost, Issuer, player)
           [] code = "insufficient-balance" -> ~Affordable(cost, player)
           [] code = "no-stock" -> me = Issuer /\ ~Affordable(grant, Issuer)
           [] code = "no-listing" -> me # Issuer /\ Matching(r) = {}
           [] code = "not-the-counterparty" -> /\ me # Issuer /\ Matching(r) # {}
                                               /\ AcceptableBy(Matching(r), player) = {}}

\* checkRequirements(): a gate, not a price.
Gate(r, player) ==
    \A stack \in Range(r.requires) : Held(player, stack.asset) >= stack.raw

\* buildPlan(): everything that is wrong, not only the first.
Problems(r, player, me) ==
    {"requirement-unmet" : x \in {y \in {1} : ~Gate(r, player)}} \cup
    CASE Strategy(r) = "grant" -> UNION {GrantProblems(stack) : stack \in Range(r.grants)}
      [] Strategy(r) = "sink"  -> UNION {SinkProblems(r, stack, player) : stack \in Range(r.costs)}
      [] OTHER                 -> ExchangeProblems(r, player, me)

Steps(r, player) ==
    CASE Strategy(r) = "grant" ->
           FlattenSeq([i \in DOMAIN r.grants |-> GrantStep(r.grants[i], player)])
      [] Strategy(r) = "sink" ->
           FlattenSeq([i \in DOMAIN r.costs |-> SinkStep(r, r.costs[i], player)])
      [] OTHER -> <<>>

-----------------------------------------------------------------------------
(***************************************************************************)
(* run(): the plan is made again, and its blocks are written one by one.   *)
(***************************************************************************)
Ready(c, op) == call[c].pc = "ready" /\ call[c].op = op

\* History: wrote counts the blocks of the call that landed, lost that one
\* answer of it was, and named counts what its result or its error names.
Over(c, answer, named) ==
    [pc |-> "done", op |-> call[c].op, answer |-> answer, named |-> named,
     wrote |-> call[c].wrote, lost |-> call[c].lost,
     recipe |-> call[c].recipe, player |-> call[c].player,
     shelf |-> call[c].shelf, taken |-> call[c].taken]

Running(pc, r, me, player) ==
    [pc |-> pc, op |-> "run", recipe |-> r, me |-> me, player |-> player,
     steps |-> Steps(r, player), wrote |-> 0, lost |-> FALSE, shelf |-> {}, taken |-> None]

Answered(c, answer, named) == call' = [call EXCEPT ![c] = Over(c, answer, named)]

\* A plan with problems runs only by force; a photograph of the chain either way.
Run(c) ==
    LET r == call[c].recipe me == call[c].me player == call[c].player
    IN /\ Ready(c, "run")
       /\ Problems(r, player, me) = {} \/ call[c].force
       /\ Strategy(r) = "exchange" => me = player /\ me # Issuer
       /\ call' = [call EXCEPT ![c] = Running(IF Strategy(r) = "exchange" THEN "choosing"
                                              ELSE "writing", r, me, player)]
       /\ UNCHANGED <<chain, faults>>

\* Mutant: an error names the block it is about as well.
StoppedAtOnce(c) == call[c].wrote + 1

\* stoppedPartway(): what is written stands, and the error names it.
Stopped(c) == IF call[c].lost THEN call[c].wrote - 1 ELSE call[c].wrote

\* write() and requireSigner(): a key signs for its own account only.
Write(c) ==
    LET i == call[c].wrote + 1
        step == call[c].steps[i]
    IN /\ call[c].pc = "writing" /\ i <= Len(call[c].steps)
       /\ IF step.by = call[c].me /\ Accepted(step)
          THEN /\ Applied(step)
               /\ call' = [call EXCEPT ![c].wrote = i]
          ELSE /\ Answered(c, "stopped", Stopped(c))
               /\ UNCHANGED chain
       /\ UNCHANGED faults

WriteLost(c) ==
    LET i == call[c].wrote + 1
        step == call[c].steps[i]
    IN /\ call[c].pc = "writing" /\ i <= Len(call[c].steps) /\ Fault
       /\ \/ /\ step.by = call[c].me /\ Accepted(step)
             /\ Applied(step)
             /\ call' = [call EXCEPT ![c].wrote = i, ![c].lost = TRUE, ![c].pc = "stopping"]
          \/ /\ call' = [call EXCEPT ![c].pc = "stopping"]
             /\ UNCHANGED chain

Stop(c) ==
    /\ call[c].pc = "stopping"
    /\ Answered(c, "stopped", Stopped(c))
    /\ UNCHANGED <<chain, faults>>

RunEnds(c) ==
    /\ call[c].pc = "writing" /\ call[c].wrote = Len(call[c].steps)
    /\ Answered(c, "done", call[c].wrote)
    /\ UNCHANGED <<chain, faults>>

-----------------------------------------------------------------------------
(***************************************************************************)
(* accept(): whichever matching offer is still open.                       *)
(***************************************************************************)
\* Two reads of the shelf: one decides what matches, the other what is shown.
Choose(c) ==
    /\ call[c].pc = "choosing"
    /\ call' = [call EXCEPT ![c].pc = "showing", ![c].shelf = Matching(call[c].recipe)]
    /\ UNCHANGED <<chain, faults>>

\* What is reserved for others is not tried, and a shelf of nothing else is
\* refused as that.
Show(c) ==
    LET shown == {o \in call[c].shelf : Open(o)}
        shelf == AcceptableBy(shown, call[c].player)
    IN /\ call[c].pc = "showing"
       /\ IF shown # {} /\ shelf = {}
          THEN Answered(c, "not-the-counterparty", 0)
          ELSE call' = [call EXCEPT ![c].pc = "taking", ![c].shelf = shelf,
                                    ![c].steps = SetToSeq(shelf)]
       /\ UNCHANGED <<chain, faults>>

\* A race is lost to whoever took or cancelled the offer, and only a race.
MovesOn(c, o) == ~Open(o)

Price(c) == Head(call[c].recipe.costs)

Take(c) ==
    /\ call[c].pc = "taking" /\ call[c].steps # <<>>
    /\ LET o == Head(call[c].steps)
           payer == call[c].player
       IN IF Open(o) /\ Held(payer, Price(c).asset) >= Price(c).raw
          THEN /\ offers' = [offers EXCEPT ![o].state = "accepted"]
               /\ LET give == offers[o].give want == offers[o].want
                  IN balance' = [a \in Accounts |-> [s \in Assets |-> balance[a][s]
                       + (IF a = payer THEN (IF s = give.asset THEN give.raw ELSE 0)
                                            - (IF s = want.asset THEN want.raw ELSE 0) ELSE 0)
                       + (IF a = Issuer /\ s = want.asset THEN want.raw ELSE 0)]]
               /\ call' = [call EXCEPT ![c] = [Over(c, "done", 1)
                             EXCEPT !.wrote = 1, !.taken = o]]
               /\ UNCHANGED <<circulating, roots, closed, claimed>>
          ELSE /\ IF MovesOn(c, o)
                  THEN call' = [call EXCEPT ![c].steps = Tail(@)]
                  ELSE Answered(c, "insufficient-balance", 0)
               /\ UNCHANGED chain
    /\ UNCHANGED faults

NoListing(c) ==
    /\ call[c].pc = "taking" /\ call[c].steps = <<>>
    /\ Answered(c, "no-listing", 0)
    /\ UNCHANGED <<chain, faults>>

-----------------------------------------------------------------------------
(***************************************************************************)
(* stock(): copies of a recipe are put on the shelf, one offer each.       *)
(***************************************************************************)
Stock(c) ==
    LET r == call[c].recipe
        grant == Head(r.grants)
        short == call[c].count * grant.raw - Held(Issuer, grant.asset)
    IN /\ Ready(c, "stock")
       /\ Strategy(r) = "exchange"
       /\ Head(r.costs).asset # grant.asset
       /\ short > 0 => call[c].mint /\ grant.asset # "kei" /\ IssuerOf[grant.asset] = Issuer
       /\ call' = [call EXCEPT ![c] =
            [pc |-> IF short > 0 THEN "minting" ELSE "stocking", op |-> "stock",
             recipe |-> r, player |-> Issuer, count |-> call[c].count, to |-> call[c].to,
             short |-> short,
             wrote |-> 0, lost |-> FALSE, shelf |-> {}, taken |-> None]]
       /\ UNCHANGED <<chain, faults>>

\* The shortfall is minted to the issuer, and can be locked once it is collected.
MintShortfall(c) ==
    LET grant == Head(call[c].recipe.grants)
    IN /\ call[c].pc = "minting"
       /\ IF HasRoom(grant.asset, call[c].short)
          THEN /\ circulating' = [circulating EXCEPT ![grant.asset] = @ + call[c].short]
               /\ call' = [call EXCEPT ![c].pc = "collecting"]
          ELSE /\ Answered(c, "over-max-supply", 0)
               /\ UNCHANGED circulating
       /\ UNCHANGED <<balance, offers, roots, closed, claimed, faults>>

Collect(c) ==
    /\ call[c].pc = "collecting"
    /\ balance' = [balance EXCEPT ![Issuer][Head(call[c].recipe.grants).asset] = @ + call[c].short]
    /\ call' = [call EXCEPT ![c].pc = "stocking"]
    /\ UNCHANGED <<circulating, offers, roots, closed, claimed, faults>>

OfferOf(c) == [state |-> "open", give |-> Head(call[c].recipe.grants),
               want |-> Head(call[c].recipe.costs), to |-> call[c].to]

MayOffer(c) ==
    LET give == Head(call[c].recipe.grants)
    IN /\ Held(Issuer, give.asset) >= give.raw
       /\ MayMove(give.asset, Issuer, call[c].to)
       /\ MayMove(Head(call[c].recipe.costs).asset, Issuer, call[c].to)

Locked(c, o) ==
    LET give == Head(call[c].recipe.grants)
    IN /\ offers' = [offers EXCEPT ![o] = OfferOf(c)]
       /\ balance' = [balance EXCEPT ![Issuer][give.asset] = @ - give.raw]
       /\ UNCHANGED <<circulating, roots, closed, claimed>>

OfferCopy(c, o) ==
    /\ call[c].pc = "stocking" /\ call[c].wrote < call[c].count
    /\ offers[o] = NoOffer
    /\ IF MayOffer(c)
       THEN /\ Locked(c, o)
            /\ call' = [call EXCEPT ![c].wrote = @ + 1, ![c].shelf = @ \cup {o}]
       ELSE Answered(c, "stopped", Stopped(c)) /\ UNCHANGED chain
    /\ UNCHANGED faults

OfferLost(c, o) ==
    /\ call[c].pc = "stocking" /\ call[c].wrote < call[c].count
    /\ offers[o] = NoOffer /\ Fault
    /\ \/ /\ MayOffer(c) /\ Locked(c, o)
          /\ call' = [call EXCEPT ![c].wrote = @ + 1, ![c].lost = TRUE, ![c].pc = "stopping"]
       \/ call' = [call EXCEPT ![c].pc = "stopping"] /\ UNCHANGED chain

StockEnds(c) ==
    /\ call[c].pc = "stocking" /\ call[c].wrote = call[c].count
    /\ Answered(c, "done", call[c].wrote)
    /\ UNCHANGED <<chain, faults>>

\* The issuer takes a copy off the shelf.
CancelOffer(o) ==
    /\ Open(o)
    /\ offers' = [offers EXCEPT ![o].state = "cancelled"]
    /\ balance' = [balance EXCEPT ![Issuer][offers[o].give.asset] = @ + offers[o].give.raw]
    /\ UNCHANGED <<circulating, roots, closed, claimed, call, faults>>
=============================================================================
