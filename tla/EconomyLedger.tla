---------------------------- MODULE EconomyLedger ----------------------------
(***************************************************************************)
(* What packages/economy sees of the chain: balances, supply, offers and   *)
(* published roots of a game and its players.  The ledger itself is in     *)
(* Ledger; here a block is one step, and what is sent to a player is       *)
(* collected with it (the background drain of KeiClient).                  *)
(***************************************************************************)
EXTENDS Integers, SequencesExt

CONSTANTS
    None,
    Players,
    Offers,          \* hashes of the offers that may be written
    Calls,           \* calls of the application, each made once
    MaxFaults        \* a bound of a run: calls that are lost

Issuer == "game"

Accounts == {Issuer} \cup Players

Assets == {"kei", "gold", "gem", "ore", "fools"}

\* Nobody issues Kei; ore is another game's, and so is its token called gold.
IssuerOf == [kei |-> None, gold |-> Issuer, gem |-> Issuer,
             ore |-> "another", fools |-> "another"]

SymbolOf == [kei |-> "KEI", gold |-> "GOLD", gem |-> "GEM", ore |-> "ORE", fools |-> "GOLD"]

\* Gem is soulbound, and ore moves only to or from its issuer.
TransferPolicy == [kei |-> "open", gold |-> "open", gem |-> "none",
                   ore |-> "issuer-only", fools |-> "open"]

Uncapped == 99

\* Every player holds one gold, one is on the shelf, and two more can be made.
MaxSupply == [s \in Assets |-> IF s = "gold" THEN Cardinality(Players) + 3 ELSE Uncapped]

VARIABLES
    balance,     \* account -> asset -> units
    circulating, \* asset -> units that exist
    offers,      \* offer -> its terms and its state
    roots,       \* the published roots: [root, by, asset]
    closed,      \* the roots that are closed
    claimed,     \* <<player, root>> that were paid
    call,        \* call -> how far it is
    faults       \* calls that were lost, counted against their bound

chain == <<balance, circulating, offers, roots, closed, claimed>>

NoOffer == [state |-> "none"]

\* A copy from before the price went up.
Old == CHOOSE o \in Offers : TRUE

OldCopy == [state |-> "open", give |-> [asset |-> "gold", raw |-> 1],
            want |-> [asset |-> "kei", raw |-> 1], to |-> None]

ChainInit ==
    /\ balance = [a \in Accounts |-> [s \in Assets |->
                    CASE s = "kei" -> IF a = Issuer THEN 1 ELSE 2
                      [] s = "gold" -> IF a = Issuer THEN 0 ELSE 1
                      [] OTHER -> 0]]
    /\ circulating = [s \in Assets |-> IF s = "gold" THEN Cardinality(Players) + 1 ELSE 0]
    /\ offers = [o \in Offers |-> IF o = Old THEN OldCopy ELSE NoOffer]
    /\ closed = {} /\ claimed = {}

Held(account, asset) == balance[account][asset]

Open(o) == offers[o].state = "open"

Written == {o \in Offers : offers[o] # NoOffer}

\* A call that did not reach the node, or whose answer did not come back.
Fault == faults < MaxFaults /\ faults' = faults + 1

At(pc) == {c \in Calls : call[c].pc = pc}

-----------------------------------------------------------------------------
(***************************************************************************)
(* Blocks.  A step [by, action, asset, raw, to] is one block.              *)
(***************************************************************************)
HasRoom(asset, raw) == circulating[asset] + raw <= MaxSupply[asset]

MayMove(asset, from, to) ==
    \/ TransferPolicy[asset] = "open"
    \/ TransferPolicy[asset] = "issuer-only" /\ IssuerOf[asset] \in {from, to}

\* What the ledger accepts.
Accepted(step) ==
    CASE step.action = "mint" -> /\ IssuerOf[step.asset] = step.by
                                 /\ HasRoom(step.asset, step.raw)
      [] step.action = "burn" -> /\ step.asset # "kei"
                                 /\ Held(step.by, step.asset) >= step.raw
      [] OTHER -> /\ Held(step.by, step.asset) >= step.raw
                  /\ MayMove(step.asset, step.by, step.to)

Moved(asset, raw, from, to) ==
    [a \in Accounts |-> [balance[a] EXCEPT ![asset] =
        @ + (IF a = to THEN raw ELSE 0) - (IF a = from THEN raw ELSE 0)]]

Applied(step) ==
    /\ balance' = CASE step.action = "mint" -> Moved(step.asset, step.raw, None, step.to)
                    [] step.action = "burn" -> Moved(step.asset, step.raw, step.by, None)
                    [] OTHER -> Moved(step.asset, step.raw, step.by, step.to)
    /\ circulating' = [circulating EXCEPT ![step.asset] =
                         CASE step.action = "mint" -> @ + step.raw
                           [] step.action = "burn" -> @ - step.raw
                           [] OTHER -> @]
    /\ UNCHANGED <<offers, roots, closed, claimed>>
=============================================================================
