-------------------------------- MODULE TopUps --------------------------------
(***************************************************************************)
(* acceptTopUps of packages/kei/src/kei.ts on an issuer's server: Kei that *)
(* comes in is minted for at a rate, and sent back when the mint fails.    *)
(* The handlers of several payments run side by side, beside a game that   *)
(* spends and mints on its own.                                            *)
(*                                                                         *)
(* Kei is paid once: its receipt is in KeiClient.  A mint is a block and   *)
(* then a read of the token (mint, packages/tokens/src/tokens.ts), and     *)
(* either may fail over HTTP.  The rate is [digits, decimals].             *)
(***************************************************************************)
EXTENDS Integers, FiniteSets, Decimals

CONSTANTS
    None,
    Payments,                        \* payment -> raw Kei it brings
    Rate, KeiDecimals, TokenDecimals,
    Minimum,                         \* raw Kei
    MaxSupply,                       \* raw units of the token
    Opening,                         \* raw Kei the issuer has
    Drain,                           \* raw Kei the game spends, and units it mints
    MaxFaults                        \* a bound of a run

Paid == DOMAIN Payments

VARIABLES
    kei, circulating,      \* the issuer's Kei, and the token's units
    refunds,               \* the option: is Kei sent back?
    listening,             \* the handler has not been taken off
    payment,               \* where the handler of each payment is
    drained,               \* the game has spent, and has minted
    faults

chain == <<kei, circulating>>
vars == <<chain, refunds, listening, payment, drained, faults>>

\* History: minted and refunded, what landed; lost, what answer was lost.
Init ==
    /\ kei = Opening /\ circulating = 0
    /\ refunds \in BOOLEAN
    /\ listening = TRUE
    /\ payment = [p \in Paid |-> [pc |-> "coming", minted |-> 0, refunded |-> FALSE,
                                  lost |-> {}, told |-> None]]
    /\ drained = {}
    /\ faults = 0

-----------------------------------------------------------------------------
\* Mutant: rounded to the nearest unit.
MultiplyRound(raw) ==
    LET numerator == raw * Rate.digits
        delta == KeiDecimals + Rate.decimals - TokenDecimals
    IN IF delta <= 0 THEN numerator * Tens[-delta]
                     ELSE (numerator + Tens[delta] \div 2) \div Tens[delta]

\* multiplyFloor(): in integers, rounded down to what the token can represent.
MultiplyFloor(raw) ==
    LET numerator == raw * Rate.digits
        delta == KeiDecimals + Rate.decimals - TokenDecimals
    IN IF delta <= 0 THEN numerator * Tens[-delta] ELSE numerator \div Tens[delta]

Units(p) == MultiplyFloor(Payments[p])

Goes(p, pc) == payment' = [payment EXCEPT ![p].pc = pc]

Fault == faults < MaxFaults /\ faults' = faults + 1

\* The payment is received, and announced to who listens.  Too little, and
\* what buys less than one unit, is kept.
Receive(p) ==
    /\ payment[p].pc = "coming"
    /\ kei' = kei + Payments[p]
    /\ Goes(p, IF listening /\ Payments[p] >= Minimum /\ Units(p) > 0
               THEN "minting" ELSE "kept")
    /\ UNCHANGED <<circulating, refunds, listening, drained, faults>>

HasRoom(units) == circulating + units <= MaxSupply

\* The catch of the handler: it sends back, or leaves it to be settled by hand.
Caught(p) == IF refunds THEN "refunding" ELSE "telling"

Mint(p) ==
    /\ payment[p].pc = "minting"
    /\ IF HasRoom(Units(p))
       THEN /\ circulating' = circulating + Units(p)
            /\ payment' = [payment EXCEPT ![p].pc = "reading", ![p].minted = Units(p)]
       ELSE /\ Goes(p, Caught(p))
            /\ UNCHANGED circulating
    /\ UNCHANGED <<kei, refunds, listening, drained, faults>>

\* The block's answer is lost, and the block with it or not.
MintLost(p) ==
    /\ payment[p].pc = "minting" /\ Fault
    /\ \/ /\ HasRoom(Units(p))
          /\ circulating' = circulating + Units(p)
          /\ payment' = [payment EXCEPT ![p].pc = Caught(p), ![p].minted = Units(p),
                                        ![p].lost = @ \cup {"mint"}]
       \/ /\ payment' = [payment EXCEPT ![p].pc = Caught(p)]
          /\ UNCHANGED circulating
    /\ UNCHANGED <<kei, refunds, listening, drained>>

\* refresh(): a mint that has landed fails with the read after it.
Refresh(p) ==
    /\ payment[p].pc = "reading"
    /\ payment' = [payment EXCEPT ![p].pc = "done", ![p].told = "settled"]
    /\ UNCHANGED <<kei, circulating, refunds, listening, drained, faults>>

RefreshFails(p) ==
    /\ payment[p].pc = "reading" /\ Fault
    /\ payment' = [payment EXCEPT ![p].pc = Caught(p), ![p].lost = @ \cup {"mint"}]
    /\ UNCHANGED <<kei, circulating, refunds, listening, drained>>

Told(p, refund) == payment' = [payment EXCEPT ![p].pc = "done", ![p].told = refund]

Refund(p) ==
    /\ payment[p].pc = "refunding"
    /\ IF kei >= Payments[p]
       THEN /\ kei' = kei - Payments[p]
            /\ payment' = [payment EXCEPT ![p].pc = "done", ![p].told = "refunded",
                                          ![p].refunded = TRUE]
       ELSE /\ Told(p, "refund failed")
            /\ UNCHANGED kei
    /\ UNCHANGED <<circulating, refunds, listening, drained, faults>>

RefundLost(p) ==
    /\ payment[p].pc = "refunding" /\ Fault
    /\ \/ /\ kei >= Payments[p]
          /\ kei' = kei - Payments[p]
          /\ payment' = [payment EXCEPT ![p].pc = "done", ![p].told = "refund failed",
                             ![p].refunded = TRUE, ![p].lost = @ \cup {"refund"}]
       \/ /\ Told(p, "refund failed")
          /\ UNCHANGED kei
    /\ UNCHANGED <<circulating, refunds, listening, drained>>

\* Without refunds the failure is told as it is.
Tell(p) ==
    /\ payment[p].pc = "telling"
    /\ Told(p, "not returned")
    /\ UNCHANGED <<kei, circulating, refunds, listening, drained, faults>>

\* The subscription is cancelled; handlers that run go on.
Unsubscribe ==
    /\ listening
    /\ listening' = FALSE
    /\ UNCHANGED <<kei, circulating, refunds, payment, drained, faults>>

\* The rest of the game.
Spend ==
    /\ "kei" \notin drained /\ kei >= Drain
    /\ kei' = kei - Drain
    /\ drained' = drained \cup {"kei"}
    /\ UNCHANGED <<circulating, refunds, listening, payment, faults>>

MintElsewhere ==
    /\ "units" \notin drained /\ HasRoom(Drain)
    /\ circulating' = circulating + Drain
    /\ drained' = drained \cup {"units"}
    /\ UNCHANGED <<kei, refunds, listening, payment, faults>>

Next ==
    \/ \E p \in Paid : \/ Receive(p) \/ Mint(p) \/ MintLost(p) \/ Refresh(p)
                       \/ RefreshFails(p) \/ Refund(p) \/ RefundLost(p) \/ Tell(p)
    \/ Unsubscribe \/ Spend \/ MintElsewhere

Spec == Init /\ [][Next]_vars

-----------------------------------------------------------------------------
(* Properties *)

TypeOK ==
    /\ kei \in Nat /\ circulating \in 0 .. MaxSupply
    /\ refunds \in BOOLEAN /\ listening \in BOOLEAN
    /\ \A p \in Paid :
         /\ payment[p].pc \in {"coming", "kept", "minting", "reading", "refunding",
                               "telling", "done"}
         /\ payment[p].told \in {None, "settled", "refunded", "refund failed", "not returned"}
    /\ drained \subseteq {"kei", "units"}
    /\ faults \in 0 .. MaxFaults

\* A payment that was accepted is minted for, or sent back, or the game is told
\* that neither has happened; and both happen only to one whose mint had landed
\* although its call failed (the catch of acceptTopUps).
NothingKeptForNothing ==
    \A p \in Paid : payment[p].pc = "done" =>
        /\ \/ payment[p].minted > 0 \/ payment[p].refunded
           \/ payment[p].told \in {"refund failed", "not returned"}
        /\ payment[p].minted > 0 /\ payment[p].refunded => "mint" \in payment[p].lost

\* What the game is told of a failed settlement is what became of the Kei, but
\* for an answer that was lost (TopUpFailure).
ToldOfRefunds ==
    \A p \in Paid :
        /\ payment[p].told = "settled" => payment[p].minted > 0 /\ ~payment[p].refunded
        /\ payment[p].told = "refunded" => payment[p].refunded
        /\ payment[p].told \in {"refund failed", "not returned"} /\ payment[p].refunded
             => "refund" \in payment[p].lost

\* What is minted is worth no more than what was paid for it, and less than one
\* unit more would be worth more (multiplyFloor).
NeverRoundedUp ==
    \A p \in Paid :
        LET worth == Payments[p] * Rate.digits * Tens[TokenDecimals]
            unit == Tens[KeiDecimals + Rate.decimals]
        IN payment[p].minted > 0 =>
             payment[p].minted * unit <= worth /\ worth < (payment[p].minted + 1) * unit

\* What a player who pays may rely on, in one.
TopUpsAreFair == TypeOK /\ NothingKeptForNothing /\ ToldOfRefunds /\ NeverRoundedUp
=============================================================================
