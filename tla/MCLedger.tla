------------------------------ MODULE MCLedger ------------------------------
(***************************************************************************)
(* Instances of the ledger for TLC.  They start from a ledger on which     *)
(* every token has been issued and players hold some (what a few issue,    *)
(* mint and asset_receive blocks leave behind), so that short runs reach   *)
(* trades.  MCLedgerProcess starts from the genesis blocks.                *)
(***************************************************************************)
EXTENDS LedgerProperties

CONSTANTS issuer, alice, bob, gold, gem

\* Genesis balances, and the bound on the blocks each account signs.
KeiFor(i, a, b) ==
    [x \in Accounts |-> IF x = issuer THEN i ELSE IF x = alice THEN a ELSE b]

TradeGenesis == KeiFor(3, 0, 1)
TradeHeight == KeiFor(1, 2, 1)

NoLeaves == [r \in Roots |-> {}]

\* What each player holds at the start: one gold.
OneEach(a, t) == IF t = <<issuer, gold>> /\ a # issuer THEN 1 ELSE 0

\* Every token issued, and held as `units` says.
InitIssued(units(_, _)) ==
    /\ blocks = {}
    /\ frontier = [a \in Accounts |-> Origin(a)]
    /\ issuedByAccount = [a \in Accounts |->
                            IF a \in Issuers THEN Cardinality(Symbols) ELSE 0]
    /\ balance = [a \in Accounts |-> Genesis[a] - BurnedBy(a)]
    /\ transfer \in [Token -> Policies]
    /\ maxSupply \in [Token -> MaxSupplies]
    /\ holdings = [a \in Accounts |-> [t \in Token |-> units(a, t)]]
    /\ circulating =
         [t \in Token |-> SumFunction([a \in Accounts |-> units(a, t)])]
    /\ holdingsByAccount =
         [a \in Accounts |-> {t \in Token : units(a, t) > 0}]
    /\ holders = [t \in Token |-> [a \in Accounts |-> units(a, t)]]
    /\ holdersByAsset =
         [t \in Token |-> {a \in Accounts : units(a, t) > 0}]
    /\ receivables = [h \in Hash |-> None]
    /\ commits = [r \in Roots |-> None]
    /\ claimed = {}
    /\ locks = [h \in Hash |-> None]

SpecOneEach == InitIssued(OneEach) /\ [][Next]_vars
=============================================================================
