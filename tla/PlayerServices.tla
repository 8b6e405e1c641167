---------------------------- MODULE PlayerServices ----------------------------
(***************************************************************************)
(* What is done for a player beside the game itself, for any number of     *)
(* payments and scans: the top-ups a game's server accepts, and the        *)
(* inventories a client scans.  Neither knows of the other; they meet in   *)
(* the player who pays and looks.                                          *)
(***************************************************************************)
EXTENDS Integers, FiniteSets, Sequences

CONSTANTS
    Untold,          \* the game has been told nothing
    Payments, Rate, KeiDecimals, TokenDecimals, Minimum, TokenCap, Opening, Drain,
    MaxMishaps,      \* a bound of a run
    Things, Lists, Scans, CacheLimit, Concurrency,
    MaxFailures      \* a bound of a run

\* Amounts are bigints that are not negative (acceptTopUps), and a scan asks for
\* an asset once, in some order (the Set of resolve).
ASSUME ServicesAssumption ==
    /\ \A p \in DOMAIN Payments : Payments[p] \in Nat
    /\ Rate \in [digits : Nat, decimals : Nat]
    /\ KeiDecimals \in Nat /\ TokenDecimals \in Nat /\ Minimum \in Nat
    /\ TokenCap \in Nat /\ Opening \in Nat /\ Drain \in Nat
    /\ MaxMishaps \in Nat /\ MaxFailures \in Nat
    /\ Untold \notin {"settled", "refunded", "refund failed", "not returned"}
    /\ IsFiniteSet(Things)
    /\ \A list \in Lists :
         /\ list \in Seq(Things)
         /\ \A i, j \in DOMAIN list : list[i] = list[j] => i = j
    /\ CacheLimit \in Nat \ {0} /\ Concurrency \in Nat \ {0}

VARIABLES
    kei, sold, refunds, listening, payment, drained, mishaps,
    remembered, asking, waiting, held, scan, absent, failures

topups == <<kei, sold, refunds, listening, payment, drained, mishaps>>
inventory == <<remembered, asking, waiting, held, scan, absent, failures>>

ToppingUp == INSTANCE TopUps WITH
    None <- Untold, MaxSupply <- TokenCap, MaxFaults <- MaxMishaps,
    circulating <- sold, faults <- mishaps

Inventory == INSTANCE AssetCache WITH
    Assets <- Things, Limit <- CacheLimit, MaxFaults <- MaxFailures,
    known <- remembered, faults <- failures

ServicesInit == ToppingUp!Init /\ Inventory!Init

ServicesNext ==
    \/ ToppingUp!Next /\ UNCHANGED inventory
    \/ Inventory!Next /\ UNCHANGED topups

ServicesSpec == ServicesInit /\ [][ServicesNext]_<<topups, inventory>>

\* What a player pays for a top-up is minted for or returned, and told truly;
\* and what he holds is listed, whoever scans beside him.
PlayersServed == ToppingUp!TopUpsAreFair /\ Inventory!ScansAreServed
=============================================================================
