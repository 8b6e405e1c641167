------------------------------- MODULE Decimals -------------------------------
(***************************************************************************)
(* Powers of ten, by which amounts of Kei and of tokens are scaled         *)
(* (10n ** places, all over the packages), in a form that can be proved    *)
(* about.                                                                  *)
(***************************************************************************)
EXTENDS Integers

Tens[k \in Nat] == IF k = 0 THEN 1 ELSE 10 * Tens[k - 1]
=============================================================================
