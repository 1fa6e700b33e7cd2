------------------------------ MODULE MCBilling ------------------------------
(***************************************************************************)
(* Billing for TLC: the requests (devices, forms, workers) are             *)
(* interchangeable.                                                        *)
(***************************************************************************)
EXTENDS Billing, TLC

Interchange == Permutations(Requests)
=============================================================================
