----------------------------- MODULE MCAccounts -----------------------------
(***************************************************************************)
(* Instances of Accounts for TLC.  Clients and addresses are               *)
(* interchangeable; no property tells them apart.                          *)
(***************************************************************************)
EXTENDS Accounts, TLC

Symmetry == Permutations(Clients) \cup Permutations(Emails)
=============================================================================
