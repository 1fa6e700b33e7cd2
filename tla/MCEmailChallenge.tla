------------------------- MODULE MCEmailChallenge -------------------------
(***************************************************************************)
(* TLC instance of EmailChallenge: requests are interchangeable.           *)
(***************************************************************************)
EXTENDS EmailChallenge, TLC

Interchange == Permutations(Requests)
=============================================================================
