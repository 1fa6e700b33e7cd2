-------------------------- MODULE MCOneTimeTokens --------------------------
(***************************************************************************)
(* TLC instance of OneTimeTokens: requests are interchangeable.            *)
(***************************************************************************)
EXTENDS OneTimeTokens, TLC

Interchange == Permutations(Requests)
=============================================================================
