----------------------------- MODULE MCSessions -----------------------------
(***************************************************************************)
(* TLC instance of Sessions: requests are interchangeable, and so are the  *)
(* session ids.                                                            *)
(***************************************************************************)
EXTENDS Sessions, TLC

Interchange == Permutations(Requests) \cup Permutations(Sids)
=============================================================================
