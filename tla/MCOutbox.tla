----------------------------- MODULE MCOutbox -----------------------------
(***************************************************************************)
(* TLC instance of Outbox: one tick stands for the five minutes of a lease *)
(* and of the hard time limit.                                             *)
(***************************************************************************)
EXTENDS Outbox, TLC

\* min(30, 2^n) minutes is at most two claims' leases; a tick keeps the order.
MCBackoff == [n \in 0..MaxAttempts |-> 1]

\* Rows and workers are interchangeable; used by the safety run only.
Interchange == Permutations(Keys) \cup Permutations(Workers)
=============================================================================
