--------------------------- MODULE RetainedMail ---------------------------
(***************************************************************************)
(* What the lifecycle-mail outbox promises, without leases, clocks or      *)
(* workers: a reserved notification keeps its recipient until it is        *)
(* delivered or expires, is tried a bounded number of times for every      *)
(* budget granted to it, and in the end its recipient is erased for good.  *)
(* Outbox.tla refines this module.                                         *)
(***************************************************************************)
EXTENDS Naturals

CONSTANTS
    Keys,        \* deduplication ids of notifications
    MaxAttempts  \* claims that one budget pays for

VARIABLES
    phase,    \* phase[k]: has k been reserved, and is its recipient kept?
    tries,    \* tries[k]: claims made for k so far
    budgets   \* budgets[k]: budgets granted to k so far

avars == <<phase, tries, budgets>>

AInit ==
    /\ phase = [k \in Keys |-> "unknown"]
    /\ tries = [k \in Keys |-> 0]
    /\ budgets = [k \in Keys |-> 0]

\* A domain event reserves a notification once: a key is never reserved again.
Reserve(k) ==
    /\ phase[k] = "unknown"
    /\ phase' = [phase EXCEPT ![k] = "retained"]
    /\ budgets' = [budgets EXCEPT ![k] = 1]
    /\ UNCHANGED tries

\* A delivery attempt, in one step with the erasures of other notifications
\* that the same scan performs.
TryAndErase(k, erased) ==
    /\ phase[k] = "retained" /\ k \notin erased
    /\ tries[k] < MaxAttempts * budgets[k]
    /\ tries' = [tries EXCEPT ![k] = @ + 1]
    /\ phase' = [j \in Keys |-> IF j \in erased THEN "erased" ELSE phase[j]]
    /\ UNCHANGED budgets

Retained == {k \in Keys : phase[k] = "retained"}

Try == \E erased \in SUBSET Retained : \E k \in Keys : TryAndErase(k, erased)

\* Delivery, disabled delivery or expiry erases recipients.
Erase ==
    \E erased \in SUBSET Retained :
        /\ erased # {}
        /\ phase' = [j \in Keys |-> IF j \in erased THEN "erased" ELSE phase[j]]
        /\ UNCHANGED <<tries, budgets>>

\* An operator grants another budget to a notification still retained.
Grant(k) ==
    /\ phase[k] = "retained"
    /\ budgets' = [budgets EXCEPT ![k] = @ + 1]
    /\ UNCHANGED <<phase, tries>>

ANext ==
    \/ \E k \in Keys : Reserve(k) \/ Grant(k)
    \/ Try
    \/ Erase

SafeSpec == AInit /\ [][ANext]_avars

\* Erasure is not left to chance: whatever is retained is erased in the end.
ErasesEventually == \A k \in Keys : (phase[k] = "retained") ~> (phase[k] = "erased")

AbstractSpec == SafeSpec /\ ErasesEventually
=============================================================================
