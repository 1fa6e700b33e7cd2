--------------------------- MODULE StripeCustomer ---------------------------
(***************************************************************************)
(* The one Stripe customer of a user (BillingService._customer and         *)
(* BillingCustomers in models/billing.py), which every purchase, set-up,   *)
(* portal visit and profile update asks for.                               *)
(*                                                                         *)
(* A row with a fresh idempotency key is reserved, the customer is created *)
(* at Stripe under that key, and its id is bound to the row: two systems   *)
(* without a common transaction.  Stripe forgets a key after a while, so a *)
(* reservation that stays unbound too long is left to an operator.  A tick *)
(* is an hour, and the time-out of the provider calls keeps a request from *)
(* spanning more than one.                                                 *)
(***************************************************************************)
EXTENDS Naturals, FiniteSets

CONSTANTS
    Requests,  \* concurrent requests of the user
    GiveUp,    \* age at which an unbound reservation needs reconciliation
    Prune      \* age at which Stripe forgets an idempotency key

VARIABLES
    row,      \* the reservation: its key (0 for none), its age, the bound customer
    stripe,   \* what Stripe remembers of the key: the customer (0 for none), the age
    made,     \* customers created at Stripe for the user
    gone,     \* the account, and with it the row, is deleted
    pc,       \* pc[r]: the next step of request r
    late      \* requests that began before the last tick

vars == <<row, stripe, made, gone, pc, late>>
-----------------------------------------------------------------------------
NoRow == [key |-> 0, age |-> 0, bound |-> 0]
NoKey == [customer |-> 0, age |-> 0]

Init ==
    /\ row = NoRow /\ stripe = NoKey /\ made = 0 /\ gone = FALSE
    /\ pc = [r \in Requests |-> "idle"] /\ late = {}

Goto(r, step) ==
    /\ pc' = [pc EXCEPT ![r] = step]
    /\ late' = IF step = "idle" THEN late \ {r} ELSE late

\* reserve: an existing row is found here, or by the failed insert.
Begin(r) ==
    /\ pc[r] = "idle" /\ ~gone
    /\ Goto(r, IF row = NoRow THEN "insert" ELSE "check")
    /\ UNCHANGED <<row, stripe, made, gone>>

\* The primary key admits one row per user; a deleted user admits none.
Insert(r) ==
    /\ pc[r] = "insert"
    /\ IF gone
       THEN Goto(r, "idle") /\ UNCHANGED row
       ELSE /\ Goto(r, "check")
            /\ row' = IF row = NoRow THEN [NoRow EXCEPT !.key = 1] ELSE row
    /\ UNCHANGED <<stripe, made, gone>>

\* Defect: an unbound reservation is retried however old it is.
TooOldNever == FALSE

TooOld == row.age >= GiveUp

\* A bound customer is the answer; an old reservation is an error.
Check(r) ==
    /\ pc[r] = "check"
    /\ Goto(r, IF row = NoRow \/ row.bound # 0 \/ TooOld THEN "idle" ELSE "create")
    /\ UNCHANGED <<row, stripe, made, gone>>

\* A key that Stripe remembers returns the customer it created first.
Create(r) ==
    /\ pc[r] = "create"
    /\ IF stripe = NoKey
       THEN made' = made + 1 /\ stripe' = [customer |-> made + 1, age |-> 0]
       ELSE UNCHANGED <<made, stripe>>
    /\ Goto(r, "bind")
    /\ UNCHANGED <<row, gone>>

\* bind: an UPDATE of a row without a customer, whose result every caller reads.
Bind(r) ==
    /\ pc[r] = "bind"
    /\ row' = IF row # NoRow /\ row.bound = 0
              THEN [row EXCEPT !.bound = stripe.customer] ELSE row
    /\ Goto(r, "idle")
    /\ UNCHANGED <<stripe, made, gone>>

\* A provider error, a time-out, a lost answer or a stopped process.
Fail(r) ==
    /\ pc[r] # "idle"
    /\ Goto(r, "idle")
    /\ UNCHANGED <<row, stripe, made, gone>>

\* The user's row takes the reservation along.
DeleteAccount ==
    /\ ~gone
    /\ gone' = TRUE /\ row' = NoRow
    /\ UNCHANGED <<stripe, made, pc, late>>

Tick ==
    /\ late = {}
    /\ row # NoRow /\ row.age <= Prune
    /\ row' = [row EXCEPT !.age = @ + 1]
    /\ stripe' = IF stripe = NoKey \/ stripe.age + 1 >= Prune
                 THEN NoKey ELSE [stripe EXCEPT !.age = @ + 1]
    /\ late' = {r \in Requests : pc[r] # "idle"}
    /\ UNCHANGED <<made, gone, pc>>

Next ==
    \/ \E r \in Requests :
        Begin(r) \/ Insert(r) \/ Check(r) \/ Create(r) \/ Bind(r) \/ Fail(r)
    \/ DeleteAccount
    \/ Tick

Spec == Init /\ [][Next]_vars
-----------------------------------------------------------------------------
\* Properties.

TypeOK ==
    /\ row \in [key : 0..1, age : 0..Prune + 1, bound : 0..made]
    /\ stripe \in [customer : 0..made, age : 0..Prune]
    /\ made \in Nat /\ gone \in BOOLEAN
    /\ pc \in [Requests -> {"idle", "insert", "check", "create", "bind"}]
    /\ late \subseteq Requests

\* _customer: lost answers, retries and competing devices never leave a user with a
\* second customer at Stripe, whose payments no row would know.
OneCustomer == made <= 1
=============================================================================
