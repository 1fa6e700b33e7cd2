----------------------------- MODULE LoginLimit -----------------------------
(***************************************************************************)
(* The failed logins of one client address (services/auth.py): a counter   *)
(* in Redis that is checked before the password is, incremented when it is *)
(* wrong, and deleted by a login.  It gets its expiry by a second command. *)
(***************************************************************************)
EXTENDS Naturals, FiniteSets

CONSTANTS
    Requests,  \* concurrent logins from the address
    Limit      \* LOGIN_FAILED_LIMIT

VARIABLES
    fails,     \* the counter, 0 when there is no key
    expiring,  \* the key has an expiry
    pc,        \* pc[r]: "password" once r has passed the limit, "expire" after its INCR
    cut        \* history: a request stopped before it gave this counter its expiry

vars == <<fails, expiring, pc, cut>>
-----------------------------------------------------------------------------
Init == fails = 0 /\ expiring = FALSE /\ pc = [r \in Requests |-> "idle"] /\ cut = FALSE

Goto(r, step) == pc' = [pc EXCEPT ![r] = step]

Cleared == fails' = 0 /\ expiring' = FALSE /\ cut' = FALSE

Open == fails < Limit

\* _check_login_limit; at the limit the login ends with ACCOUNT_LOCKED.
Check(r) ==
    /\ pc[r] = "idle" /\ Open
    /\ Goto(r, "password")
    /\ UNCHANGED <<fails, expiring, cut>>

\* Defect: the lock gets the expiry, not the counter.
LocksNow(count) == count = Limit

First(count) == count = 1

\* INCR
Fail(r) ==
    /\ pc[r] = "password"
    /\ fails' = fails + 1
    /\ Goto(r, IF First(fails + 1) THEN "expire" ELSE "idle")
    /\ UNCHANGED <<expiring, cut>>

\* EXPIRE, which does nothing when the key is gone.
SetExpiry(r) ==
    /\ pc[r] = "expire"
    /\ expiring' = (fails > 0)
    /\ Goto(r, "idle")
    /\ UNCHANGED <<fails, cut>>

\* The right password of an address that is not verified yet: EMAIL_NOT_VERIFIED.
Refuse(r) ==
    /\ pc[r] = "password"
    /\ Goto(r, "idle")
    /\ UNCHANGED <<fails, expiring, cut>>

\* DEL
Succeed(r) == pc[r] = "password" /\ Cleared /\ Goto(r, "idle")

Expire == expiring /\ Cleared /\ UNCHANGED pc

\* The process stops, or Redis does not answer.
Stop(r) ==
    /\ pc[r] # "idle"
    /\ cut' = (cut \/ (pc[r] = "expire" /\ fails > 0))
    /\ Goto(r, "idle")
    /\ UNCHANGED <<fails, expiring>>

Next ==
    \/ \E r \in Requests :
        Check(r) \/ Fail(r) \/ SetExpiry(r) \/ Refuse(r) \/ Succeed(r) \/ Stop(r)
    \/ Expire

Spec == Init /\ [][Next]_vars
-----------------------------------------------------------------------------
\* Properties.

TypeOK ==
    /\ fails \in Nat /\ expiring \in BOOLEAN /\ cut \in BOOLEAN
    /\ pc \in [Requests -> {"idle", "password", "expire"}]

\* Logins that pass the check together all get their guess: wrong passwords between two
\* resets of the counter stay below the limit and one for each of them.
GuessesBounded == fails <= Limit - 1 + Cardinality(Requests)

\* A lock ends: a counter without an expiry is about to get it, unless a request stopped
\* between the two commands.  (Then the address stays locked until someone deletes the key.)
LockEnds == fails > 0 /\ ~expiring => cut \/ \E r \in Requests : pc[r] = "expire"

\* The address is guarded: neither guessed from without end nor locked out for ever.
AddressGuarded == GuessesBounded /\ LockEnds
=============================================================================
