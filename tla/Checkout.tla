------------------------------ MODULE Checkout ------------------------------
(***************************************************************************)
(* Opening a subscription checkout (BillingService.create_checkout,        *)
(* BillingCheckouts.reserve) for a user with a bound Stripe customer.      *)
(*                                                                         *)
(* One row per user reserves one attempt: its key, price and expiry are    *)
(* those of the Stripe session, so every device that asks meanwhile gets   *)
(* the same session.  A row that has expired is replaced; the list of      *)
(* subscriptions is read after that.  Stripe and the application share one *)
(* clock here.                                                             *)
(***************************************************************************)
EXTENDS Naturals

CONSTANTS
    Requests,  \* concurrent requests: devices, tabs, retries
    Prices,    \* the prices on offer
    Life,      \* how long a reservation lasts
    MinLeft,   \* what must be left of it to open its session
    MaxNow,    \* bound: the clock
    MaxKeys    \* bound: reservations ever made

VARIABLES
    now,
    row,      \* the reservation [key, price, expires], key 0 when there is none
    session,  \* session[k]: the Stripe session of key k [price, expires, status]
    subs,     \* the subscriptions that count, each named by the session that made it
    pc, job,  \* job[r]: its price, the time it began, the row it read
    keys      \* keys drawn so far

vars == <<now, row, session, subs, pc, job, keys>>
-----------------------------------------------------------------------------
Keys == 1..MaxKeys
NoPrice == "none"
NoRow == [key |-> 0, price |-> NoPrice, expires |-> 0]
NoSession == [price |-> NoPrice, expires |-> 0, status |-> "none"]
NoJob == [price |-> NoPrice, at |-> 0, row |-> NoRow]

Init ==
    /\ now = 0 /\ row = NoRow /\ subs = {} /\ keys = 0
    /\ session = [k \in Keys |-> NoSession]
    /\ pc = [r \in Requests |-> "idle"] /\ job = [r \in Requests |-> NoJob]

Goto(r, step) == pc' = [pc EXCEPT ![r] = step] /\ UNCHANGED job

Done(r) ==
    /\ pc' = [pc EXCEPT ![r] = "idle"]
    /\ job' = [job EXCEPT ![r] = NoJob]

\* The price was checked and the customer found; reserve takes the time once.
Begin(r) ==
    /\ pc[r] = "idle" /\ keys < MaxKeys
    /\ \E p \in Prices : job' = [job EXCEPT ![r] = [NoJob EXCEPT !.price = p, !.at = now]]
    /\ pc' = [pc EXCEPT ![r] = "update"]
    /\ UNCHANGED <<now, row, session, subs, keys>>

Fresh(r) == [key |-> keys + 1, price |-> job[r].price, expires |-> job[r].at + Life]

\* Defect: a row is replaced as soon as too little of it is left.
LapsedEarly(r) == row.key # 0 /\ row.expires < job[r].at + MinLeft

Lapsed(r) == row.key # 0 /\ row.expires <= job[r].at

\* UPDATE ... WHERE expires_at <= now.
Renew(r) ==
    /\ pc[r] = "update"
    /\ IF Lapsed(r) /\ keys < MaxKeys
       THEN row' = Fresh(r) /\ keys' = keys + 1
       ELSE UNCHANGED <<row, keys>>
    /\ Goto(r, "read")
    /\ UNCHANGED <<now, session, subs>>

\* The row that is there, or one inserted; of two inserts one finds the other's.
Read(r) ==
    /\ pc[r] = "read"
    /\ row.key = 0 => keys < MaxKeys
    /\ row' = IF row.key = 0 THEN Fresh(r) ELSE row
    /\ keys' = IF row.key = 0 THEN keys + 1 ELSE keys
    /\ job' = [job EXCEPT ![r].row = row']
    /\ pc' = [pc EXCEPT ![r] = "list"]
    /\ UNCHANGED <<now, session, subs>>

\* The subscriptions at Stripe, then the row's own terms.
Mine(r) == job[r].row.price = job[r].price /\ job[r].row.expires - now >= MinLeft

List(r) ==
    /\ pc[r] = "list"
    /\ IF subs = {} /\ job[r].row.expires >= now /\ Mine(r)
       THEN Goto(r, "create") ELSE Done(r)
    /\ UNCHANGED <<now, row, session, subs, keys>>

\* The key returns the session it made first; Stripe refuses a session that would
\* already have expired.
Create(r) ==
    LET k == job[r].row.key IN
    /\ pc[r] = "create"
    /\ IF session[k] = NoSession /\ job[r].row.expires > now
       THEN session' = [session EXCEPT ![k] =
                [price |-> job[r].price, expires |-> job[r].row.expires, status |-> "open"]]
       ELSE UNCHANGED session
    /\ Done(r)
    /\ UNCHANGED <<now, row, subs, keys>>

\* A provider error, a time-out, a lost answer or a stopped process.
Fail(r) ==
    /\ pc[r] # "idle"
    /\ Done(r)
    /\ UNCHANGED <<now, row, session, subs, keys>>

\* The user pays an open session, on any device that has its address.
Pay ==
    \E k \in Keys :
        /\ session[k].status = "open" /\ session[k].expires > now
        /\ session' = [session EXCEPT ![k].status = "complete"]
        /\ subs' = subs \cup {k}
        /\ UNCHANGED <<now, row, pc, job, keys>>

\* A subscription ends.
End ==
    \E k \in subs :
        /\ subs' = subs \ {k}
        /\ UNCHANGED <<now, row, session, pc, job, keys>>

Tick ==
    /\ now < MaxNow
    /\ now' = now + 1
    /\ UNCHANGED <<row, session, subs, pc, job, keys>>

Next ==
    \/ \E r \in Requests :
        Begin(r) \/ Renew(r) \/ Read(r) \/ List(r) \/ Create(r) \/ Fail(r)
    \/ Pay \/ End \/ Tick
-----------------------------------------------------------------------------
\* Properties.

TypeOK ==
    /\ now \in 0..MaxNow /\ keys \in 0..MaxKeys /\ subs \subseteq Keys
    /\ row.key \in 0..keys /\ row.expires \in 0..MaxNow + Life
    /\ \A k \in Keys : session[k].status \in {"none", "open", "complete"}
    /\ \A r \in Requests : pc[r] \in {"idle", "update", "read", "list", "create"}
    /\ \A r \in Requests : pc[r] \in {"list", "create"} => job[r].row.key \in 1..keys

\* create_checkout: however many devices open checkouts, retry and pay, and whenever
\* reservations lapse in between, a user never holds two subscriptions.
OneSubscription == \A a, b \in subs : a = b
=============================================================================
