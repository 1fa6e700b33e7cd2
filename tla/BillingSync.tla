---------------------------- MODULE BillingSync ----------------------------
(***************************************************************************)
(* How the state of a user's subscription at Stripe reaches the user: the  *)
(* snapshot kept with the customer's row, the inbox and the lifecycle mail *)
(* (BillingService.sync_subscription, BillingNotificationService.receive). *)
(*                                                                         *)
(* Stripe delivers an event until it is acknowledged, and may deliver it   *)
(* late, out of order or twice.  A delivery reads the current state again  *)
(* under the lock of the row, confirms what it would say, and writes the   *)
(* inbox and the outbox in transactions of their own.                      *)
(***************************************************************************)
EXTENDS Integers, Sequences

CONSTANTS
    Workers,    \* concurrent deliveries and page loads
    Plans,      \* what a subscription can be, "free" among them
    Legacy,     \* events that an earlier release recorded under another key
    MaxEvents   \* bound: changes at Stripe

VARIABLES
    plans,    \* the plan after each change at Stripe; change n sends event n
    snap,     \* the change the saved snapshot shows, -1 for none
    gone,     \* the account is deleted, with its rows
    inbox,    \* events the inbox tells of
    rows,     \* events with an outbox row
    pc, job,  \* job[w]: its event (0 for a page load), what it fetched
    acked,    \* events acknowledged
    void      \* history: events found obsolete or without an owner

vars == <<plans, snap, gone, inbox, rows, pc, job, acked, void>>
durable == <<snap, gone, inbox, rows>>
-----------------------------------------------------------------------------
Events == 1..MaxEvents
Now == Len(plans)
PlanOf(n) == IF n = 0 THEN "free" ELSE plans[n]
NoJob == [event |-> 0, seen |-> 0]

\* sync_subscription saves no snapshot before a customer asks for it: one less than any.
Missing == -1
Snap == IF snap = Missing THEN 0 ELSE snap

Init ==
    /\ plans = <<>> /\ snap = Missing /\ gone = FALSE
    /\ inbox = {} /\ rows = {} /\ acked = {} /\ void = {}
    /\ pc = [w \in Workers |-> "idle"] /\ job = [w \in Workers |-> NoJob]

Change ==
    /\ Now < MaxEvents
    /\ \E p \in Plans \ {PlanOf(Now)} : plans' = Append(plans, p)
    /\ UNCHANGED <<durable, pc, job, acked, void>>

Goto(w, step) == pc' = [pc EXCEPT ![w] = step] /\ UNCHANGED <<job, acked, void>>

\* An error status: Stripe delivers the event again.
Stop(w) ==
    /\ pc' = [pc EXCEPT ![w] = "idle"] /\ job' = [job EXCEPT ![w] = NoJob]
    /\ UNCHANGED <<acked, void>>

Ack(w) ==
    /\ pc' = [pc EXCEPT ![w] = "idle"] /\ job' = [job EXCEPT ![w] = NoJob]
    /\ acked' = acked \cup ({job[w].event} \ {0})

Begin(w, step, e) ==
    /\ pc[w] = "idle"
    /\ pc' = [pc EXCEPT ![w] = step] /\ job' = [job EXCEPT ![w] = [NoJob EXCEPT !.event = e]]
    /\ UNCHANGED <<plans, durable, acked, void>>

\* receive, after its signature and mode were checked: the first, a late or a repeated
\* delivery.
Deliver(w) == \E e \in 1..Now : Begin(w, "owner", e)

Owner(w) ==
    /\ pc[w] = "owner"
    /\ IF gone
       THEN Ack(w) /\ void' = void \cup {job[w].event}
       ELSE Goto(w, "lock")
    /\ UNCHANGED <<plans, durable>>

\* subscription: a page without a snapshot asks for the first one.
Load(w) == ~gone /\ snap = Missing /\ Begin(w, "lock", 0)

\* Defect: the row is read without FOR UPDATE.
LockedNever == FALSE

Locked == \E w \in Workers : pc[w] \in {"fetch", "save"}

\* After the sync an event goes on to what it announces.
Lock(w) ==
    /\ pc[w] = "lock" /\ ~Locked
    /\ IF ~gone /\ ~(job[w].event = 0 /\ snap # Missing)
       THEN Goto(w, "fetch")
       ELSE IF job[w].event = 0 THEN Stop(w) ELSE Goto(w, "confirm")
    /\ UNCHANGED <<plans, durable>>

Fetch(w) ==
    /\ pc[w] = "fetch"
    /\ pc' = [pc EXCEPT ![w] = "save"]
    /\ job' = [job EXCEPT ![w].seen = Now]
    /\ UNCHANGED <<plans, durable, acked, void>>

\* The commit that ends the lock; the row may have gone with its user.
Save(w) ==
    /\ pc[w] = "save"
    /\ snap' = IF gone THEN snap ELSE job[w].seen
    /\ IF job[w].event = 0 THEN Stop(w) ELSE Goto(w, "confirm")
    /\ UNCHANGED <<plans, gone, inbox, rows>>

\* confirmed_notification_plan, has_current_subscription: the plan of the event is the
\* current one.
Confirm(w) ==
    /\ pc[w] = "confirm"
    /\ IF PlanOf(Now) = PlanOf(job[w].event)
       THEN Goto(w, "inbox")
       ELSE Ack(w) /\ void' = void \cup {job[w].event}
    /\ UNCHANGED <<plans, durable>>

\* Defect: only a delivery that was not seen before goes on.
OnlyNew(w) == IF job[w].event \in inbox THEN Ack(w) /\ UNCHANGED void ELSE Goto(w, "mail")

\* A known delivery key only skips the signal to open pages.
Onward(w) == Goto(w, "mail")

\* deliver: the unique key, or the foreign key of a user who is gone, refuses a row.
Tell(w) ==
    /\ pc[w] = "inbox"
    /\ IF gone
       THEN Stop(w) /\ UNCHANGED inbox
       ELSE inbox' = inbox \cup {job[w].event} /\ Onward(w)
    /\ UNCHANGED <<plans, snap, gone, rows>>

\* notification_language, then queue_notification, which knows the key of an earlier
\* release; the wake-up that follows cannot fail the delivery.
Queue(w) ==
    /\ pc[w] = "mail"
    /\ rows' = IF job[w].event \in Legacy THEN rows ELSE rows \cup {job[w].event}
    /\ Ack(w)
    /\ UNCHANGED <<plans, snap, gone, inbox, void>>

\* A Stripe or database error, a time-out or a stopped process.
Fail(w) ==
    /\ pc[w] # "idle"
    /\ Stop(w)
    /\ UNCHANGED <<plans, durable>>

\* The rows of the customer and of the inbox go along; the outbox is not the user's.
DeleteAccount ==
    /\ ~gone
    /\ gone' = TRUE /\ snap' = Missing /\ inbox' = {}
    /\ UNCHANGED <<plans, rows, pc, job, acked, void>>

Next ==
    \/ \E w \in Workers :
        \/ Deliver(w) \/ Owner(w) \/ Load(w) \/ Lock(w) \/ Fetch(w) \/ Save(w)
        \/ Confirm(w) \/ Tell(w) \/ Queue(w) \/ Fail(w)
    \/ Change \/ DeleteAccount
-----------------------------------------------------------------------------
\* Properties.

TypeOK ==
    /\ plans \in Seq(Plans) /\ Now <= MaxEvents
    /\ snap \in Missing..Now /\ gone \in BOOLEAN
    /\ inbox \subseteq Events /\ rows \subseteq Events /\ acked \subseteq Events
    /\ \A w \in Workers :
        /\ pc[w] \in {"idle", "owner", "lock", "fetch", "save", "confirm", "inbox", "mail"}
        /\ job[w].event \in 0..Now /\ job[w].seen \in 0..Now

\* billing_notifications.py:71: "duplicate or older payloads cannot roll the DB back to
\* an obsolete plan": whatever order deliveries come in and overlap, the snapshot
\* covers every event that was acknowledged while the user was there.
SnapshotCovers == gone \/ \A e \in acked : e <= Snap

\* receive: "Failure returns non-2xx for redelivery": an acknowledged event has its
\* mail, unless its plan was over or its user gone when it was looked at.
AckedIsRecorded == acked \subseteq rows \cup Legacy \cup void
=============================================================================
