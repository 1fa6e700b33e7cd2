----------------------------- MODULE Reconcile -----------------------------
(***************************************************************************)
(* The task that refreshes the subscription snapshots every five minutes   *)
(* (reconcile_subscriptions), for the webhooks that never came: a bounded  *)
(* number of customers a time, those whose snapshot is oldest first.       *)
(***************************************************************************)
EXTENDS Naturals, Sequences, SequencesExt

CONSTANTS
    Customers,  \* customers bound to a user
    Broken,     \* those whose sync fails for good
    Limit,      \* customers a run takes
    MaxVersion  \* bound: changes at Stripe

VARIABLES
    version,  \* version[c]: the state of c's subscription at Stripe
    snap,     \* snap[c]: the version its snapshot shows
    synced,   \* the order of the last syncs, oldest first; a customer never synced leads
    batch     \* the customers the task has still to sync

vars == <<version, snap, synced, batch>>
-----------------------------------------------------------------------------
Init ==
    /\ version = [c \in Customers |-> 0] /\ snap = [c \in Customers |-> 0]
    /\ synced = SetToSeq(Customers)
    /\ batch = <<>>

Change ==
    \E c \in Customers :
        /\ version[c] < MaxVersion
        /\ version' = [version EXCEPT ![c] = @ + 1]
        /\ UNCHANGED <<snap, synced, batch>>

\* Defect: the order is reversed.
Newest == Reverse(synced)

\* ORDER BY subscription_synced_at NULLS FIRST
Oldest == synced

\* Beat: five minutes after the last run every snapshot is due.
Start ==
    /\ batch = <<>>
    /\ batch' = SubSeq(Oldest, 1, IF Len(Oldest) < Limit THEN Len(Oldest) ELSE Limit)
    /\ UNCHANGED <<version, snap, synced>>

\* One customer, under its lock; an exception goes to the log, and nothing is saved.
Sync(c) ==
    /\ batch # <<>> /\ c = Head(batch)
    /\ batch' = Tail(batch)
    /\ IF c \in Broken
       THEN UNCHANGED <<snap, synced>>
       ELSE /\ snap' = [snap EXCEPT ![c] = version[c]]
            /\ \E i \in 1..Len(synced) :
                  synced[i] = c /\ synced' = Append(RemoveAt(synced, i), c)
    /\ UNCHANGED version

\* The worker stops; Beat starts the task again.
Crash ==
    /\ batch # <<>>
    /\ batch' = <<>>
    /\ UNCHANGED <<version, snap, synced>>

Next == Change \/ Start \/ (\E c \in Customers : Sync(c)) \/ Crash

\* Beat and a worker keep running, and the worker does not stop each time it has come to
\* one and the same customer.
Fairness == WF_vars(Start) /\ \A c \in Customers : SF_vars(Sync(c))
-----------------------------------------------------------------------------
\* Properties.

TypeOK ==
    /\ version \in [Customers -> 0..MaxVersion] /\ snap \in [Customers -> 0..MaxVersion]
    /\ ToSet(synced) = Customers /\ Len(batch) <= Limit

\* billing_reconciliation.py: "Bounded server-side reconciliation recovers missed webhook
\* deliveries": once Stripe is quiet, every customer whose sync works is up to date for
\* good, though some keep failing and there are more than a run takes.
Recovers == \A c \in Customers \ Broken : <>[](snap[c] = version[c])
=============================================================================
