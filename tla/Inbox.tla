------------------------------- MODULE Inbox -------------------------------
(***************************************************************************)
(* One user's notification inbox and the page that shows it                *)
(* (models/inbox.py, services/inbox.py, services/realtime.py,              *)
(* core/realtime).  Notifications are inserted by other transactions, with *)
(* ids that are drawn before their commit; every change is followed by an  *)
(* event that may be lost; a page has the events of the connection that is *)
(* open, and fetches the list and then the summary by two transactions.    *)
(***************************************************************************)
EXTENDS Naturals, FiniteSets, FiniteSetsExt

CONSTANTS
    Producers,  \* concurrent transactions that add a notification
    DeliveryKeys, \* keys of notifications that may be delivered again
    MaxId       \* bound: ids drawn

VARIABLES
    rows,     \* rows[i]: what has become of id i, and its delivery key if it has one
    pc, job,  \* of the producers, and of the page's own change ("page")
    open,     \* the server has subscribed for the page
    event,    \* an event waits for the page
    fetch,    \* the page's fetch: "none", "list" or "summary" is next
    seen,     \* the rows the page has listed, as they were
    through,  \* the latest id of the summary it has
    missed    \* history: a change since the last fetch began whose event was lost

vars == <<rows, pc, job, open, event, fetch, seen, through, missed>>
page == <<fetch, seen, through>>
-----------------------------------------------------------------------------
Ids == 1..MaxId
Actors == Producers \cup {"page"}
Unused == [phase |-> "unused", key |-> {}]

Phase(i) == rows[i].phase
Drawn == {i \in Ids : Phase(i) # "unused"}
Visible == {i \in Ids : Phase(i) \in {"unread", "read"}}
Unread == {i \in Ids : Phase(i) = "unread"}

Init ==
    /\ rows = [i \in Ids |-> Unused]
    /\ pc = [a \in Actors |-> "idle"] /\ job = [p \in Producers |-> 0]
    /\ open = FALSE /\ event = FALSE
    /\ fetch = "none" /\ seen = [i \in {} |-> "read"] /\ through = 0
    /\ missed = FALSE

Goto(a, step) == pc' = [pc EXCEPT ![a] = step]

Put(is, phase) == [i \in Ids |-> IF i \in is THEN [rows[i] EXCEPT !.phase = phase] ELSE rows[i]]
-----------------------------------------------------------------------------
\* Producers: deliver, with a delivery key, and add_inbox_notification, without one.

\* Defect: a notification the user deleted has given its key back.
TakenWhileVisible(k) == \E i \in Ids : k = rows[i].key /\ Phase(i) \in {"pending", "unread", "read"}

Taken(k) == \E i \in Ids : k = rows[i].key /\ Phase(i) # "void"

\* The id is drawn; an insert whose key is taken fails (after the other's commit).
Insert(p) ==
    \E k \in {{}} \cup {{d} : d \in DeliveryKeys}, i \in Ids :
        /\ pc[p] = "idle" /\ i = Cardinality(Drawn) + 1
        /\ k = {} \/ ~Taken(k)
        /\ rows' = [rows EXCEPT ![i] = [phase |-> "pending", key |-> k]]
        /\ job' = [job EXCEPT ![p] = i]
        /\ Goto(p, "commit")
        /\ UNCHANGED <<open, event, page, missed>>

Commit(p) ==
    /\ pc[p] = "commit"
    /\ rows' = Put({job[p]}, "unread")
    /\ Goto(p, "publish")
    /\ UNCHANGED <<job, open, event, page, missed>>

Rollback(p) ==
    /\ pc[p] = "commit"
    /\ rows' = Put({job[p]}, "void")
    /\ Goto(p, "idle")
    /\ UNCHANGED <<job, open, event, page, missed>>
-----------------------------------------------------------------------------
\* The page: read, read_all and update_selected, each one statement.

Change(phase, is) ==
    /\ pc["page"] = "idle"
    /\ rows' = Put(is, phase)
    /\ Goto("page", "publish")
    /\ UNCHANGED <<job, open, event, page, missed>>

Read == \E i \in DOMAIN seen : Change("read", {i} \cap Unread)

Delete == \E i \in DOMAIN seen : Change("deleted", {i} \cap Visible)

\* read_all up to the id of the summary
Marked == {i \in Unread : i <= through}

ReadAll == Change("read", Marked)
-----------------------------------------------------------------------------
\* Realtime: publish_user_notification after the commit, stream_user_events.

Publish(a) ==
    /\ pc[a] = "publish"
    /\ event' = (event \/ open)
    /\ Goto(a, "idle")
    /\ UNCHANGED <<rows, job, open, page, missed>>

\* Redis fails or takes too long, or the process stops after the commit.
Lose(a) ==
    /\ pc[a] = "publish"
    /\ missed' = TRUE
    /\ Goto(a, "idle")
    /\ UNCHANGED <<rows, job, open, event, page>>

\* Defect: the page is told it is connected before the server has subscribed.
ConnectedFirst ==
    \/ ~open /\ fetch = "none" /\ fetch' = "list" /\ missed' = FALSE /\ UNCHANGED open
    \/ ~open /\ fetch = "summary" /\ open' = TRUE /\ UNCHANGED <<fetch, missed>>

\* subscribe, then the connected event, at which the page fetches.
SubscribedFirst == ~open /\ open' = TRUE /\ fetch' = "list" /\ missed' = FALSE

Connect ==
    /\ SubscribedFirst
    /\ UNCHANGED <<rows, pc, job, event, seen, through>>

\* Events are not kept for the next connection.
Disconnect ==
    /\ open
    /\ open' = FALSE /\ event' = FALSE
    /\ UNCHANGED <<rows, pc, job, page, missed>>

\* An event, or the focus, makes the page fetch (again).
Refetch ==
    /\ event \/ fetch = "none"
    /\ event' = FALSE /\ fetch' = "list" /\ missed' = FALSE
    /\ UNCHANGED <<rows, pc, job, open, seen, through>>

\* list: the rows by one transaction ...
List ==
    /\ fetch = "list"
    /\ seen' = [i \in Visible |-> Phase(i)]
    /\ fetch' = "summary"
    /\ UNCHANGED <<rows, pc, job, open, event, through, missed>>

\* ... and the summary by another.
Summary ==
    /\ fetch = "summary"
    /\ through' = Max(Visible \cup {0})
    /\ fetch' = "none"
    /\ UNCHANGED <<rows, pc, job, open, event, seen, missed>>

Next ==
    \/ \E p \in Producers : Insert(p) \/ Commit(p) \/ Rollback(p)
    \/ Read \/ Delete \/ ReadAll
    \/ \E a \in Actors : Publish(a) \/ Lose(a)
    \/ Connect \/ Disconnect \/ Refetch \/ List \/ Summary

Spec == Init /\ [][Next]_vars
-----------------------------------------------------------------------------
\* Properties.

TypeOK ==
    /\ rows \in [Ids -> [phase : {"unused", "pending", "void", "unread", "read", "deleted"},
                         key : SUBSET DeliveryKeys]]
    /\ job \in [Producers -> Ids \cup {0}]
    /\ fetch \in {"none", "list", "summary"} /\ through \in Ids \cup {0}
    /\ DOMAIN seen \subseteq Ids
    /\ event => open

\* notes/notification-inbox.md: a notification that was delivered is not delivered again,
\* not even after the user has deleted it.
DeliveredOnce ==
    \A k \in DeliveryKeys :
        Cardinality({i \in Ids : k \in rows[i].key /\ Phase(i) \in {"unread", "read", "deleted"}})
            <= 1

\* "Reconnect and focus reload authoritative SQL state": a connected page with nothing left
\* to fetch, and no lost event, shows what is stored.
PageFresh ==
    open /\ ~event /\ fetch = "none" /\ ~missed /\ (\A a \in Actors : pc[a] # "publish")
        => seen = [i \in Visible |-> Phase(i)] /\ through = Max(Visible \cup {0})

\* "Bulk read uses the snapshot high-water ID to preserve newly arriving unread records":
\* no notification is marked as read by it that the page had not listed.
KeepsNewUnread == [][ReadAll => Marked \subseteq DOMAIN seen]_vars
=============================================================================
