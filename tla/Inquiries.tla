----------------------------- MODULE Inquiries -----------------------------
(***************************************************************************)
(* Support threads of one user (models/inquiry.py, services/inquiry.py):   *)
(* created, answered and closed by concurrent requests, each of which may  *)
(* be a retry of one whose answer was lost.  A row lock makes a request's  *)
(* reads and its commit one; the notifications are rows of the same        *)
(* transaction, and their realtime events follow the commit.               *)
(***************************************************************************)
EXTENDS Naturals, FiniteSets

CONSTANTS
    Requests,    \* concurrent requests
    Threads,     \* request ids of threads
    Replies,     \* request ids of replies
    MaxMessages  \* 200

VARIABLES
    messages,  \* messages[t]: the request ids of its messages; {} before it exists
    status,    \* status[t]
    told,      \* told[t, m]: how often message m of thread t was notified
    holder,    \* the requests that hold the row lock of the user or of a thread
    pc, job    \* job[r]: the thread and the message of request r, and what it has read

vars == <<messages, status, told, holder, pc, job>>
-----------------------------------------------------------------------------
Ids == Threads \cup Replies
Statuses == {"open", "in_progress", "closed"}
NoJob == [thread |-> {}, message |-> {}, to |-> "open", read |-> "open"]

Init ==
    /\ messages = [t \in Threads |-> {}]
    /\ status = [t \in Threads |-> "open"]
    /\ told = [x \in Threads \X Ids |-> 0]
    /\ holder = {}
    /\ pc = [r \in Requests |-> "idle"] /\ job = [r \in Requests |-> NoJob]

Exists(t) == messages[t] # {}

Goto(r, step) == pc' = [pc EXCEPT ![r] = step]

Begin(r, step, j) ==
    /\ pc[r] = "idle"
    /\ pc' = [pc EXCEPT ![r] = step] /\ job' = [job EXCEPT ![r] = j]
    /\ UNCHANGED <<messages, status, told, holder>>

\* The transaction ends, and with it the lock.
End(r, step) ==
    /\ holder' = holder \ {r}
    /\ Goto(r, step)

\* A create locks the user's row, the others lock the thread's.
Row(r) == IF job[r].message = job[r].thread THEN {} ELSE job[r].thread

\* Defect: the row is read without FOR UPDATE.
UnlockedAlways(r) == TRUE

Unlocked(r) == \A q \in holder : Row(q) # Row(r)

Create(r, t) == Begin(r, "lock", [NoJob EXCEPT !.thread = {t}, !.message = {t}])

Reply(r, t, m) ==
    Exists(t) /\ Begin(r, "lock", [NoJob EXCEPT !.thread = {t}, !.message = {m}])

SetStatus(r, t, s) ==
    Exists(t) /\ Begin(r, "lock", [NoJob EXCEPT !.thread = {t}, !.to = s])

\* SELECT ... FOR UPDATE; a thread's status is read with it.
Lock(r) ==
    \E t \in job[r].thread :
        /\ pc[r] = "lock" /\ Unlocked(r)
        /\ holder' = holder \cup {r}
        /\ job' = [job EXCEPT ![r].read = status[t]]
        /\ Goto(r, IF job[r].message = {} THEN "status" ELSE "prior")
        /\ UNCHANGED <<messages, status, told>>

Known(r) == \E t \in job[r].thread : job[r].message \subseteq messages[t]

\* Defect: a closed thread is refused before the retry is recognised.
LimitFirst(r) == job[r].read # "closed"

RetryFirst(r) == TRUE

\* A request id that is known already is answered with the thread as it is.
Prior(r) ==
    \E t \in job[r].thread :
        /\ pc[r] = "prior"
        /\ IF ~RetryFirst(r) THEN End(r, "refused")
           ELSE IF Known(r) THEN End(r, "idle")
           ELSE Goto(r, IF job[r].message = {t} THEN "commit" ELSE "count") /\ UNCHANGED holder
        /\ UNCHANGED <<messages, status, told, job>>

Room(t) == Cardinality(messages[t]) < MaxMessages

Count(r) ==
    \E t \in job[r].thread :
        /\ pc[r] = "count"
        /\ IF job[r].read # "closed" /\ Room(t)
           THEN Goto(r, "commit") /\ UNCHANGED holder
           ELSE End(r, "refused")
        /\ UNCHANGED <<messages, status, told, job>>

\* The message, the thread and the notifications; the unique keys of both tables end the
\* transaction of a request that did not see its own first try.
Commit(r) ==
    \E t \in job[r].thread, m \in job[r].message :
        /\ pc[r] = "commit"
        /\ IF Known(r)
           THEN UNCHANGED <<messages, told>> /\ End(r, "refused")
           ELSE /\ messages' = [messages EXCEPT ![t] = @ \cup {m}]
                /\ told' = [told EXCEPT ![<<t, m>>] = @ + 1]
                /\ End(r, "publish")
        /\ UNCHANGED <<status, job>>

ChangeStatus(r) ==
    \E t \in job[r].thread :
        /\ pc[r] = "status"
        /\ status' = [status EXCEPT ![t] = job[r].to]
        /\ End(r, IF job[r].read = job[r].to THEN "idle" ELSE "publish")
        /\ UNCHANGED <<messages, told, job>>

\* The events, which may fail unnoticed, and the answer; also the answer to a refusal.
Answer(r) ==
    /\ pc[r] \in {"publish", "refused"}
    /\ Goto(r, "idle")
    /\ UNCHANGED <<messages, status, told, holder, job>>

\* The process stops or the connection is lost: before the commit nothing remains.
Stop(r) ==
    /\ pc[r] # "idle"
    /\ End(r, "idle")
    /\ UNCHANGED <<messages, status, told, job>>

Next ==
    \E r \in Requests :
        \/ \E t \in Threads :
            Create(r, t) \/ (\E m \in Replies : Reply(r, t, m))
              \/ (\E s \in Statuses : SetStatus(r, t, s))
        \/ Lock(r) \/ Prior(r) \/ Count(r) \/ Commit(r) \/ ChangeStatus(r)
        \/ Answer(r) \/ Stop(r)

Spec == Init /\ [][Next]_vars
-----------------------------------------------------------------------------
\* Properties.

TypeOK ==
    /\ messages \in [Threads -> SUBSET Ids] /\ status \in [Threads -> Statuses]
    /\ told \in [Threads \X Ids -> Nat] /\ holder \subseteq Requests
    /\ job \in [Requests -> [thread : SUBSET Threads, message : SUBSET Ids,
                             to : Statuses, read : Statuses]]
    /\ \A q, r \in holder : q # r => Row(q) # Row(r)

\* notes/support-inquiries.md: a retry of a request that was accepted is never refused,
\* though the thread was closed or filled since, or the first try is still under way, and
\* it notifies nobody again.
RetriesSucceed ==
    [][\A r \in Requests :
          /\ pc[r] # "refused" /\ pc'[r] = "refused" => ~Known(r)
          /\ \A x \in Threads \X Ids : told'[x] # told[x] => told[x] = 0]_vars

\* A reply comes to a thread that is neither closed nor full at that moment.
LimitsHold ==
    [][\A t \in Threads, m \in Replies :
          m \in messages'[t] \ messages[t]
              => status[t] # "closed" /\ Cardinality(messages[t]) < MaxMessages]_vars

\* What was accepted stays accepted, and nothing else is.
RepliesSound == RetriesSucceed /\ LimitsHold
=============================================================================
