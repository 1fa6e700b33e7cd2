------------------------------ MODULE MailTask ------------------------------
(***************************************************************************)
(* One mail of an account (core/mail/queue.py, core/celery/mail.py): a     *)
(* Celery message acknowledged when its task has ended, so that a worker   *)
(* that dies returns it to the queue.  A failed attempt publishes the next *)
(* one; after the last, the message itself is archived, and a message whose*)
(* archival failed is archived later without another attempt at SMTP.      *)
(***************************************************************************)
EXTENDS Naturals, FiniteSets

CONSTANTS
    Workers,
    MaxRetries,  \* EMAIL_QUEUE_MAX_RETRIES
    MaxFaults    \* bound: deliveries the broker repeats

VARIABLES
    queue,     \* queue[m]: copies of message m
    held, pc,  \* held[w]: the unacknowledged message of w, as a set; pc[w]: its step
    fresh,     \* the mail has not expired
    valid,     \* the payload passes MailJob
    tries,     \* history: calls of the SMTP server
    sent,      \* history: it has accepted the mail
    archived,  \* the failures hash has a record of the task
    faults     \* deliveries repeated so far

vars == <<queue, held, pc, fresh, valid, tries, sent, archived, faults>>
-----------------------------------------------------------------------------
Message == [attempt : 0..MaxRetries, archiving : BOOLEAN]

\* _enqueue and publish_task; a payload may come from another release.
Init ==
    /\ queue = [m \in Message |-> IF m = [attempt |-> 0, archiving |-> FALSE] THEN 1 ELSE 0]
    /\ held = [w \in Workers |-> {}] /\ pc = [w \in Workers |-> "idle"]
    /\ fresh = TRUE /\ valid \in BOOLEAN
    /\ tries = 0 /\ sent = FALSE /\ archived = FALSE /\ faults = 0

Goto(w, step, ms) == pc' = [pc EXCEPT ![w] = step] /\ held' = [held EXCEPT ![w] = ms]

Take(w) ==
    \E m \in Message :
        /\ pc[w] = "idle" /\ queue[m] > 0
        /\ queue' = [queue EXCEPT ![m] = @ - 1]
        /\ Goto(w, IF m.archiving \/ ~valid \/ ~fresh THEN "archive" ELSE "smtp", {m})
        /\ UNCHANGED <<fresh, valid, tries, sent, archived, faults>>

Send(w) ==
    /\ pc[w] = "smtp"
    /\ tries' = tries + 1 /\ sent' = TRUE
    /\ Goto(w, "ack", held[w])
    /\ UNCHANGED <<queue, fresh, valid, archived, faults>>

\* Defect: the retry repeats the arguments of the attempt that failed.
SameAgain(m) == m

Next_(m) == [m EXCEPT !.attempt = @ + 1]

ArchiveOnly(m) == [m EXCEPT !.archiving = TRUE]

\* The message is published and the one in hand acknowledged afterwards.
Republish(w, m) == queue' = [queue EXCEPT ![m] = @ + 1] /\ Goto(w, "ack", held[w])

\* The server refuses, or its answer to an accepted mail is lost.
SendFails(w) ==
    \E m \in held[w] :
        /\ pc[w] = "smtp"
        /\ tries' = tries + 1 /\ sent' \in {sent, TRUE}
        /\ IF m.attempt < MaxRetries
           THEN Republish(w, Next_(m))
           ELSE Goto(w, "archive", held[w]) /\ UNCHANGED queue
        /\ UNCHANGED <<fresh, valid, archived, faults>>

Archive(w) ==
    /\ pc[w] = "archive"
    /\ archived' = TRUE
    /\ Goto(w, "ack", held[w])
    /\ UNCHANGED <<queue, fresh, valid, tries, sent, faults>>

ArchiveFails(w) ==
    \E m \in held[w] :
        /\ pc[w] = "archive"
        /\ archived' \in {archived, TRUE}
        /\ Republish(w, ArchiveOnly(m))
        /\ UNCHANGED <<fresh, valid, tries, sent, faults>>

Ack(w) ==
    /\ pc[w] = "ack"
    /\ Goto(w, "idle", {})
    /\ UNCHANGED <<queue, fresh, valid, tries, sent, archived, faults>>

Fault == faults < MaxFaults /\ faults' = faults + 1

\* Defect: a message is acknowledged when it is taken.
AckedEarly(ms) == queue

Unacked(ms) == [m \in Message |-> queue[m] + (IF m \in ms THEN 1 ELSE 0)]

\* The worker dies, during an attempt or before its acknowledgement; or the retry of a
\* failed attempt cannot be published, and the message in hand is rejected to the queue.
Lose(w) ==
    /\ pc[w] # "idle" /\ Fault
    /\ IF pc[w] = "smtp"
       THEN tries' \in {tries, tries + 1} /\ sent' \in {sent, TRUE}
       ELSE UNCHANGED <<tries, sent>>
    /\ queue' = Unacked(held[w])
    /\ Goto(w, "idle", {})
    /\ UNCHANGED <<fresh, valid, archived>>

\* The visibility timeout passes while the worker is still at it.
Redeliver(w) ==
    /\ pc[w] # "idle" /\ Fault
    /\ queue' = Unacked(held[w])
    /\ UNCHANGED <<held, pc, fresh, valid, tries, sent, archived>>

\* expires_at passes.
Expire == fresh /\ fresh' = FALSE /\ UNCHANGED <<queue, held, pc, valid, tries, sent, archived, faults>>

Work(w) == Take(w) \/ Send(w) \/ SendFails(w) \/ Archive(w) \/ ArchiveFails(w) \/ Ack(w)

Next == Expire \/ \E w \in Workers : Work(w) \/ Lose(w) \/ Redeliver(w)

\* The workers run, and the archive is not out of reach for ever.
Fairness == WF_vars(\E w \in Workers : Work(w)) /\ SF_vars(\E w \in Workers : Archive(w))

Spec == Init /\ [][Next]_vars /\ Fairness
-----------------------------------------------------------------------------
\* Properties.

TypeOK ==
    /\ queue \in [Message -> Nat]
    /\ held \in [Workers -> SUBSET Message] /\ pc \in [Workers -> {"idle", "smtp", "archive", "ack"}]
    /\ \A w \in Workers : Cardinality(held[w]) = (IF pc[w] = "idle" THEN 0 ELSE 1)
    /\ tries \in Nat /\ faults \in 0..MaxFaults
    /\ {fresh, valid, sent, archived} \subseteq BOOLEAN

\* core/celery/mail.py: "Bounded SMTP retries": each delivery that is repeated costs at most
\* a full round of attempts, however often the archival of the last one is tried.
SendsBounded == tries <= (MaxRetries + 1) * (faults + 1)

\* The mail is accepted by the server or archived for the operator, whatever the workers and
\* the broker do in between.
Settles == <>(sent \/ archived)
=============================================================================
