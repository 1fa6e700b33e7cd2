------------------------------ MODULE Outbox ------------------------------
(***************************************************************************)
(* The durable lifecycle-mail outbox: the rows of mail_notifications       *)
(* (models/notification.py), the drain task that claims and delivers them  *)
(* (services/notifications.py, core/celery/notifications.py), the operator *)
(* retry, worker crashes, task time limits and the passing of time.        *)
(*                                                                         *)
(* A claim is two steps: the SELECT of a due row, and the sweeps with the  *)
(* conditional UPDATE, which locks rows and re-evaluates its condition on  *)
(* the current ones.  The re-read after the commit is a step of its own.   *)
(***************************************************************************)
EXTENDS Naturals

CONSTANTS
    Keys,         \* primary keys: hashes of the deduplication keys
    Workers,      \* Celery worker processes
    NoKey,        \* "no row is due"
    MaxAttempts,  \* MAX_DELIVERY_ATTEMPTS
    Batch,        \* claims in one run of the drain task
    Lease,        \* how long a claim excludes other workers
    TaskLimit,    \* task_time_limit of the Celery worker
    Retention,    \* from reservation to expiry
    Backoff,      \* Backoff[n]: delay after the n-th failed attempt
    MaxNow,       \* bound: the clock stops here
    MaxRetries,   \* bound: operator retries of one row
    MaxCrashes    \* bound: worker crashes

ASSUME KeysAssumption == NoKey \notin Keys
ASSUME CountAssumption ==
    /\ MaxAttempts \in Nat \ {0} /\ Batch \in Nat \ {0}
    /\ MaxNow \in Nat /\ MaxRetries \in Nat /\ MaxCrashes \in Nat
ASSUME TimeAssumption ==
    /\ Lease \in Nat /\ Retention \in Nat \ {0} /\ TaskLimit \in Nat \ {0}
    /\ Backoff \in [0..MaxAttempts -> Nat]
\* task_time_limit = 300 s is not longer than the five-minute lease.
ASSUME LeaseCoversTask == TaskLimit <= Lease

VARIABLES
    now,      \* the clock every process reads
    rows,     \* rows[k]: the stored row, or Absent
    pc,       \* pc[w]: where worker w is in the drain task
    job,      \* job[w]: the task's local variables
    claims,   \* history: claims[k] is the number of claims of k so far
    retries,  \* history: operator retries of k
    mails,    \* history: <<k, n>> when the n-th claim of k went to SMTP
    crashes   \* history: worker crashes so far

vars == <<now, rows, pc, job, claims, retries, mails, crashes>>
-----------------------------------------------------------------------------
\* The n-th claim of a row stores the lease n: unique among the claims of that
\* row, as a fresh uuid4 is.  NoLease is the column's NULL.
NoLease == 0

RowStates == {"absent", "pending", "sending", "sent", "failed", "expired", "skipped"}

Row == [state : RowStates, held : BOOLEAN, attempts : 0..MaxAttempts,
        available : Nat, lease : Nat, until : Nat, expires : Nat]

Absent == [state |-> "absent", held |-> FALSE, attempts |-> 0,
           available |-> 0, lease |-> NoLease, until |-> 0, expires |-> 0]

\* notification_row: held says that the payload column is not NULL.
NewRow(t) == [state |-> "pending", held |-> TRUE, attempts |-> 0,
              available |-> t, lease |-> NoLease, until |-> 0, expires |-> t + Retention]

PCs == {"idle", "select", "update", "reread", "deliver", "finish"}

\* key and clock are the claim's `key` and `now`; ticket is the lease it wrote;
\* lease, attempts and held are the columns of the row read after the commit.
Job == [round : 0..Batch, started : Nat, clock : Nat, key : Keys \cup {NoKey},
        ticket : Nat, lease : Nat, attempts : 0..MaxAttempts, held : BOOLEAN,
        outcome : {"none", "sent", "skipped", "failed"}]

NoJob == [round |-> 0, started |-> 0, clock |-> 0, key |-> NoKey, ticket |-> 0,
          lease |-> NoLease, attempts |-> 0, held |-> FALSE, outcome |-> "none"]

Init ==
    /\ now = 0
    /\ rows = [k \in Keys |-> Absent]
    /\ pc = [w \in Workers |-> "idle"]
    /\ job = [w \in Workers |-> NoJob]
    /\ claims = [k \in Keys |-> 0]
    /\ retries = [k \in Keys |-> 0]
    /\ mails = {}
    /\ crashes = 0
-----------------------------------------------------------------------------
\* Producers and the operator.

\* queue_notification, or the insert inside delete_account's transaction.  An
\* existing row makes it a no-op: the primary key is the deduplication key.
Enqueue(k) ==
    /\ rows[k].state = "absent"
    /\ now + Retention <= MaxNow
    /\ rows' = [rows EXCEPT ![k] = NewRow(now)]
    /\ UNCHANGED <<now, pc, job, claims, retries, mails, crashes>>

\* manage_notifications retry: only a failed row whose recipient is retained.
Retry(k) ==
    /\ rows[k].state = "failed" /\ rows[k].held /\ rows[k].expires > now
    /\ retries[k] < MaxRetries
    /\ rows' = [rows EXCEPT ![k] = [@ EXCEPT !.state = "pending", !.attempts = 0,
                                             !.available = now, !.lease = NoLease,
                                             !.until = 0]]
    /\ retries' = [retries EXCEPT ![k] = @ + 1]
    /\ UNCHANGED <<now, pc, job, claims, mails, crashes>>
-----------------------------------------------------------------------------
\* The drain task.

\* Beat, or a wake-up after a commit, starts a run; so does a redelivered task.
StartDrain(w) ==
    /\ pc[w] = "idle"
    /\ pc' = [pc EXCEPT ![w] = "select"]
    /\ job' = [job EXCEPT ![w] = [NoJob EXCEPT !.round = 1, !.started = now]]
    /\ UNCHANGED <<now, rows, claims, retries, mails, crashes>>

\* Defect: the lease is over one instant early.
FreeAtLeaseEnd(r, t) == r.state = "pending" \/ (r.state = "sending" /\ r.until <= t)

\* Not being sent by a worker whose lease still runs at t.
Free(r, t) == r.state = "pending" \/ (r.state = "sending" /\ r.until < t)

\* Defect: recipients of failed rows are left behind.
ExpiredUnlessFailed(r, t) == r.held /\ r.expires <= t /\ r.state # "failed"

Expired(r, t) == r.held /\ r.expires <= t

Exhausted(r, t) == r.held /\ r.attempts >= MaxAttempts /\ Free(r, t)

\* The two UPDATEs that open a claim: erase expired recipients, then fail the
\* rows whose attempts are used up.
Swept(r, t) ==
    IF Expired(r, t)
    THEN [r EXCEPT !.state = "expired", !.held = FALSE, !.lease = NoLease, !.until = 0]
    ELSE IF Exhausted(r, t)
    THEN [r EXCEPT !.state = "failed", !.lease = NoLease, !.until = 0]
    ELSE r

Eligible(r, t) ==
    /\ r.held
    /\ r.attempts < MaxAttempts
    /\ r.available <= t
    /\ Free(r, t)

Due(t) == {k \in Keys : Eligible(Swept(rows[k], t), t)}

\* Read the clock and select the due row that became available first.
ClaimSelect(w) ==
    /\ pc[w] = "select"
    /\ \E k \in Keys \cup {NoKey} :
        /\ IF Due(now) = {}
           THEN k = NoKey
           ELSE k \in Due(now) /\ \A j \in Due(now) : rows[k].available <= rows[j].available
        /\ job' = [job EXCEPT ![w] = [@ EXCEPT !.clock = now, !.key = k]]
    /\ pc' = [pc EXCEPT ![w] = "update"]
    /\ UNCHANGED <<now, rows, claims, retries, mails, crashes>>

Claimed(r, lease, t) ==
    [r EXCEPT !.state = "sending", !.lease = lease, !.until = t + Lease, !.attempts = @ + 1]

\* The conditional UPDATE still matches the selected row.
Wins(w) ==
    /\ job[w].key # NoKey
    /\ Eligible(Swept(rows[job[w].key], job[w].clock), job[w].clock)

ClaimWon(w) ==
    LET k == job[w].key
        t == job[w].clock
    IN  /\ pc[w] = "update"
        /\ Wins(w)
        /\ rows' = [j \in Keys |-> IF j = k
                                   THEN Claimed(Swept(rows[j], t), claims[k] + 1, t)
                                   ELSE Swept(rows[j], t)]
        /\ claims' = [claims EXCEPT ![k] = @ + 1]
        /\ job' = [job EXCEPT ![w] = [@ EXCEPT !.ticket = claims[k] + 1]]
        /\ pc' = [pc EXCEPT ![w] = "reread"]
        /\ UNCHANGED <<now, retries, mails, crashes>>

\* Nothing was due, or another worker took the row: the sweeps are committed
\* and the task returns.
ClaimNone(w) ==
    /\ pc[w] = "update"
    /\ ~Wins(w)
    /\ rows' = [j \in Keys |-> Swept(rows[j], job[w].clock)]
    /\ job' = [job EXCEPT ![w] = NoJob]
    /\ pc' = [pc EXCEPT ![w] = "idle"]
    /\ UNCHANGED <<now, claims, retries, mails, crashes>>

\* db.get after the commit: whatever the row holds by then, not what was claimed.
Reread(w) ==
    LET r == rows[job[w].key]
    IN  /\ pc[w] = "reread"
        /\ job' = [job EXCEPT ![w] = [@ EXCEPT !.lease = r.lease, !.attempts = r.attempts,
                                               !.held = r.held]]
        /\ pc' = [pc EXCEPT ![w] = "deliver"]
        /\ UNCHANGED <<now, rows, claims, retries, mails, crashes>>

Outcome(w, o) ==
    /\ job' = [job EXCEPT ![w] = [@ EXCEPT !.outcome = o]]
    /\ pc' = [pc EXCEPT ![w] = "finish"]
    /\ UNCHANGED <<now, rows, claims, retries, crashes>>

\* EMAIL_ENABLED and STRIPE_ENABLED are inputs: a redeploy between the reservation
\* and the run may have switched this kind of mail off, or on again.
Skip(w) ==
    /\ pc[w] = "deliver"
    /\ Outcome(w, "skipped")
    /\ UNCHANGED mails

\* A missing payload, an unknown encryption key: no mail leaves.
DecryptFails(w) ==
    /\ pc[w] = "deliver"
    /\ Outcome(w, "failed")
    /\ UNCHANGED mails

\* The message is handed to SMTP, which may accept it and still raise.
Send(w) ==
    /\ pc[w] = "deliver"
    /\ job[w].held
    /\ \E o \in {"sent", "failed"} : Outcome(w, o)
    /\ mails' = mails \cup {<<job[w].key, job[w].ticket>>}

FinalState(j) ==
    IF j.outcome # "failed" THEN j.outcome
    ELSE IF j.attempts < MaxAttempts THEN "pending" ELSE "failed"

\* finish: an UPDATE of the row whose lease column still is the lease read.
\* SQLAlchemy renders a comparison with None as IS NULL, so NoLease matches NoLease.
Finished(r, j, t) ==
    IF r.lease # j.lease THEN r
    ELSE [r EXCEPT !.state = FinalState(j), !.lease = NoLease, !.until = 0,
                   !.available = t + Backoff[j.attempts],
                   !.held = IF j.outcome = "failed" THEN @ ELSE FALSE]

\* Defect: one claim more than the batch.
MoreThanBatch(w) == job[w].round <= Batch

More(w) == job[w].round < Batch

Finish(w) ==
    LET k == job[w].key
    IN  /\ pc[w] = "finish"
        /\ rows' = [rows EXCEPT ![k] = Finished(@, job[w], now)]
        /\ job' = [job EXCEPT ![w] = IF More(w)
                                     THEN [NoJob EXCEPT !.round = job[w].round + 1,
                                                        !.started = job[w].started]
                                     ELSE NoJob]
        /\ pc' = [pc EXCEPT ![w] = IF More(w) THEN "select" ELSE "idle"]
        /\ UNCHANGED <<now, claims, retries, mails, crashes>>
-----------------------------------------------------------------------------
\* The environment.

Abandon(w) ==
    /\ pc[w] # "idle"
    /\ pc' = [pc EXCEPT ![w] = "idle"]
    /\ job' = [job EXCEPT ![w] = NoJob]
    /\ UNCHANGED <<now, rows, claims, retries, mails>>

\* The process dies at any point, or the soft time limit unwinds the task.
Crash(w) ==
    /\ crashes < MaxCrashes
    /\ Abandon(w)
    /\ crashes' = crashes + 1

\* The pool kills a task that reached the hard time limit.
HardTimeLimit(w) ==
    /\ now >= job[w].started + TaskLimit
    /\ Abandon(w)
    /\ UNCHANGED crashes

Tick ==
    /\ now < MaxNow
    /\ \A w \in Workers : pc[w] # "idle" => now < job[w].started + TaskLimit
    /\ now' = now + 1
    /\ UNCHANGED <<rows, pc, job, claims, retries, mails, crashes>>

Step(w) ==
    \/ ClaimSelect(w) \/ ClaimWon(w) \/ ClaimNone(w) \/ Reread(w)
    \/ Skip(w) \/ DecryptFails(w) \/ Send(w) \/ Finish(w)

Next ==
    \/ \E k \in Keys : Enqueue(k) \/ Retry(k)
    \/ \E w \in Workers : StartDrain(w) \/ Step(w) \/ Crash(w) \/ HardTimeLimit(w)
    \/ Tick

\* Beat keeps starting runs, a running task keeps running, time passes and the
\* pool enforces its limit.  Producers, the operator and crashes owe nothing.
Fairness ==
    /\ WF_vars(\E w \in Workers : StartDrain(w))
    /\ \A w \in Workers : WF_vars(Step(w)) /\ WF_vars(HardTimeLimit(w))
    /\ WF_vars(Tick)

SafeSpec == Init /\ [][Next]_vars

Spec == SafeSpec /\ Fairness
-----------------------------------------------------------------------------
\* Properties.

\* Every variable has its type.
TypeOK ==
    /\ now \in 0..MaxNow
    /\ rows \in [Keys -> Row]
    /\ pc \in [Workers -> PCs]
    /\ job \in [Workers -> Job]
    /\ claims \in [Keys -> Nat]
    /\ retries \in [Keys -> 0..MaxRetries]
    /\ mails \subseteq Keys \X Nat
    /\ crashes \in 0..MaxCrashes

\* claim, retry: one budget pays for MaxAttempts claims, abandoned ones included,
\* whatever the workers, crashes and sweeps do; only an operator grants another.
ClaimBudget == \A k \in Keys : claims[k] <= MaxAttempts * (retries[k] + 1)

Working(w) == pc[w] \in {"reread", "deliver", "finish"}

\* claim: the lease excludes every other worker for as long as the task that
\* holds it can run, so no two workers process one notification at a time.
OneWorkerPerRow ==
    \A v, w \in Workers : v # w /\ Working(v) /\ Working(w) => job[v].key # job[w].key

\* deliver_notifications: a claim hands its message to SMTP at most once, so a
\* recipient gets at most one copy for every claim that ClaimBudget allows.
OneMailPerClaim ==
    [][\A w \in Workers : Send(w) => <<job[w].key, job[w].ticket>> \notin mails]_vars

\* finish: once a row is recorded as sent or skipped, no sweep, claim, operator
\* retry or late worker changes it any more.
DeliveredIsFinal ==
    [][\A k \in Keys : rows[k].state \in {"sent", "skipped"} => rows'[k] = rows[k]]_rows

\* claim: no row is claimed by a scan whose clock has reached its deadline.
NoClaimPastDeadline ==
    [][\A k \in Keys : claims'[k] # claims[k] =>
            \E w \in Workers : /\ pc[w] = "update" /\ pc'[w] = "reread"
                               /\ job[w].key = k /\ job[w].clock < rows[k].expires]_vars

\* lifecycle-mail.md: "Old lease holders cannot overwrite a later claim/result".
\* The result of the expiry sweep is one: an expired row stays as it is.
ExpiredIsFinal ==
    [][\A k \in Keys : rows[k].state = "expired" => rows'[k] = rows[k]]_rows

\* The outbox implements its promise (RetainedMail), erasure included.
Phase(r) == IF r.state = "absent" THEN "unknown" ELSE IF r.held THEN "retained" ELSE "erased"

PhaseBar == [k \in Keys |-> Phase(rows[k])]

BudgetBar == [k \in Keys |-> IF rows[k].state = "absent" THEN 0 ELSE retries[k] + 1]

Promise == INSTANCE RetainedMail WITH
    phase <- PhaseBar, tries <- claims, budgets <- BudgetBar

KeepsPromise == Promise!AbstractSpec
=============================================================================
