--------------------------- MODULE OutboxProofs ---------------------------
(***************************************************************************)
(* Proofs about Outbox for every set of keys and workers, every budget,    *)
(* lease, limit and bound that satisfies the module's assumptions.         *)
(***************************************************************************)
EXTENDS Outbox, TLAPS

\* A row on which worker w is busy: still leased to w's claim, for at least as
\* long as the task may run, or erased by an expiry sweep in the meantime.
Leased(w) ==
    LET r == rows[job[w].key]
    IN  /\ r.state = "sending" /\ r.held
        /\ r.lease = job[w].ticket
        /\ r.until >= job[w].started + TaskLimit

ErasedMeanwhile(w) ==
    LET r == rows[job[w].key]
    IN  r.state = "expired" /\ ~r.held /\ r.lease = NoLease

\* Columns of one row that belong together.
RowOK(r) ==
    /\ r.held => r.state \in {"pending", "sending", "failed"}
    /\ r.state = "sending" => r.held
    /\ r.state # "sending" => r.lease = NoLease
    /\ r.state = "absent" => r.attempts = 0

RowsOK ==
    \A k \in Keys :
        /\ RowOK(rows[k])
        /\ rows[k].state = "absent" => claims[k] = 0 /\ retries[k] = 0
        /\ claims[k] <= MaxAttempts * retries[k] + rows[k].attempts

\* A task runs no longer than its limit, on clocks it has already seen.
ClocksOK ==
    \A w \in Workers : pc[w] # "idle" =>
        /\ job[w].started <= now /\ now <= job[w].started + TaskLimit
        /\ pc[w] # "select" => job[w].started <= job[w].clock /\ job[w].clock <= now

\* A worker on a row has an own claim of it, and has read this claim's lease,
\* or NULL after an erasure.
WorkOK ==
    \A w \in Workers : Working(w) =>
        /\ job[w].key \in Keys
        /\ job[w].ticket \in 1..claims[job[w].key]
        /\ Leased(w) \/ ErasedMeanwhile(w)
        /\ pc[w] # "reread" =>
            \/ job[w].held /\ job[w].lease = job[w].ticket
            \/ ~job[w].held /\ job[w].lease = NoLease /\ ErasedMeanwhile(w)

\* Hand-offs belong to claims, and a claim not yet delivered has none.
MailsOK ==
    /\ \A m \in mails : m[2] \in 1..claims[m[1]]
    /\ \A w \in Workers : pc[w] \in {"reread", "deliver"} =>
            <<job[w].key, job[w].ticket>> \notin mails

FinishOK == \A w \in Workers : pc[w] = "finish" => job[w].outcome # "none"

IInv ==
    /\ TypeOK
    /\ RowsOK
    /\ ClocksOK
    /\ WorkOK
    /\ OneWorkerPerRow
    /\ MailsOK
    /\ FinishOK
-----------------------------------------------------------------------------
\* The operators on rows.

LEMMA SweptType ==
    ASSUME NEW r \in Row, NEW t \in Nat
    PROVE  Swept(r, t) \in Row
  BY DEF Swept, Row, RowStates, NoLease

LEMMA SweptKeeps ==
    ASSUME NEW r \in Row, NEW t \in Nat, RowOK(r)
    PROVE  /\ RowOK(Swept(r, t))
           /\ Swept(r, t).attempts = r.attempts
           /\ Swept(r, t).expires = r.expires
           /\ Swept(r, t).state = "absent" <=> r.state = "absent"
           /\ ~r.held => Swept(r, t) = r
  BY DEF Swept, Row, RowStates, RowOK, NoLease, Expired, Exhausted, Free

\* A sweep leaves a live lease alone, or erases the row's recipient.
LEMMA SweptLeased ==
    ASSUME NEW r \in Row, NEW t \in Nat, r.state = "sending", r.held, r.until >= t
    PROVE  \/ Swept(r, t) = r
           \/ /\ Swept(r, t).state = "expired" /\ ~Swept(r, t).held
              /\ Swept(r, t).lease = NoLease
  BY DEF Swept, Row, RowStates, NoLease, Expired, Exhausted, Free

LEMMA ClaimedFacts ==
    ASSUME NEW r \in Row, NEW lease \in Nat, NEW t \in Nat, Eligible(r, t)
    PROVE  /\ Claimed(r, lease, t) \in Row
           /\ RowOK(Claimed(r, lease, t))
           /\ Claimed(r, lease, t).state = "sending"
           /\ Claimed(r, lease, t).held
           /\ Claimed(r, lease, t).lease = lease
           /\ Claimed(r, lease, t).until = t + Lease
           /\ Claimed(r, lease, t).attempts = r.attempts + 1
           /\ Claimed(r, lease, t).expires = r.expires
  <1>1. r.attempts + 1 \in 0..MaxAttempts /\ t + Lease \in Nat
    BY CountAssumption, TimeAssumption DEF Eligible, Row
  <1>2. Claimed(r, lease, t) \in Row
    BY <1>1 DEF Claimed, Row, RowStates
  <1>3. r.held
    BY DEF Eligible
  <1> QED
    BY <1>2, <1>3 DEF Claimed, Row, RowOK

LEMMA FinishedFacts ==
    ASSUME NEW r \in Row, NEW j \in Job, NEW t \in Nat, RowOK(r),
           j.outcome # "none"
    PROVE  /\ Finished(r, j, t) \in Row
           /\ Finished(r, j, t).attempts = r.attempts
           /\ Finished(r, j, t).expires = r.expires
           /\ r.lease # j.lease => Finished(r, j, t) = r
           /\ r.state # "absent" => Finished(r, j, t).state # "absent"
           /\ r.lease = j.lease => Finished(r, j, t).state \notin {"absent", "sending", "expired"}
           /\ r.held /\ r.state # "failed" => RowOK(Finished(r, j, t))
           /\ ~r.held => RowOK(Finished(r, j, t)) /\ ~Finished(r, j, t).held
  <1>1. j.attempts \in 0..MaxAttempts /\ Backoff[j.attempts] \in Nat
    BY CountAssumption, TimeAssumption DEF Job
  <1>2. FinalState(j) \in {"sent", "skipped", "pending", "failed"}
    BY <1>1 DEF FinalState, Job
  <1>3. t + Backoff[j.attempts] \in Nat
    BY <1>1
  <1>4. CASE r.lease # j.lease
    BY <1>4 DEF Finished
  <1>5. CASE r.lease = j.lease
    <2> DEFINE f == Finished(r, j, t)
    <2>1. /\ f.state = FinalState(j)
          /\ f.lease = NoLease /\ f.until = 0
          /\ f.available = t + Backoff[j.attempts]
          /\ f.held = (IF j.outcome = "failed" THEN r.held ELSE FALSE)
          /\ f.attempts = r.attempts /\ f.expires = r.expires
      BY <1>5 DEF Finished, Row
    <2>2. f \in Row
      BY <1>2, <1>3, <1>5 DEF Finished, Row, RowStates, NoLease
    <2>3. j.outcome = "failed" => FinalState(j) \in {"pending", "failed"}
      BY DEF FinalState
    <2> QED
      BY <1>2, <1>5, <2>1, <2>2, <2>3 DEF RowOK
  <1> QED
    BY <1>4, <1>5
-----------------------------------------------------------------------------
\* The inductive invariant.

LEMMA InitIInv == Init => IInv
  <1> SUFFICES ASSUME Init PROVE IInv
    OBVIOUS
  <1>1. Absent \in Row /\ RowOK(Absent) /\ NoJob \in Job
    BY CountAssumption DEF Absent, Row, RowStates, RowOK, NoJob, Job, NoLease
  <1>2. TypeOK
    BY <1>1, CountAssumption DEF Init, TypeOK, PCs
  <1>3. RowsOK
    <2>1. MaxAttempts * 0 = 0
      BY CountAssumption
    <2>2. Absent.attempts = 0
      BY DEF Absent
    <2> SUFFICES ASSUME NEW k \in Keys
                 PROVE  /\ RowOK(rows[k])
                        /\ rows[k].state = "absent" => claims[k] = 0 /\ retries[k] = 0
                        /\ claims[k] <= MaxAttempts * retries[k] + rows[k].attempts
      BY DEF RowsOK
    <2>3. rows[k] = Absent /\ claims[k] = 0 /\ retries[k] = 0
      BY DEF Init
    <2> QED
      BY <1>1, <2>1, <2>2, <2>3
  <1> QED
    BY <1>2, <1>3 DEF Init, IInv, ClocksOK, WorkOK, Working, OneWorkerPerRow, MailsOK, FinishOK

LEMMA EnqueueStep ==
    ASSUME IInv, NEW k \in Keys, Enqueue(k)
    PROVE  IInv'
  <1> USE DEF IInv
  <1>1. NewRow(now) \in Row /\ RowOK(NewRow(now)) /\ now \in Nat
    BY CountAssumption, TimeAssumption DEF TypeOK, NewRow, Row, RowStates, RowOK, NoLease
  <1>2. TypeOK'
    BY <1>1 DEF TypeOK, Enqueue
  <1>3. RowsOK'
    BY <1>1, CountAssumption DEF TypeOK, RowsOK, Enqueue, NewRow
  <1>4. WorkOK'
    <2> SUFFICES ASSUME NEW w \in Workers, Working(w)
                 PROVE  job[w].key # k
      BY DEF WorkOK, Enqueue, TypeOK, Working, Leased, ErasedMeanwhile
    <2> QED
      BY DEF WorkOK, Enqueue, Leased, ErasedMeanwhile
  <1> QED
    BY <1>2, <1>3, <1>4
       DEF Enqueue, ClocksOK, OneWorkerPerRow, Working, MailsOK, FinishOK

LEMMA RetryStep ==
    ASSUME IInv, NEW k \in Keys, Retry(k)
    PROVE  IInv'
  <1> USE DEF IInv
  <1> DEFINE r == [rows[k] EXCEPT !.state = "pending", !.attempts = 0, !.available = now,
                                  !.lease = NoLease, !.until = 0]
  <1>1. rows[k] \in Row /\ now \in Nat /\ retries[k] \in Nat /\ claims[k] \in Nat
    BY CountAssumption DEF TypeOK
  <1>2. r \in Row /\ RowOK(r) /\ r.attempts = 0 /\ r.state = "pending"
    <2>1. 0 \in 0..MaxAttempts /\ NoLease \in Nat
      BY CountAssumption DEF NoLease
    <2>2. r \in Row
      BY <1>1, <2>1 DEF Row, RowStates
    <2>3. r.state = "pending" /\ r.attempts = 0 /\ r.lease = NoLease
      BY <1>1 DEF Row
    <2> QED
      BY <2>2, <2>3 DEF RowOK
  <1>3. rows' = [rows EXCEPT ![k] = r]
    BY DEF Retry
  <1>4. TypeOK'
    BY <1>1, <1>2, <1>3, CountAssumption DEF TypeOK, Retry
  <1>5. RowsOK'
    <2>1. claims[k] <= MaxAttempts * retries[k] + rows[k].attempts /\ rows[k].attempts <= MaxAttempts
      BY <1>1 DEF RowsOK, Row
    <2>2. MaxAttempts * (retries[k] + 1) = MaxAttempts * retries[k] + MaxAttempts
      BY <1>1, CountAssumption
    <2>3. MaxAttempts * retries[k] \in Nat
      BY <1>1, CountAssumption
    <2>4. claims[k] <= MaxAttempts * (retries[k] + 1) + 0
      BY <1>1, <2>1, <2>2, <2>3, CountAssumption DEF Row
    <2> QED
      BY <1>1, <1>2, <1>3, <2>4 DEF TypeOK, RowsOK, Retry
  <1>6. WorkOK'
    <2> SUFFICES ASSUME NEW w \in Workers, Working(w)
                 PROVE  job[w].key # k
      BY DEF WorkOK, Retry, TypeOK, Working, Leased, ErasedMeanwhile
    <2> QED
      BY DEF WorkOK, Retry, Leased, ErasedMeanwhile
  <1> QED
    BY <1>4, <1>5, <1>6
       DEF Retry, ClocksOK, OneWorkerPerRow, Working, MailsOK, FinishOK

\* Steps that only move one worker that is not on a row, or leaves it.
LEMMA QuietStep ==
    ASSUME IInv, NEW w \in Workers, NEW p \in {"idle", "select", "update"}, NEW j \in Job,
           pc' = [pc EXCEPT ![w] = p], job' = [job EXCEPT ![w] = j],
           p # "idle" => /\ j.started <= now /\ now <= j.started + TaskLimit
                         /\ p # "select" => j.started <= j.clock /\ j.clock <= now,
           crashes' \in 0..MaxCrashes,
           UNCHANGED <<now, rows, claims, retries, mails>>
    PROVE  IInv'
  <1> USE DEF IInv
  <1>1. TypeOK'
    BY DEF TypeOK, PCs
  <1>2. RowsOK'
    BY DEF RowsOK
  <1>3. ClocksOK'
    BY DEF ClocksOK, TypeOK
  <1>4. \A v \in Workers : Working(v)' => v # w /\ Working(v)
    BY DEF Working, TypeOK
  <1>5. \A v \in Workers : v # w => pc'[v] = pc[v] /\ job'[v] = job[v]
    BY DEF TypeOK
  <1>6. WorkOK'
    BY <1>4, <1>5 DEF WorkOK, Leased, ErasedMeanwhile
  <1>7. OneWorkerPerRow'
    BY <1>4, <1>5 DEF OneWorkerPerRow
  <1>8. MailsOK' /\ FinishOK'
    BY <1>5 DEF MailsOK, FinishOK, TypeOK
  <1> QED
    BY <1>1, <1>2, <1>3, <1>6, <1>7, <1>8

LEMMA StartDrainStep ==
    ASSUME IInv, NEW w \in Workers, StartDrain(w)
    PROVE  IInv'
  <1> DEFINE j == [NoJob EXCEPT !.round = 1, !.started = now]
  <1>1. now \in Nat /\ crashes \in 0..MaxCrashes
    BY CountAssumption DEF IInv, TypeOK
  <1>2. j \in Job /\ j.started = now
    <2>1. NoJob \in Job /\ 1 \in 0..Batch
      BY CountAssumption DEF NoJob, Job, NoLease
    <2> QED
      BY <1>1, <2>1 DEF Job
  <1>3. j.started <= now /\ now <= j.started + TaskLimit
    BY <1>1, <1>2, TimeAssumption
  <1>4. job' = [job EXCEPT ![w] = j] /\ pc' = [pc EXCEPT ![w] = "select"]
    BY DEF StartDrain
  <1> HIDE DEF j
  <1> QED
    BY <1>1, <1>2, <1>3, <1>4, QuietStep DEF StartDrain

LEMMA ClaimSelectStep ==
    ASSUME IInv, NEW w \in Workers, ClaimSelect(w)
    PROVE  IInv'
  <1>1. PICK k \in Keys \cup {NoKey} :
            job' = [job EXCEPT ![w] = [@ EXCEPT !.clock = now, !.key = k]]
    BY DEF ClaimSelect
  <1> DEFINE j == [job[w] EXCEPT !.clock = now, !.key = k]
  <1>2. now \in Nat /\ job[w] \in Job /\ crashes \in 0..MaxCrashes
    BY CountAssumption DEF IInv, TypeOK
  <1>3. j \in Job /\ j.started = job[w].started /\ j.clock = now
    BY <1>2 DEF Job
  <1>4. job[w].started <= now /\ now <= job[w].started + TaskLimit
    BY DEF IInv, ClocksOK, ClaimSelect
  <1>5. job' = [job EXCEPT ![w] = j] /\ pc' = [pc EXCEPT ![w] = "update"]
    BY <1>1 DEF ClaimSelect
  <1> HIDE DEF j
  <1>6. crashes' = crashes /\ UNCHANGED <<now, rows, claims, retries, mails>>
    BY DEF ClaimSelect
  <1>7. /\ j.started <= now /\ now <= j.started + TaskLimit
        /\ j.started <= j.clock /\ j.clock <= now
    BY <1>2, <1>3, <1>4
  <1> QED
    BY <1>2, <1>3, <1>5, <1>6, <1>7, QuietStep

LEMMA AbandonStep ==
    ASSUME IInv, NEW w \in Workers, Abandon(w), crashes' \in 0..MaxCrashes
    PROVE  IInv'
  <1>1. NoJob \in Job
    BY CountAssumption DEF NoJob, Job, NoLease
  <1> QED
    BY <1>1, QuietStep DEF Abandon

LEMMA TickStep ==
    ASSUME IInv, Tick
    PROVE  IInv'
  <1> USE DEF IInv
  <1>1. TypeOK'
    BY CountAssumption DEF TypeOK, Tick
  <1>2. ClocksOK'
    <2> SUFFICES ASSUME NEW w \in Workers, pc[w] # "idle"
                 PROVE  /\ job[w].started <= now + 1 /\ now + 1 <= job[w].started + TaskLimit
                        /\ pc[w] # "select" => job[w].started <= job[w].clock /\ job[w].clock <= now + 1
      BY DEF ClocksOK, Tick
    <2>1. job[w].started \in Nat /\ job[w].clock \in Nat /\ now \in Nat
      BY DEF TypeOK, Job
    <2> QED
      BY <2>1, TimeAssumption DEF ClocksOK, Tick
  <1> QED
    BY <1>1, <1>2 DEF Tick, RowsOK, WorkOK, Working, Leased, ErasedMeanwhile, OneWorkerPerRow,
                      MailsOK, FinishOK

\* A scan, on whatever clock it has read, either leaves the row of a busy worker
\* alone or erases it; it never finds it eligible.  This is where the lease has
\* to outlast the task.
LEMMA BusyRow ==
    ASSUME IInv, NEW v \in Workers, Working(v), NEW t \in Nat, t <= now
    PROVE  LET r == rows[job[v].key]
               s == Swept(r, t)
           IN  /\ \/ Leased(v) /\ s = r
                  \/ s.state = "expired" /\ ~s.held /\ s.lease = NoLease
               /\ ErasedMeanwhile(v) => s = r
               /\ ~Eligible(s, t)
  <1> DEFINE r == rows[job[v].key]
             s == Swept(r, t)
  <1>1. job[v].key \in Keys /\ r \in Row /\ job[v] \in Job /\ now \in Nat
    BY DEF IInv, WorkOK, TypeOK
  <1>2. CASE ErasedMeanwhile(v)
    <2>1. ~r.held /\ r.state = "expired" /\ r.lease = NoLease
      BY <1>2 DEF ErasedMeanwhile
    <2>2. s = r
      BY <2>1 DEF Swept, Expired, Exhausted
    <2> HIDE DEF r, s
    <2>3. ~Eligible(s, t)
      BY <2>1, <2>2 DEF Eligible
    <2>4. s.state = "expired" /\ ~s.held /\ s.lease = NoLease
      BY <2>1, <2>2
    <2> QED
      BY <2>2, <2>3, <2>4 DEF r, s
  <1>3. CASE Leased(v)
    <2>1. r.state = "sending" /\ r.held /\ r.until >= job[v].started + TaskLimit
      BY <1>3 DEF Leased
    <2>2. now <= job[v].started + TaskLimit
      BY DEF IInv, ClocksOK, Working
    <2> HIDE DEF r, s
    <2>a. r.until \in Nat /\ job[v].started \in Nat
      BY <1>1 DEF Row, Job
    <2>3. r.until >= t
      BY <1>1, <2>a, <2>1, <2>2, TimeAssumption
    <2>4. \/ s = r
          \/ s.state = "expired" /\ ~s.held /\ s.lease = NoLease
      BY <1>1, <2>1, <2>3, SweptLeased DEF s
    <2>5. ~ErasedMeanwhile(v)
      BY <2>1 DEF ErasedMeanwhile, r
    <2>6. ~Eligible(s, t)
      BY <1>1, <2>1, <2>3, <2>4 DEF Eligible, Free, Row
    <2> QED
      BY <1>3, <2>4, <2>5, <2>6 DEF r, s
  <1> QED
    BY <1>2, <1>3 DEF IInv, WorkOK

LEMMA ClaimNoneStep ==
    ASSUME IInv, NEW w \in Workers, ClaimNone(w)
    PROVE  IInv'
  <1> DEFINE t == job[w].clock
  <1>1. job[w] \in Job /\ t \in Nat /\ t <= now /\ now \in Nat /\ NoJob \in Job
    <2>1. NoJob \in Job
      BY CountAssumption DEF NoJob, Job, NoLease
    <2> QED
      BY <2>1, CountAssumption DEF IInv, TypeOK, ClocksOK, ClaimNone, Job
  <1>2. rows' = [j \in Keys |-> Swept(rows[j], t)]
    BY DEF ClaimNone
  <1>3. TypeOK'
    BY <1>1, <1>2, SweptType DEF IInv, TypeOK, ClaimNone, PCs
  <1>4. RowsOK'
    <2> SUFFICES ASSUME NEW k \in Keys
                 PROVE  /\ RowOK(Swept(rows[k], t))
                        /\ Swept(rows[k], t).state = "absent" => claims[k] = 0 /\ retries[k] = 0
                        /\ claims[k] <= MaxAttempts * retries[k] + Swept(rows[k], t).attempts
      BY <1>2 DEF RowsOK, ClaimNone
    <2> HIDE DEF t
    <2>1. rows[k] \in Row /\ RowOK(rows[k])
      BY DEF IInv, TypeOK, RowsOK
    <2>2. /\ RowOK(Swept(rows[k], t))
          /\ Swept(rows[k], t).attempts = rows[k].attempts
          /\ Swept(rows[k], t).state = "absent" <=> rows[k].state = "absent"
      BY <1>1, <2>1, SweptKeeps
    <2> QED
      BY <2>2 DEF IInv, RowsOK
  <1>5. \A v \in Workers : Working(v)' => v # w /\ Working(v)
    BY DEF Working, IInv, TypeOK, ClaimNone
  <1>6. \A v \in Workers : v # w => pc'[v] = pc[v] /\ job'[v] = job[v]
    BY DEF IInv, TypeOK, ClaimNone
  <1>7. ClocksOK'
    BY <1>6 DEF IInv, ClocksOK, TypeOK, ClaimNone
  <1>8. WorkOK'
    <2> SUFFICES ASSUME NEW v \in Workers, Working(v), v # w
                 PROVE  /\ job[v].key \in Keys
                        /\ job[v].ticket \in 1..claims[job[v].key]
                        /\ Leased(v)' \/ ErasedMeanwhile(v)'
                        /\ pc[v] # "reread" =>
                            \/ job[v].held /\ job[v].lease = job[v].ticket
                            \/ ~job[v].held /\ job[v].lease = NoLease /\ ErasedMeanwhile(v)'
      BY <1>5, <1>6 DEF WorkOK, ClaimNone
    <2> HIDE DEF t
    <2>1. job[v].key \in Keys /\ job'[v] = job[v]
      BY <1>6 DEF IInv, WorkOK
    <2>2. rows'[job[v].key] = Swept(rows[job[v].key], t)
      BY <1>2, <2>1
    <2>3. /\ Leased(v)' \/ ErasedMeanwhile(v)'
          /\ ErasedMeanwhile(v) => ErasedMeanwhile(v)'
      BY <1>1, <2>1, <2>2, BusyRow DEF Leased, ErasedMeanwhile
    <2> QED
      BY <2>3 DEF IInv, WorkOK
  <1>9. OneWorkerPerRow'
    BY <1>5, <1>6 DEF IInv, OneWorkerPerRow
  <1>10. MailsOK' /\ FinishOK'
    BY <1>6 DEF IInv, MailsOK, FinishOK, TypeOK, ClaimNone
  <1> QED
    BY <1>3, <1>4, <1>7, <1>8, <1>9, <1>10 DEF IInv

LEMMA ClaimWonStep ==
    ASSUME IInv, NEW w \in Workers, ClaimWon(w)
    PROVE  IInv'
  <1> DEFINE t == job[w].clock
             k == job[w].key
             n == claims[k] + 1
             s == Swept(rows[k], t)
             c == Claimed(s, n, t)
  <1>1. job[w] \in Job /\ t \in Nat /\ t <= now /\ now \in Nat /\ k \in Keys
    BY CountAssumption DEF IInv, TypeOK, ClocksOK, ClaimWon, Wins, Job
  <1>2. job[w].started \in Nat /\ job[w].started <= t
    BY DEF IInv, TypeOK, ClocksOK, ClaimWon, Job
  <1>3. n \in Nat /\ claims[k] \in Nat /\ rows[k] \in Row /\ RowOK(rows[k])
    BY <1>1 DEF IInv, TypeOK, RowsOK
  <1>4. Eligible(s, t) /\ s \in Row /\ s.attempts = rows[k].attempts
    BY <1>1, <1>3, SweptType, SweptKeeps DEF ClaimWon, Wins
  <1>5. /\ c \in Row /\ RowOK(c)
        /\ c.state = "sending" /\ c.held /\ c.lease = n /\ c.until = t + Lease
        /\ c.attempts = rows[k].attempts + 1
    <2> HIDE DEF s, n, t
    <2> QED
      BY <1>1, <1>3, <1>4, ClaimedFacts
  <1>6. /\ rows' = [j \in Keys |-> IF j = k THEN c ELSE Swept(rows[j], t)]
        /\ claims' = [claims EXCEPT ![k] = n]
        /\ job' = [job EXCEPT ![w] = [job[w] EXCEPT !.ticket = n]]
        /\ pc' = [pc EXCEPT ![w] = "reread"]
        /\ UNCHANGED <<now, retries, mails, crashes>>
    BY DEF ClaimWon
  <1>7. job[w].ticket \in Nat /\ pc[w] = "update"
    BY <1>1 DEF Job, ClaimWon
  <1> HIDE DEF c, s, n
  <1>8. \A v \in Workers : v # w => pc'[v] = pc[v] /\ job'[v] = job[v]
    BY <1>6 DEF IInv, TypeOK
  <1>9. /\ pc'[w] = "reread" /\ job'[w] \in Job /\ job'[w].key = k /\ job'[w].ticket = n
        /\ job'[w].started = job[w].started /\ job'[w].clock = t
    BY <1>1, <1>3, <1>6 DEF IInv, TypeOK, Job
  <1>10. \A v \in Workers : Working(v)' <=> v = w \/ Working(v)
    BY <1>6, <1>7, <1>8, <1>9 DEF Working
  <1>11. \A v \in Workers : Working(v) => v # w /\ job[v].key # k
    <2> SUFFICES ASSUME NEW v \in Workers, Working(v), job[v].key = k
                 PROVE  FALSE
      BY <1>7 DEF Working
    <2>1. ~Eligible(Swept(rows[job[v].key], t), t)
      BY <1>1, BusyRow
    <2> QED
      BY <1>4, <2>1 DEF s
  <1>12. TypeOK'
    <2>1. \A j \in Keys : Swept(rows[j], t) \in Row
      BY <1>1, SweptType DEF IInv, TypeOK
    <2>2. rows' \in [Keys -> Row]
      BY <1>5, <1>6, <2>1
    <2>3. job' \in [Workers -> Job]
      BY <1>6, <1>9 DEF IInv, TypeOK
    <2> QED
      BY <1>3, <1>6, <2>2, <2>3 DEF IInv, TypeOK, PCs
  <1>13. RowsOK'
    <2> SUFFICES ASSUME NEW j \in Keys
                 PROVE  /\ RowOK(rows'[j])
                        /\ rows'[j].state = "absent" => claims'[j] = 0 /\ retries[j] = 0
                        /\ claims'[j] <= MaxAttempts * retries[j] + rows'[j].attempts
      BY <1>6 DEF RowsOK
    <2>1. rows[j] \in Row /\ RowOK(rows[j]) /\ claims[j] \in Nat /\ retries[j] \in Nat
      BY CountAssumption DEF IInv, TypeOK, RowsOK
    <2>2. CASE j = k
      <3>1. claims[k] <= MaxAttempts * retries[k] + rows[k].attempts
        BY <1>1 DEF IInv, RowsOK
      <3>2. MaxAttempts * retries[k] \in Nat /\ rows[k].attempts \in Nat
        BY <2>1, <2>2, CountAssumption DEF Row
      <3>3. n <= MaxAttempts * retries[k] + c.attempts
        BY <1>3, <1>5, <3>1, <3>2 DEF n
      <3>4. rows'[j] = c /\ claims'[j] = n
        BY <1>6, <2>2 DEF IInv, TypeOK
      <3> QED
        BY <1>5, <2>2, <3>3, <3>4
    <2>3. CASE j # k
      <3>1. rows'[j] = Swept(rows[j], t) /\ claims'[j] = claims[j]
        BY <1>6, <2>3 DEF IInv, TypeOK
      <3> HIDE DEF t
      <3>2. /\ RowOK(Swept(rows[j], t))
            /\ Swept(rows[j], t).attempts = rows[j].attempts
            /\ Swept(rows[j], t).state = "absent" <=> rows[j].state = "absent"
        BY <1>1, <2>1, SweptKeeps
      <3> QED
        BY <3>1, <3>2 DEF IInv, RowsOK
    <2> QED
      BY <2>2, <2>3
  <1>14. ClocksOK'
    <2> SUFFICES ASSUME NEW v \in Workers, pc'[v] # "idle"
                 PROVE  /\ job'[v].started <= now /\ now <= job'[v].started + TaskLimit
                        /\ pc'[v] # "select" => job'[v].started <= job'[v].clock /\ job'[v].clock <= now
      BY <1>6 DEF ClocksOK
    <2>1. CASE v = w
      BY <1>1, <1>2, <1>7, <1>9, <2>1 DEF IInv, ClocksOK
    <2>2. CASE v # w
      BY <1>8, <2>2 DEF IInv, ClocksOK
    <2> QED
      BY <2>1, <2>2
  <1>15. WorkOK'
    <2> SUFFICES ASSUME NEW v \in Workers, Working(v)'
                 PROVE  /\ job'[v].key \in Keys
                        /\ job'[v].ticket \in 1..claims'[job'[v].key]
                        /\ Leased(v)' \/ ErasedMeanwhile(v)'
                        /\ pc'[v] # "reread" =>
                            \/ job'[v].held /\ job'[v].lease = job'[v].ticket
                            \/ ~job'[v].held /\ job'[v].lease = NoLease /\ ErasedMeanwhile(v)'
      BY DEF WorkOK
    <2>1. CASE v = w
      <3>1. rows'[k] = c /\ claims'[k] = n /\ n \in 1..n
        BY <1>1, <1>3, <1>6 DEF IInv, TypeOK, n
      <3>2. t + Lease >= job[w].started + TaskLimit
        BY <1>1, <1>2, TimeAssumption, LeaseCoversTask
      <3>3. Leased(w)'
        BY <1>5, <1>9, <3>1, <3>2 DEF Leased
      <3> QED
        BY <1>1, <1>9, <2>1, <3>1, <3>3
    <2>2. CASE v # w
      <3>1. Working(v) /\ job[v].key # k /\ job'[v] = job[v] /\ pc'[v] = pc[v]
        BY <1>8, <1>10, <1>11, <2>2
      <3>2. job[v].key \in Keys
        BY <3>1 DEF IInv, WorkOK
      <3>3. rows'[job[v].key] = Swept(rows[job[v].key], t) /\ claims'[job[v].key] = claims[job[v].key]
        BY <1>6, <3>1, <3>2 DEF IInv, TypeOK
      <3> HIDE DEF t, k
      <3>4. /\ Leased(v)' \/ ErasedMeanwhile(v)'
            /\ ErasedMeanwhile(v) => ErasedMeanwhile(v)'
        BY <1>1, <3>1, <3>3, BusyRow DEF Leased, ErasedMeanwhile
      <3> QED
        BY <3>1, <3>2, <3>3, <3>4 DEF IInv, WorkOK
    <2> QED
      BY <2>1, <2>2
  <1>16. OneWorkerPerRow'
    BY <1>8, <1>9, <1>10, <1>11 DEF IInv, OneWorkerPerRow
  <1>17. MailsOK'
    <2>1. \A m \in mails : m[2] \in 1..claims'[m[1]]
      <3> SUFFICES ASSUME NEW m \in mails
                   PROVE  m[2] \in 1..claims'[m[1]]
        OBVIOUS
      <3>1. m[1] \in Keys /\ m[2] \in 1..claims[m[1]]
        BY DEF IInv, MailsOK, TypeOK
      <3>2. claims'[m[1]] \in {claims[m[1]], claims[m[1]] + 1} /\ claims[m[1]] \in Nat
        BY <1>6, <3>1 DEF IInv, TypeOK, n
      <3> QED
        BY <3>1, <3>2
    <2>2. <<k, n>> \notin mails
      <3>1. ~(n \in 1..claims[k])
        BY <1>3 DEF n
      <3>2. <<k, n>> \in mails => n \in 1..claims[k]
        BY DEF IInv, MailsOK
      <3> QED
        BY <3>1, <3>2
    <2> QED
      BY <1>6, <1>8, <1>9, <2>1, <2>2 DEF IInv, MailsOK
  <1>18. FinishOK'
    BY <1>8, <1>9 DEF IInv, FinishOK
  <1> QED
    BY <1>12, <1>13, <1>14, <1>15, <1>16, <1>17, <1>18 DEF IInv

LEMMA RereadStep ==
    ASSUME IInv, NEW w \in Workers, Reread(w)
    PROVE  IInv'
  <1> DEFINE r == rows[job[w].key]
             j == [job[w] EXCEPT !.lease = r.lease, !.attempts = r.attempts, !.held = r.held]
  <1>1. Working(w) /\ job[w] \in Job /\ job[w].key \in Keys /\ r \in Row
    BY DEF IInv, TypeOK, WorkOK, Reread, Working
  <1>2. /\ j \in Job /\ j.key = job[w].key /\ j.ticket = job[w].ticket
        /\ j.started = job[w].started /\ j.clock = job[w].clock
        /\ j.lease = r.lease /\ j.held = r.held
    BY <1>1 DEF Job, Row
  <1>3. /\ job' = [job EXCEPT ![w] = j] /\ pc' = [pc EXCEPT ![w] = "deliver"]
        /\ pc[w] = "reread" /\ UNCHANGED <<now, rows, claims, retries, mails, crashes>>
    BY DEF Reread
  <1> HIDE DEF j
  <1>4. /\ \A v \in Workers : v # w => pc'[v] = pc[v] /\ job'[v] = job[v]
        /\ pc'[w] = "deliver" /\ job'[w] = j
    BY <1>3 DEF IInv, TypeOK
  <1>5. TypeOK'
    BY <1>2, <1>3 DEF IInv, TypeOK, PCs
  <1>6. WorkOK'
    <2> SUFFICES ASSUME NEW v \in Workers, Working(v)'
                 PROVE  /\ job'[v].key \in Keys
                        /\ job'[v].ticket \in 1..claims'[job'[v].key]
                        /\ Leased(v)' \/ ErasedMeanwhile(v)'
                        /\ pc'[v] # "reread" =>
                            \/ job'[v].held /\ job'[v].lease = job'[v].ticket
                            \/ ~job'[v].held /\ job'[v].lease = NoLease /\ ErasedMeanwhile(v)'
      BY DEF WorkOK
    <2>1. CASE v = w
      <3>1. /\ Leased(w) => Leased(w)' /\ j.held /\ j.lease = j.ticket
            /\ ErasedMeanwhile(w) => ErasedMeanwhile(w)' /\ ~j.held /\ j.lease = NoLease
        BY <1>2, <1>3, <1>4 DEF Leased, ErasedMeanwhile
      <3> HIDE DEF r
      <3> QED
        BY <1>1, <1>2, <1>3, <1>4, <2>1, <3>1 DEF IInv, WorkOK
    <2>2. CASE v # w
      BY <1>3, <1>4, <2>2 DEF IInv, WorkOK, Working, Leased, ErasedMeanwhile
    <2> QED
      BY <2>1, <2>2
  <1>7. ClocksOK'
    BY <1>2, <1>3, <1>4 DEF IInv, ClocksOK
  <1>8. OneWorkerPerRow'
    BY <1>1, <1>2, <1>4 DEF IInv, OneWorkerPerRow, Working
  <1>9. MailsOK' /\ FinishOK'
    BY <1>2, <1>3, <1>4 DEF IInv, MailsOK, FinishOK
  <1> QED
    BY <1>3, <1>5, <1>6, <1>7, <1>8, <1>9 DEF IInv, RowsOK

\* Skip, DecryptFails and Send differ in their outcome and in the hand-off only.
LEMMA OutcomeStep ==
    ASSUME IInv, NEW w \in Workers, pc[w] = "deliver",
           NEW o \in {"sent", "skipped", "failed"}, Outcome(w, o),
           mails' = mails \/ mails' = mails \cup {<<job[w].key, job[w].ticket>>}
    PROVE  IInv'
  <1> DEFINE j == [job[w] EXCEPT !.outcome = o]
  <1>1. /\ Working(w) /\ job[w] \in Job /\ job[w].key \in Keys
        /\ job[w].ticket \in 1..claims[job[w].key] /\ claims[job[w].key] \in Nat
    BY DEF IInv, TypeOK, WorkOK, Working
  <1>2. /\ j \in Job /\ j.key = job[w].key /\ j.ticket = job[w].ticket
        /\ j.started = job[w].started /\ j.clock = job[w].clock
        /\ j.lease = job[w].lease /\ j.held = job[w].held /\ j.outcome = o
    BY <1>1 DEF Job
  <1>3. /\ job' = [job EXCEPT ![w] = j] /\ pc' = [pc EXCEPT ![w] = "finish"]
        /\ UNCHANGED <<now, rows, claims, retries, crashes>>
    BY DEF Outcome
  <1> HIDE DEF j
  <1>4. /\ \A v \in Workers : v # w => pc'[v] = pc[v] /\ job'[v] = job[v]
        /\ pc'[w] = "finish" /\ job'[w] = j
    BY <1>3 DEF IInv, TypeOK
  <1>5. TypeOK'
    BY <1>1, <1>2, <1>3 DEF IInv, TypeOK, PCs
  <1>6. WorkOK'
    BY <1>1, <1>2, <1>3, <1>4 DEF IInv, WorkOK, Working, Leased, ErasedMeanwhile
  <1>7. ClocksOK' /\ FinishOK'
    BY <1>2, <1>3, <1>4 DEF IInv, ClocksOK, FinishOK
  <1>8. OneWorkerPerRow'
    BY <1>1, <1>2, <1>4 DEF IInv, OneWorkerPerRow, Working
  <1>9. MailsOK'
    <2>1. \A v \in Workers : pc'[v] \in {"reread", "deliver"} =>
            v # w /\ job'[v] = job[v] /\ pc'[v] = pc[v] /\ job[v].key # job[w].key
      BY <1>1, <1>4 DEF IInv, OneWorkerPerRow, Working
    <2> QED
      BY <1>1, <1>3, <2>1 DEF IInv, MailsOK
  <1> QED
    BY <1>3, <1>5, <1>6, <1>7, <1>8, <1>9 DEF IInv, RowsOK

LEMMA FinishStep ==
    ASSUME IInv, NEW w \in Workers, Finish(w)
    PROVE  IInv'
  <1> DEFINE k == job[w].key
             r == rows[k]
             f == Finished(r, job[w], now)
             p == IF More(w) THEN "select" ELSE "idle"
             j == IF More(w) THEN [NoJob EXCEPT !.round = job[w].round + 1, !.started = job[w].started]
                  ELSE NoJob
  <1>1. /\ Working(w) /\ job[w] \in Job /\ k \in Keys /\ r \in Row /\ RowOK(r)
        /\ now \in Nat /\ job[w].outcome # "none"
    BY CountAssumption DEF IInv, TypeOK, RowsOK, WorkOK, Working, Finish, FinishOK
  <1>2. (Leased(w) \/ ErasedMeanwhile(w)) /\ ~(r.state \in {"failed", "absent"})
    BY <1>1 DEF IInv, WorkOK, Leased, ErasedMeanwhile
  <1>3. /\ f \in Row /\ RowOK(f) /\ f.attempts = r.attempts /\ f.state # "absent"
    <2> HIDE DEF r
    <2> QED
      BY <1>1, <1>2, FinishedFacts
  <1>4. p \in {"idle", "select"} /\ j \in Job /\ (p # "idle" => j.started = job[w].started)
    <2>1. NoJob \in Job
      BY CountAssumption DEF NoJob, Job, NoLease
    <2>2. More(w) => job[w].round + 1 \in 0..Batch /\ job[w].started \in Nat
      BY <1>1, CountAssumption DEF More, Job
    <2> QED
      BY <2>1, <2>2 DEF Job
  <1>5. /\ rows' = [rows EXCEPT ![k] = f]
        /\ job' = [job EXCEPT ![w] = j] /\ pc' = [pc EXCEPT ![w] = p]
        /\ pc[w] = "finish" /\ UNCHANGED <<now, claims, retries, mails, crashes>>
    BY DEF Finish
  <1> HIDE DEF f, p, j
  <1>6. /\ \A v \in Workers : v # w => pc'[v] = pc[v] /\ job'[v] = job[v]
        /\ pc'[w] = p /\ job'[w] = j
    BY <1>5 DEF IInv, TypeOK
  <1>7. \A v \in Workers : Working(v)' => v # w /\ Working(v) /\ job[v].key # k
    BY <1>1, <1>4, <1>6 DEF IInv, OneWorkerPerRow, Working
  <1>8. TypeOK'
    BY <1>3, <1>4, <1>5 DEF IInv, TypeOK, PCs
  <1>9. RowsOK'
    <2> SUFFICES ASSUME NEW i \in Keys
                 PROVE  /\ RowOK(rows'[i])
                        /\ rows'[i].state = "absent" => claims[i] = 0 /\ retries[i] = 0
                        /\ claims[i] <= MaxAttempts * retries[i] + rows'[i].attempts
      BY <1>5 DEF RowsOK
    <2>1. rows'[i] = IF i = k THEN f ELSE rows[i]
      BY <1>5 DEF IInv, TypeOK
    <2> QED
      BY <1>1, <1>3, <2>1 DEF IInv, RowsOK
  <1>10. WorkOK'
    BY <1>5, <1>6, <1>7 DEF IInv, TypeOK, WorkOK, Leased, ErasedMeanwhile, Working
  <1>11. ClocksOK'
    BY <1>4, <1>5, <1>6 DEF IInv, ClocksOK
  <1>12. OneWorkerPerRow'
    BY <1>6, <1>7 DEF IInv, OneWorkerPerRow
  <1>13. MailsOK' /\ FinishOK'
    BY <1>4, <1>5, <1>6 DEF IInv, MailsOK, FinishOK
  <1> QED
    BY <1>8, <1>9, <1>10, <1>11, <1>12, <1>13 DEF IInv

LEMMA NextIInv == IInv /\ [Next]_vars => IInv'
  <1> SUFFICES ASSUME IInv, [Next]_vars
               PROVE  IInv'
    OBVIOUS
  <1>1. ASSUME NEW k \in Keys, Enqueue(k) \/ Retry(k)
        PROVE  IInv'
    BY <1>1, EnqueueStep, RetryStep
  <1>2. ASSUME NEW w \in Workers, StartDrain(w) \/ ClaimSelect(w)
        PROVE  IInv'
    BY <1>2, StartDrainStep, ClaimSelectStep
  <1>3. ASSUME NEW w \in Workers, ClaimWon(w) \/ ClaimNone(w) \/ Reread(w) \/ Finish(w)
        PROVE  IInv'
    BY <1>3, ClaimWonStep, ClaimNoneStep, RereadStep, FinishStep
  <1>4. ASSUME NEW w \in Workers, Skip(w) \/ DecryptFails(w) \/ Send(w)
        PROVE  IInv'
    BY <1>4, OutcomeStep DEF Skip, DecryptFails, Send
  <1>5. ASSUME NEW w \in Workers, Crash(w) \/ HardTimeLimit(w)
        PROVE  IInv'
    <2>1. crashes' \in 0..MaxCrashes
      BY <1>5, CountAssumption DEF IInv, TypeOK, Crash, HardTimeLimit
    <2> QED
      BY <1>5, <2>1, AbandonStep DEF Crash, HardTimeLimit
  <1>6. CASE Tick
    BY <1>6, TickStep
  <1>7. CASE UNCHANGED vars
    BY <1>7 DEF vars, IInv, TypeOK, RowsOK, ClocksOK, WorkOK, Working, Leased, ErasedMeanwhile,
                OneWorkerPerRow, MailsOK, FinishOK
  <1> QED
    BY <1>1, <1>2, <1>3, <1>4, <1>5, <1>6, <1>7 DEF Next, Step

LEMMA Invariance == SafeSpec => []IInv
  BY InitIInv, NextIInv, PTL DEF SafeSpec
-----------------------------------------------------------------------------
\* Every variable of the outbox keeps its type.
THEOREM TypeCorrect == Spec => []TypeOK
  <1>1. IInv => TypeOK
    BY DEF IInv
  <1> QED
    BY <1>1, Invariance, PTL DEF Spec

\* A notification is claimed at most MaxAttempts times for its reservation and
\* for each operator retry (claim, retry in models/notification.py).
THEOREM BoundedClaims == Spec => []ClaimBudget
  <1>1. IInv => ClaimBudget
    <2> SUFFICES ASSUME IInv, NEW k \in Keys
                 PROVE  claims[k] <= MaxAttempts * (retries[k] + 1)
      BY DEF ClaimBudget
    <2>1. /\ claims[k] \in Nat /\ retries[k] \in Nat /\ rows[k].attempts \in 0..MaxAttempts
          /\ claims[k] <= MaxAttempts * retries[k] + rows[k].attempts
      BY DEF IInv, TypeOK, RowsOK, Row
    <2>2. /\ MaxAttempts * (retries[k] + 1) = MaxAttempts * retries[k] + MaxAttempts
          /\ MaxAttempts * retries[k] \in Nat
      BY <2>1, CountAssumption
    <2> QED
      BY <2>1, <2>2, CountAssumption
  <1> QED
    BY <1>1, Invariance, PTL DEF Spec

\* As long as the task limit does not exceed the lease, no two workers ever
\* process one notification at the same time.
THEOREM ExclusiveWork == Spec => []OneWorkerPerRow
  <1>1. IInv => OneWorkerPerRow
    BY DEF IInv
  <1> QED
    BY <1>1, Invariance, PTL DEF Spec

\* deliver_notifications hands a claim's message to SMTP at most once.
THEOREM SingleHandOff == Spec => OneMailPerClaim
  <1>1. IInv /\ [Next]_vars =>
          [\A w \in Workers : Send(w) => <<job[w].key, job[w].ticket>> \notin mails]_vars
    BY DEF IInv, MailsOK, Send
  <1> QED
    BY <1>1, Invariance, PTL DEF Spec, SafeSpec, OneMailPerClaim

\* What a step can do to a row whose delivery is recorded: nothing.
LEMMA DeliveredStep ==
    ASSUME IInv, [Next]_vars, NEW k \in Keys, rows[k].state \in {"sent", "skipped"}
    PROVE  rows'[k] = rows[k]
  <1>1. rows[k] \in Row /\ RowOK(rows[k]) /\ ~rows[k].held
    BY DEF IInv, TypeOK, RowsOK, RowOK
  <1>2. \A t \in Nat : Swept(rows[k], t) = rows[k] /\ ~Eligible(Swept(rows[k], t), t)
    BY <1>1, SweptKeeps DEF Eligible
  <1>3. ASSUME NEW i \in Keys, Enqueue(i) \/ Retry(i)
        PROVE  rows'[k] = rows[k]
    BY <1>3 DEF Enqueue, Retry, IInv, TypeOK
  <1>4. ASSUME NEW w \in Workers, ClaimWon(w) \/ ClaimNone(w)
        PROVE  rows'[k] = rows[k]
    <2>1. job[w].clock \in Nat
      BY DEF IInv, TypeOK, Job
    <2> QED
      BY <1>2, <1>4, <2>1 DEF ClaimWon, ClaimNone, Wins
  <1>5. ASSUME NEW w \in Workers, Finish(w)
        PROVE  rows'[k] = rows[k]
    <2>1. job[w].key # k
      BY <1>5 DEF IInv, WorkOK, Working, Finish, Leased, ErasedMeanwhile
    <2> QED
      BY <1>5, <2>1 DEF Finish, IInv, TypeOK
  <1>6. ASSUME NEW w \in Workers,
               \/ StartDrain(w) \/ ClaimSelect(w) \/ Reread(w) \/ Skip(w) \/ DecryptFails(w)
               \/ Send(w) \/ Crash(w) \/ HardTimeLimit(w)
        PROVE  rows'[k] = rows[k]
    BY <1>6 DEF StartDrain, ClaimSelect, Reread, Skip, DecryptFails, Send, Outcome, Crash,
                HardTimeLimit, Abandon
  <1> QED
    BY <1>3, <1>4, <1>5, <1>6 DEF Next, Step, Tick, vars

\* finish: a recorded delivery, or skip, is never changed again.
THEOREM DeliveryIsFinal == Spec => DeliveredIsFinal
  <1>1. IInv /\ [Next]_vars =>
          [\A k \in Keys : rows[k].state \in {"sent", "skipped"} => rows'[k] = rows[k]]_rows
    BY DeliveredStep
  <1> QED
    BY <1>1, Invariance, PTL DEF Spec, SafeSpec, DeliveredIsFinal

\* A step that adds a claim is made by a scan that read the clock before the
\* row's deadline.
LEMMA ClaimStep ==
    ASSUME IInv, Next, NEW k \in Keys, claims'[k] # claims[k]
    PROVE  \E w \in Workers : /\ pc[w] = "update" /\ pc'[w] = "reread"
                              /\ job[w].key = k /\ job[w].clock < rows[k].expires
  <1>1. PICK w \in Workers : ClaimWon(w)
    BY DEF Next, Step, Enqueue, Retry, StartDrain, ClaimSelect, ClaimNone, Reread, Skip,
           DecryptFails, Send, Outcome, Finish, Crash, HardTimeLimit, Abandon, Tick
  <1>2. pc[w] = "update" /\ pc'[w] = "reread" /\ job[w].key = k /\ job[w].clock \in Nat
    BY <1>1 DEF ClaimWon, IInv, TypeOK, Job
  <1>3. Eligible(Swept(rows[k], job[w].clock), job[w].clock)
    BY <1>1, <1>2 DEF ClaimWon, Wins
  <1>4. rows[k] \in Row
    BY DEF IInv, TypeOK
  <1>5. job[w].clock < rows[k].expires
    BY <1>2, <1>3, <1>4 DEF Swept, Expired, Eligible, Row
  <1> QED
    BY <1>2, <1>5

\* claim: a row whose deadline the scan's clock has reached is never claimed.
THEOREM ClaimsMeetDeadline == Spec => NoClaimPastDeadline
  <1>1. IInv /\ [Next]_vars =>
          [\A k \in Keys : claims'[k] # claims[k] =>
              \E w \in Workers : /\ pc[w] = "update" /\ pc'[w] = "reread"
                                 /\ job[w].key = k /\ job[w].clock < rows[k].expires]_vars
    BY ClaimStep
  <1> QED
    BY <1>1, Invariance, PTL DEF Spec, SafeSpec, NoClaimPastDeadline

-----------------------------------------------------------------------------
\* Every step of the outbox is a step of RetainedMail, or a stutter.

\* What a sweep does to a row shows in its phase only as an erasure.
LEMMA SweptPhase ==
    ASSUME NEW r \in Row, NEW t \in Nat, RowOK(r)
    PROVE  Phase(Swept(r, t)) = IF Expired(r, t) THEN "erased" ELSE Phase(r)
  BY DEF Phase, Swept, Row, RowStates, RowOK, NoLease, Expired, Exhausted, Free

LEMMA InitPromise == Init => Promise!AInit
  BY DEF Init, Promise!AInit, PhaseBar, BudgetBar, Phase, Absent

\* The recipients that a scan on clock t erases.
Erased(t) == {j \in Keys : Expired(rows[j], t)}

LEMMA ScanPhase ==
    ASSUME IInv, NEW t \in Nat
    PROVE  /\ Erased(t) \in SUBSET Promise!Retained
           /\ \A j \in Keys : Phase(Swept(rows[j], t)) = IF j \in Erased(t) THEN "erased"
                                                         ELSE PhaseBar[j]
           /\ \A j \in Keys : (Swept(rows[j], t).state = "absent") = (rows[j].state = "absent")
  <1>1. \A j \in Keys : rows[j] \in Row /\ RowOK(rows[j])
    BY DEF IInv, TypeOK, RowsOK
  <1>2. Erased(t) \in SUBSET Promise!Retained
    BY <1>1 DEF Erased, Expired, Promise!Retained, PhaseBar, Phase, RowOK
  <1>3. \A j \in Keys : Phase(Swept(rows[j], t)) = IF j \in Erased(t) THEN "erased"
                                                   ELSE PhaseBar[j]
    BY <1>1, SweptPhase DEF Erased, PhaseBar
  <1>4. \A j \in Keys : (Swept(rows[j], t).state = "absent") = (rows[j].state = "absent")
    BY <1>1, SweptKeeps
  <1> QED
    BY <1>2, <1>3, <1>4

LEMMA EnqueuePromise ==
    ASSUME IInv, NEW k \in Keys, Enqueue(k)
    PROVE  Promise!Reserve(k)
  <1>1. rows' = [rows EXCEPT ![k] = NewRow(now)] /\ retries[k] = 0 /\ rows[k].state = "absent"
        /\ UNCHANGED <<claims, retries>>
    BY DEF Enqueue, IInv, RowsOK
  <1>2. NewRow(now).state = "pending" /\ NewRow(now).held
    BY DEF NewRow
  <1>3. \A j \in Keys : rows'[j] = IF j = k THEN NewRow(now) ELSE rows[j]
    BY <1>1 DEF IInv, TypeOK
  <1>4. PhaseBar' = [PhaseBar EXCEPT ![k] = "retained"] /\ PhaseBar[k] = "unknown"
    BY <1>1, <1>2, <1>3 DEF PhaseBar, Phase
  <1>5. BudgetBar' = [BudgetBar EXCEPT ![k] = 1]
    <2>1. retries'[k] + 1 = 1 /\ rows'[k].state # "absent"
      BY <1>1, <1>2, <1>3
    <2>2. \A j \in Keys : j # k => rows'[j] = rows[j] /\ retries'[j] = retries[j]
      BY <1>1, <1>3
    <2>3. \A j \in Keys : BudgetBar'[j] = IF j = k THEN 1 ELSE BudgetBar[j]
      BY <2>1, <2>2 DEF BudgetBar
    <2> QED
      BY <2>3 DEF BudgetBar
  <1> QED
    BY <1>1, <1>4, <1>5 DEF Promise!Reserve

LEMMA RetryPromise ==
    ASSUME IInv, NEW k \in Keys, Retry(k)
    PROVE  Promise!Grant(k)
  <1> DEFINE r == [rows[k] EXCEPT !.state = "pending", !.attempts = 0, !.available = now,
                                  !.lease = NoLease, !.until = 0]
  <1>1. /\ rows' = [rows EXCEPT ![k] = r] /\ retries' = [retries EXCEPT ![k] = @ + 1]
        /\ rows[k].state = "failed" /\ rows[k].held /\ UNCHANGED claims
    BY DEF Retry
  <1>2. r.state = "pending" /\ r.held
    BY <1>1 DEF IInv, TypeOK, Row
  <1> HIDE DEF r
  <1>3. \A j \in Keys : /\ rows'[j] = IF j = k THEN r ELSE rows[j]
                        /\ retries'[j] = IF j = k THEN retries[k] + 1 ELSE retries[j]
    BY <1>1 DEF IInv, TypeOK
  <1>4. PhaseBar' = PhaseBar /\ PhaseBar[k] = "retained"
    BY <1>1, <1>2, <1>3 DEF PhaseBar, Phase
  <1>5. BudgetBar' = [BudgetBar EXCEPT ![k] = @ + 1]
    <2>1. BudgetBar'[k] = BudgetBar[k] + 1
      BY <1>1, <1>2, <1>3 DEF BudgetBar
    <2>2. \A j \in Keys : j # k => BudgetBar'[j] = BudgetBar[j]
      BY <1>3 DEF BudgetBar
    <2> HIDE DEF r
    <2> QED
      BY <2>1, <2>2 DEF BudgetBar
  <1> QED
    BY <1>1, <1>4, <1>5 DEF Promise!Grant

LEMMA ClaimPromise ==
    ASSUME IInv, NEW w \in Workers, ClaimWon(w)
    PROVE  Promise!Try
  <1> DEFINE t == job[w].clock
             k == job[w].key
             s == Swept(rows[k], t)
             c == Claimed(s, claims[k] + 1, t)
  <1>1. /\ rows' = [j \in Keys |-> IF j = k THEN c ELSE Swept(rows[j], t)]
        /\ claims' = [claims EXCEPT ![k] = @ + 1] /\ Eligible(s, t)
        /\ t \in Nat /\ k \in Keys /\ UNCHANGED retries
    BY DEF ClaimWon, Wins, IInv, TypeOK, Job
  <1>2. /\ claims[k] \in Nat /\ retries[k] \in Nat /\ rows[k] \in Row /\ RowOK(rows[k])
        /\ claims[k] <= MaxAttempts * retries[k] + rows[k].attempts
    BY <1>1 DEF IInv, TypeOK, RowsOK
  <1>3. s \in Row /\ s.attempts = rows[k].attempts /\ s.attempts < MaxAttempts /\ s.held
    BY <1>1, <1>2, SweptType, SweptKeeps DEF Eligible
  <1>4. c.state = "sending" /\ c.held
    <2> HIDE DEF s, t
    <2> QED
      BY <1>1, <1>2, <1>3, ClaimedFacts
  <1>5. Phase(s) = "retained" /\ PhaseBar[k] = "retained" /\ k \notin Erased(t)
        /\ rows[k].state # "absent"
    <2>1. Phase(s) \in {"retained", "unknown"} /\ RowOK(s)
      BY <1>1, <1>2, <1>3, SweptKeeps DEF Phase
    <2>2. Phase(s) = "retained" /\ s.state # "absent"
      BY <1>3, <2>1 DEF RowOK, Phase
    <2> HIDE DEF t, k
    <2>3. Phase(s) = IF k \in Erased(t) THEN "erased" ELSE PhaseBar[k]
      BY <1>1, ScanPhase
    <2>4. (s.state = "absent") = (rows[k].state = "absent")
      BY <1>1, ScanPhase
    <2> QED
      BY <2>2, <2>3, <2>4
  <1>6. PhaseBar' = [j \in Keys |-> IF j \in Erased(t) THEN "erased" ELSE PhaseBar[j]]
    <2> HIDE DEF t, k
    <2> SUFFICES ASSUME NEW j \in Keys
                 PROVE  Phase(rows'[j]) = IF j \in Erased(t) THEN "erased" ELSE PhaseBar[j]
      BY DEF PhaseBar
    <2>1. CASE j = k
      <3>1. rows'[j] = c
        BY <1>1, <2>1
      <3> QED
        BY <1>4, <1>5, <2>1, <3>1 DEF Phase
    <2>2. CASE j # k
      <3>1. rows'[j] = Swept(rows[j], t)
        BY <1>1, <2>2
      <3> QED
        BY <1>1, <3>1, ScanPhase
    <2> QED
      BY <2>1, <2>2
  <1>7. BudgetBar' = BudgetBar
    <2> HIDE DEF t, k, c
    <2>1. \A j \in Keys : (rows'[j].state = "absent") = (rows[j].state = "absent")
      BY <1>1, <1>4, <1>5, ScanPhase
    <2> QED
      BY <1>1, <2>1 DEF BudgetBar
  <1>8. claims[k] < MaxAttempts * BudgetBar[k]
    <2>1. /\ MaxAttempts * (retries[k] + 1) = MaxAttempts * retries[k] + MaxAttempts
          /\ MaxAttempts * retries[k] \in Nat /\ rows[k].attempts \in Nat
      BY <1>2, CountAssumption DEF Row
    <2>2. claims[k] < MaxAttempts * (retries[k] + 1)
      BY <1>2, <1>3, <2>1, CountAssumption
    <2> QED
      BY <1>1, <1>5, <2>2 DEF BudgetBar
  <1>9. Promise!TryAndErase(k, Erased(t))
    BY <1>1, <1>5, <1>6, <1>7, <1>8 DEF Promise!TryAndErase
  <1> QED
    BY <1>1, <1>9, ScanPhase DEF Promise!Try

LEMMA SweepPromise ==
    ASSUME IInv, NEW w \in Workers, ClaimNone(w)
    PROVE  Promise!Erase \/ UNCHANGED <<PhaseBar, claims, BudgetBar>>
  <1> DEFINE t == job[w].clock
  <1>1. rows' = [j \in Keys |-> Swept(rows[j], t)] /\ t \in Nat /\ UNCHANGED <<claims, retries>>
    BY DEF ClaimNone, IInv, TypeOK, Job
  <1> HIDE DEF t
  <1>2. PhaseBar' = [j \in Keys |-> IF j \in Erased(t) THEN "erased" ELSE PhaseBar[j]]
    BY <1>1, ScanPhase DEF PhaseBar
  <1>3. BudgetBar' = BudgetBar
    BY <1>1, ScanPhase DEF BudgetBar
  <1>4. CASE Erased(t) = {}
    <2>1. PhaseBar' = PhaseBar
      BY <1>2, <1>4 DEF PhaseBar
    <2> QED
      BY <1>1, <1>3, <2>1
  <1>5. CASE Erased(t) # {}
    BY <1>1, <1>2, <1>3, <1>5, ScanPhase DEF Promise!Erase
  <1> QED
    BY <1>4, <1>5

LEMMA FinishPromise ==
    ASSUME IInv, NEW w \in Workers, Finish(w)
    PROVE  Promise!Erase \/ UNCHANGED <<PhaseBar, claims, BudgetBar>>
  <1> DEFINE k == job[w].key
             f == Finished(rows[k], job[w], now)
  <1>1. /\ k \in Keys /\ rows[k] \in Row /\ RowOK(rows[k]) /\ job[w] \in Job
        /\ now \in Nat /\ job[w].outcome # "none" /\ rows[k].state # "absent"
    BY CountAssumption DEF IInv, TypeOK, RowsOK, WorkOK, Working, Finish, FinishOK, Leased,
                           ErasedMeanwhile
  <1>2. rows' = [rows EXCEPT ![k] = f] /\ UNCHANGED <<claims, retries>>
    BY DEF Finish
  <1>3. f.state # "absent" /\ f.held \in {rows[k].held, FALSE}
    <2>1. f.state # "absent"
      BY <1>1, FinishedFacts
    <2>2. f.held \in {rows[k].held, FALSE}
      BY <1>1 DEF Finished, Row
    <2> QED
      BY <2>1, <2>2
  <1> HIDE DEF f
  <1>4. \A j \in Keys : rows'[j] = IF j = k THEN f ELSE rows[j]
    BY <1>2 DEF IInv, TypeOK
  <1>5. BudgetBar' = BudgetBar
    BY <1>1, <1>2, <1>3, <1>4 DEF BudgetBar
  <1>6. CASE f.held = rows[k].held
    <2>1. PhaseBar' = PhaseBar
      BY <1>1, <1>3, <1>4, <1>6 DEF PhaseBar, Phase
    <2> QED
      BY <1>2, <1>5, <2>1
  <1>7. CASE f.held # rows[k].held
    <2>1. ~f.held /\ rows[k].held
      BY <1>1, <1>3, <1>7 DEF Row
    <2>2. {k} \in SUBSET Promise!Retained
      BY <1>1, <2>1 DEF Promise!Retained, PhaseBar, Phase
    <2>3. PhaseBar' = [j \in Keys |-> IF j \in {k} THEN "erased" ELSE PhaseBar[j]]
      BY <1>1, <1>3, <1>4, <2>1 DEF PhaseBar, Phase
    <2> QED
      BY <1>2, <1>5, <2>2, <2>3 DEF Promise!Erase
  <1> QED
    BY <1>6, <1>7

LEMMA StepPromise == IInv /\ [Next]_vars => [Promise!ANext]_(Promise!avars)
  <1> SUFFICES ASSUME IInv, [Next]_vars
               PROVE  Promise!ANext \/ UNCHANGED <<PhaseBar, claims, BudgetBar>>
    BY DEF Promise!avars
  <1>1. ASSUME NEW k \in Keys, Enqueue(k) \/ Retry(k)
        PROVE  Promise!ANext
    BY <1>1, EnqueuePromise, RetryPromise DEF Promise!ANext
  <1>2. ASSUME NEW w \in Workers, ClaimWon(w) \/ ClaimNone(w) \/ Finish(w)
        PROVE  Promise!ANext \/ UNCHANGED <<PhaseBar, claims, BudgetBar>>
    BY <1>2, ClaimPromise, SweepPromise, FinishPromise DEF Promise!ANext
  <1>3. ASSUME UNCHANGED <<rows, claims, retries>>
        PROVE  UNCHANGED <<PhaseBar, claims, BudgetBar>>
    BY <1>3 DEF PhaseBar, BudgetBar
  <1>4. ASSUME NEW w \in Workers,
               \/ StartDrain(w) \/ ClaimSelect(w) \/ Reread(w) \/ Skip(w) \/ DecryptFails(w)
               \/ Send(w) \/ Crash(w) \/ HardTimeLimit(w)
        PROVE  UNCHANGED <<rows, claims, retries>>
    BY <1>4 DEF StartDrain, ClaimSelect, Reread, Skip, DecryptFails, Send, Outcome, Crash,
                HardTimeLimit, Abandon
  <1>5. CASE Tick \/ UNCHANGED vars
    BY <1>3, <1>5 DEF Tick, vars
  <1> QED
    BY <1>1, <1>2, <1>3, <1>4, <1>5 DEF Next, Step

\* The leased, crash-prone outbox does nothing that its promise does not allow:
\* one reservation per key, a bounded number of tries per budget, and no
\* recipient that comes back after an erasure.
THEOREM ImplementsPromise == Spec => Promise!SafeSpec
  BY InitPromise, StepPromise, Invariance, PTL DEF Spec, SafeSpec, Promise!SafeSpec
=============================================================================
