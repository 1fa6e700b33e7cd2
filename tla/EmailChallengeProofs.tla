----------------------- MODULE EmailChallengeProofs -----------------------
(***************************************************************************)
(* Proofs about EmailChallenge for every number of requests, every limit   *)
(* and every lifetime.                                                     *)
(***************************************************************************)
EXTENDS EmailChallenge, TLAPS

\* Redis holds live keys only.
LiveKeys == \A k \in RedisKeys : store[k] = Nil \/ store[k].until > now

\* What a request about to EXEC has found: no lock and, when it issues a code, a
\* cooldown all but over, a budget not used up and its remaining life.
SeenOK ==
    \A p \in Requests : pc[p] = "exec" =>
        LET s == job[p].seen
        IN  /\ s["failures"].v < AttemptLimit
            /\ job[p].op = "issue" =>
                /\ s["cooldown"] = Nil \/ s["cooldown"].until <= now + 1
                /\ s["budget"].v < RequestLimit
                /\ job[p].ttl = 0 \/ s["budget"].until <= now + job[p].ttl
                /\ s["budget"] = Nil => job[p].ttl = 0

\* The failure count is the number of wrong answers it stands for.
CountOK ==
    /\ store["failures"] # Nil => wrong = store["failures"].v
    /\ BoundedGuesses

\* n codes have been issued, one after the other.
Ordered(n) ==
    /\ Issued = 1..n
    /\ used \subseteq 1..n
    /\ \A c \in 1..n : issuedAt[c] <= now
    /\ \A c, d \in 1..n : c <= d => issuedAt[c] <= issuedAt[d]

\* The live challenge is the latest code, not consumed, with its own expiry.
Latest(n) ==
    \/ store["challenge"] = Nil
    \/ /\ n \in Codes /\ n \notin used
       /\ store["challenge"] = [v |-> n, until |-> issuedAt[n] + ChallengeTtl]

\* A cooldown covers every code issued less than Cooldown ago.
Paused(n) ==
    \A c \in 1..n : \/ issuedAt[c] + Cooldown <= now
                    \/ store["cooldown"].until >= issuedAt[c] + Cooldown

\* The budget counts the codes of its window: the opener and those after it.
Opener(n) == n - store["budget"].v + 1

Budgeted(n) ==
    IF store["budget"] = Nil
    THEN \A c \in 1..n : c + RequestLimit <= n => issuedAt[c] + RequestWindow <= now
    ELSE /\ store["budget"].v \in 1..RequestLimit
         /\ Opener(n) \in 1..n
         /\ issuedAt[Opener(n)] + RequestWindow <= store["budget"].until
         /\ \A c \in 1..n : c + RequestLimit < Opener(n) =>
                issuedAt[c] + RequestWindow <= issuedAt[Opener(n)]

CodesOK ==
    \E n \in 0..MaxCodes : Ordered(n) /\ Latest(n) /\ Paused(n) /\ Budgeted(n)

IInv ==
    /\ TypeOK
    /\ LiveKeys
    /\ SeenOK
    /\ LockedHasNoCode
    /\ CountOK
    /\ CodesOK
    /\ Spacing
    /\ HourlyBudget
-----------------------------------------------------------------------------
\* The inductive invariant.

LEMMA NilFacts == Nil \in Entry /\ Nil.v = 0 /\ Nil.until = 0
  BY DEF Nil, Entry

LEMMA NoJobType == NoJob \in Job /\ NoJob.op = "issue" /\ NoJob.tries = 1
  <1>1. [k \in RedisKeys |-> Nil] \in [RedisKeys -> Entry]
    BY NilFacts
  <1>2. 1 \in 1..MaxTries /\ 0 \in 0..MaxCodes
    BY LimitAssumption
  <1> QED
    BY <1>1, <1>2 DEF NoJob, Job, Ops

LEMMA TtlFacts ==
    ASSUME NEW k \in RedisKeys, store[k] \in Entry, now \in Nat,
           store[k] = Nil \/ store[k].until > now, NEW ttl \in Ttl(k)
    PROVE  /\ ttl \in Nat
           /\ ttl = 0 => store[k] = Nil \/ store[k].until = now + 1
           /\ ttl = 0 \/ store[k].until = now + ttl
  <1>1. store[k].until \in Nat
    BY DEF Entry
  <1> QED
    BY <1>1, NilFacts DEF Ttl

LEMMA InitIInv == Init => IInv
  <1> SUFFICES ASSUME Init PROVE IInv
    OBVIOUS
  <1>1. TypeOK
    BY NoJobType, NilFacts, LimitAssumption DEF Init, TypeOK
  <1>2. Issued = {} /\ \A k \in RedisKeys : store[k] = Nil
    BY DEF Init, Issued
  <1>3. LiveKeys /\ SeenOK /\ LockedHasNoCode
    BY <1>2 DEF Init, LiveKeys, SeenOK, LockedHasNoCode, RedisKeys
  <1>4. CountOK
    BY <1>2, LimitAssumption DEF Init, CountOK, BoundedGuesses, RedisKeys
  <1>5. CodesOK
    <2>1. 0 \in 0..MaxCodes /\ 1..0 = {}
      BY LimitAssumption
    <2>2. Ordered(0) /\ Latest(0) /\ Paused(0) /\ Budgeted(0)
      BY <1>2, <2>1 DEF Init, Ordered, Latest, Paused, Budgeted, RedisKeys
    <2> QED
      BY <2>1, <2>2 DEF CodesOK
  <1>6. Spacing /\ HourlyBudget
    BY <1>2 DEF Spacing, HourlyBudget
  <1> QED
    BY <1>1, <1>3, <1>4, <1>5, <1>6 DEF IInv

\* Steps of one request that write nothing to Redis.
LEMMA QuietStep ==
    ASSUME IInv, UNCHANGED <<now, store, issuedAt, used, wrong>>,
           pc' \in [Requests -> {"idle", "watch", "exec"}], job' \in [Requests -> Job],
           SeenOK'
    PROVE  IInv'
  <1>1. TypeOK'
    BY DEF IInv, TypeOK
  <1>2. LiveKeys' /\ LockedHasNoCode' /\ CountOK'
    BY DEF IInv, LiveKeys, LockedHasNoCode, Locked, CountOK, BoundedGuesses
  <1>3. Issued' = Issued
    BY DEF Issued
  <1>4. CodesOK'
    BY <1>3 DEF IInv, CodesOK, Ordered, Latest, Paused, Budgeted, Opener
  <1>5. Spacing' /\ HourlyBudget'
    BY <1>3 DEF IInv, Spacing, HourlyBudget
  <1> QED
    BY <1>1, <1>2, <1>4, <1>5 DEF IInv

\* A request that moves to "idle" or "watch" has no transaction open.
LEMMA ClosedStep ==
    ASSUME IInv, NEW p \in Requests, NEW j \in Job, NEW s \in {"idle", "watch"},
           now' = now,
           pc' = [pc EXCEPT ![p] = s], job' = [job EXCEPT ![p] = j]
    PROVE  /\ pc' \in [Requests -> {"idle", "watch", "exec"}]
           /\ job' \in [Requests -> Job]
           /\ SeenOK'
  BY DEF IInv, TypeOK, SeenOK

LEMMA BeginStep ==
    ASSUME IInv, NEW p \in Requests, Begin(p)
    PROVE  IInv'
  <1>1. PICK op \in Ops, c \in Issued \cup {0} :
            job' = [job EXCEPT ![p] = [NoJob EXCEPT !.op = op, !.code = c]]
    BY DEF Begin
  <1>2. c \in 0..MaxCodes
    BY LimitAssumption DEF Issued, Codes
  <1>3. [NoJob EXCEPT !.op = op, !.code = c] \in Job
    BY <1>2, NoJobType DEF Job
  <1> QED
    BY <1>1, <1>3, ClosedStep, QuietStep DEF Begin

LEMMA DoneStep ==
    ASSUME IInv, NEW p \in Requests, Done(p), UNCHANGED <<now, store, issuedAt, used, wrong>>
    PROVE  IInv'
  BY NoJobType, ClosedStep, QuietStep DEF Done

LEMMA ConflictStep ==
    ASSUME IInv, NEW p \in Requests, Conflict(p)
    PROVE  IInv'
  <1>1. CASE TryAgain(p)
    <2> DEFINE j == [NoJob EXCEPT !.op = job[p].op, !.code = job[p].code,
                                  !.tries = job[p].tries + 1]
    <2>1. job[p] \in Job /\ job[p].tries + 1 \in 1..MaxTries
      BY <1>1, LimitAssumption DEF IInv, TypeOK, Job, TryAgain
    <2>2. j \in Job
      BY <2>1, NoJobType DEF Job
    <2> QED
      BY <1>1, <2>2, ClosedStep, QuietStep DEF Conflict
  <1>2. CASE ~TryAgain(p)
    BY <1>2, DoneStep DEF Conflict
  <1> QED
    BY <1>1, <1>2

\* See: the request remembers what it read, and opens its transaction.
LEMMA SeeStep ==
    ASSUME IInv, NEW p \in Requests, NEW ttl \in Nat, See(p, ttl),
           pc' = [pc EXCEPT ![p] = "exec"],
           UNCHANGED <<now, store, issuedAt, used, wrong>>,
           ~Locked,
           job[p].op = "issue" =>
                /\ store["cooldown"] = Nil \/ store["cooldown"].until <= now + 1
                /\ store["budget"].v < RequestLimit
                /\ ttl = 0 \/ store["budget"].until <= now + ttl
                /\ store["budget"] = Nil => ttl = 0
    PROVE  IInv'
  <1> DEFINE seen == [k \in RedisKeys |-> IF k \in Read(job[p].op) THEN store[k] ELSE Nil]
             j == [job[p] EXCEPT !.seen = seen, !.ttl = ttl]
  <1>1. job[p] \in Job /\ store \in [RedisKeys -> Entry]
    BY DEF IInv, TypeOK
  <1>2. seen \in [RedisKeys -> Entry]
    BY <1>1, NilFacts
  <1>3. /\ seen["failures"] = store["failures"]
        /\ job[p].op = "issue" => /\ seen["cooldown"] = store["cooldown"]
                                  /\ seen["budget"] = store["budget"]
    BY DEF Read, RedisKeys
  <1> HIDE DEF seen
  <1>4. j \in Job /\ j.seen = seen /\ j.ttl = ttl /\ j.op = job[p].op
    BY <1>1, <1>2 DEF Job
  <1>5. job' = [job EXCEPT ![p] = j]
    BY DEF See, seen
  <1> HIDE DEF j
  <1>6. store["failures"].v < AttemptLimit
    BY <1>1, LimitAssumption DEF Locked, RedisKeys, Entry
  <1>7. SeenOK'
    BY <1>3, <1>4, <1>5, <1>6 DEF IInv, TypeOK, SeenOK
  <1>8. pc' \in [Requests -> {"idle", "watch", "exec"}] /\ job' \in [Requests -> Job]
    BY <1>4, <1>5 DEF IInv, TypeOK
  <1> QED
    BY <1>7, <1>8, QuietStep

LEMMA IssueWatchStep ==
    ASSUME IInv, NEW p \in Requests, IssueWatch(p)
    PROVE  IInv'
  <1>1. PICK remaining \in Ttl("cooldown"), ttl \in Ttl("budget") :
            IF Throttled(remaining)
            THEN Done(p)
            ELSE See(p, ttl) /\ pc' = [pc EXCEPT ![p] = "exec"]
    BY DEF IssueWatch
  <1>2. /\ store["cooldown"] \in Entry /\ store["budget"] \in Entry /\ now \in Nat
        /\ store["cooldown"] = Nil \/ store["cooldown"].until > now
        /\ store["budget"] = Nil \/ store["budget"].until > now
    BY DEF IInv, TypeOK, LiveKeys, RedisKeys
  <1>3. CASE Throttled(remaining)
    BY <1>1, <1>3, DoneStep DEF IssueWatch
  <1>4. CASE ~Throttled(remaining)
    <2>1. remaining = 0 /\ ~Locked /\ store["budget"].v < RequestLimit
      <3>1. remaining \in Nat
        BY <1>2, TtlFacts DEF RedisKeys
      <3> QED
        BY <1>2, <1>4, <3>1, LimitAssumption DEF Throttled, Entry
    <2>2. store["cooldown"] = Nil \/ store["cooldown"].until <= now + 1
      BY <1>2, <2>1, TtlFacts DEF RedisKeys
    <2>3. /\ ttl \in Nat /\ (ttl = 0 \/ store["budget"].until <= now + ttl)
          /\ store["budget"] = Nil => ttl = 0
      BY <1>2, TtlFacts, NilFacts DEF RedisKeys
    <2> QED
      BY <1>1, <1>4, <2>1, <2>2, <2>3, SeeStep DEF IssueWatch
  <1> QED
    BY <1>3, <1>4

LEMMA GuessWatchStep ==
    ASSUME IInv, NEW p \in Requests, GuessWatch(p)
    PROVE  IInv'
  <1>1. CASE Locked
    BY <1>1, DoneStep DEF GuessWatch
  <1>2. CASE ~Locked
    <2>1. PICK ttl \in Ttl("failures") : See(p, ttl)
      BY <1>2 DEF GuessWatch
    <2>2. ttl \in Nat
      BY TtlFacts DEF IInv, TypeOK, LiveKeys, RedisKeys
    <2> QED
      BY <1>2, <2>1, <2>2, SeeStep DEF GuessWatch
  <1> QED
    BY <1>1, <1>2

\* A transaction that goes through closes its request; the others keep theirs.
LEMMA DoneFacts ==
    ASSUME IInv, NEW p \in Requests, Done(p), now' = now
    PROVE  /\ pc' \in [Requests -> {"idle", "watch", "exec"}]
           /\ job' \in [Requests -> Job]
           /\ SeenOK'
  BY NoJobType, ClosedStep DEF Done

\* What EXEC knows of the keys it watched.
LEMMA ExecFacts ==
    ASSUME IInv, NEW p \in Requests, pc[p] = "exec", Unchanged(p)
    PROVE  /\ job[p] \in Job
           /\ store["challenge"] = job[p].seen["challenge"]
           /\ store["failures"] = job[p].seen["failures"]
           /\ store["failures"].v < AttemptLimit
           /\ job[p].op = "issue" =>
                /\ store["cooldown"] = Nil \/ store["cooldown"].until <= now + 1
                /\ store["budget"] = job[p].seen["budget"]
                /\ store["budget"].v < RequestLimit
                /\ job[p].ttl = 0 \/ store["budget"].until <= now + job[p].ttl
                /\ store["budget"] = Nil => job[p].ttl = 0
  <1>1. {"challenge", "failures"} \subseteq Watched(job[p].op)
    BY DEF Watched, RedisKeys
  <1>2. job[p].op = "issue" => Watched(job[p].op) = RedisKeys
    BY DEF Watched
  <1>3. /\ store["challenge"] = job[p].seen["challenge"]
        /\ store["failures"] = job[p].seen["failures"]
        /\ job[p].op = "issue" => /\ store["cooldown"] = job[p].seen["cooldown"]
                                  /\ store["budget"] = job[p].seen["budget"]
    BY <1>1, <1>2 DEF Unchanged, RedisKeys
  <1> QED
    BY <1>3 DEF IInv, TypeOK, SeenOK

LEMMA KeptOrFreshFacts ==
    ASSUME IInv, NEW ttl \in Nat, NEW window \in Nat \ {0}
    PROVE  /\ KeptOrFresh(ttl, window) \in Nat
           /\ KeptOrFresh(ttl, window) > now
           /\ ttl > 0 => KeptOrFresh(ttl, window) = now + ttl
           /\ ttl = 0 => KeptOrFresh(ttl, window) = now + window
  BY DEF IInv, TypeOK, KeptOrFresh

LEMMA AcceptStep ==
    ASSUME IInv, NEW p \in Requests, AcceptExec(p)
    PROVE  IInv'
  <1>1. /\ now' = now /\ issuedAt' = issuedAt /\ wrong' = wrong /\ Issued' = Issued
        /\ pc' \in [Requests -> {"idle", "watch", "exec"}] /\ job' \in [Requests -> Job]
        /\ SeenOK'
    BY DoneFacts DEF AcceptExec, Issued
  <1>2. /\ job[p] \in Job
        /\ job[p].code = store["challenge"].v /\ job[p].code # 0
    BY ExecFacts DEF AcceptExec, Valid
  <1>3. CASE job[p].op # "consume"
    BY <1>1, <1>3, QuietStep DEF AcceptExec
  <1>4. CASE job[p].op = "consume"
    <2>1. /\ store' = [store EXCEPT !["challenge"] = Nil]
          /\ used' = used \cup {job[p].code}
      BY <1>4 DEF AcceptExec
    <2>2. /\ store' \in [RedisKeys -> Entry] /\ store'["challenge"] = Nil
          /\ \A k \in RedisKeys \ {"challenge"} : store'[k] = store[k]
      BY <2>1, NilFacts DEF IInv, TypeOK, RedisKeys
    <2>3. PICK n \in 0..MaxCodes : Ordered(n) /\ Latest(n) /\ Paused(n) /\ Budgeted(n)
      BY DEF IInv, CodesOK
    <2>4. job[p].code = n /\ n \in Codes
      BY <1>2, <2>3, NilFacts DEF Latest
    <2>5. n \in 1..n
      BY <2>4, LimitAssumption DEF Codes
    <2>6. Ordered(n)'
      BY <1>1, <2>1, <2>3, <2>4, <2>5 DEF Ordered
    <2>7. Latest(n)' /\ Paused(n)' /\ Budgeted(n)'
      BY <1>1, <2>2, <2>3 DEF Latest, Paused, Budgeted, Opener, RedisKeys
    <2>8. TypeOK'
      BY <1>1, <2>1, <2>2, <2>4 DEF IInv, TypeOK
    <2>9. LiveKeys' /\ LockedHasNoCode' /\ CountOK'
      BY <1>1, <2>2 DEF IInv, LiveKeys, LockedHasNoCode, Locked, CountOK, BoundedGuesses, RedisKeys
    <2>10. CodesOK'
      BY <2>3, <2>6, <2>7 DEF CodesOK
    <2>11. Spacing' /\ HourlyBudget'
      BY <1>1 DEF IInv, Spacing, HourlyBudget
    <2> QED
      BY <1>1, <2>8, <2>9, <2>10, <2>11 DEF IInv
  <1> QED
    BY <1>3, <1>4

LEMMA RejectStep ==
    ASSUME IInv, NEW p \in Requests, RejectExec(p)
    PROVE  IInv'
  <1> DEFINE f == FailuresAfter(job[p])
             c == ChallengeAfter(job[p])
  <1>1. /\ now' = now /\ issuedAt' = issuedAt /\ used' = used /\ Issued' = Issued
        /\ pc' \in [Requests -> {"idle", "watch", "exec"}] /\ job' \in [Requests -> Job]
        /\ SeenOK'
    BY DoneFacts DEF RejectExec, Issued
  <1>2. /\ job[p] \in Job /\ store["failures"] = job[p].seen["failures"]
        /\ store["failures"].v < AttemptLimit
        /\ store["failures"] \in Entry /\ store["challenge"] \in Entry
    BY ExecFacts DEF RejectExec, IInv, TypeOK, RedisKeys
  <1>3. f \in Entry /\ f.v = store["failures"].v + 1 /\ f.until > now
    <2>1. job[p].ttl \in Nat
      BY <1>2 DEF Job
    <2> QED
      BY <1>2, <2>1, KeptOrFreshFacts, LifetimeAssumption DEF FailuresAfter, Entry
  <1>4. c \in {store["challenge"], Nil} /\ (f.v >= AttemptLimit => c = Nil)
    BY <1>2, <1>3 DEF ChallengeAfter
  <1>5. store' = [store EXCEPT !["failures"] = f, !["challenge"] = c]
    BY DEF RejectExec
  <1>6. wrong' = (IF store["failures"] = Nil THEN 0 ELSE wrong) + 1
    BY DEF RejectExec
  <1> HIDE DEF f, c
  <1>7. /\ store' \in [RedisKeys -> Entry]
        /\ store'["failures"] = f /\ store'["challenge"] = c
        /\ store'["cooldown"] = store["cooldown"] /\ store'["budget"] = store["budget"]
    BY <1>2, <1>3, <1>4, <1>5, NilFacts DEF IInv, TypeOK, RedisKeys
  <1>8. wrong' = f.v
    BY <1>2, <1>3, <1>6, NilFacts DEF IInv, TypeOK, CountOK
  <1>9. TypeOK'
    BY <1>1, <1>3, <1>7, <1>8 DEF IInv, TypeOK, Entry
  <1>10. LiveKeys'
    BY <1>1, <1>3, <1>4, <1>7 DEF IInv, LiveKeys, RedisKeys
  <1>11. LockedHasNoCode'
    BY <1>4, <1>7 DEF LockedHasNoCode, Locked
  <1>12. CountOK'
    BY <1>2, <1>3, <1>7, <1>8, LimitAssumption DEF CountOK, BoundedGuesses, Entry
  <1>13. CodesOK'
    <2>1. PICK n \in 0..MaxCodes : Ordered(n) /\ Latest(n) /\ Paused(n) /\ Budgeted(n)
      BY DEF IInv, CodesOK
    <2>2. Ordered(n)' /\ Latest(n)'
      BY <1>1, <1>4, <1>7, <2>1 DEF Ordered, Latest
    <2>3. Paused(n)' /\ Budgeted(n)'
      BY <1>1, <1>7, <2>1 DEF Paused, Budgeted, Opener
    <2> QED
      BY <2>1, <2>2, <2>3 DEF CodesOK
  <1>14. Spacing' /\ HourlyBudget'
    BY <1>1 DEF IInv, Spacing, HourlyBudget
  <1> QED
    BY <1>1, <1>9, <1>10, <1>11, <1>12, <1>13, <1>14 DEF IInv

LEMMA TickStep ==
    ASSUME IInv, Tick
    PROVE  IInv'
  <1>1. /\ now' = now + 1 /\ now \in Nat /\ now' \in 1..MaxNow
        /\ store \in [RedisKeys -> Entry]
        /\ pc' = pc /\ job' = job /\ issuedAt' = issuedAt /\ used' = used /\ wrong' = wrong
        /\ issuedAt \in [Codes -> Nat] /\ Issued' = Issued
    BY LimitAssumption DEF IInv, TypeOK, Tick, Issued
  <1>2. store' = [k \in RedisKeys |-> IF store[k].until > now + 1 THEN store[k] ELSE Nil]
    BY DEF Tick
  <1>3. /\ store' \in [RedisKeys -> Entry]
        /\ \A k \in RedisKeys : \/ store'[k] = store[k] /\ store[k].until > now'
                                \/ store'[k] = Nil /\ store[k].until <= now'
    BY <1>1, <1>2, NilFacts DEF Entry
  <1>4. TypeOK'
    BY <1>1, <1>3 DEF IInv, TypeOK
  <1>5. LiveKeys'
    BY <1>3 DEF LiveKeys
  <1>6. SeenOK'
    <2> SUFFICES ASSUME NEW p \in Requests, pc[p] = "exec"
                 PROVE  /\ job[p].seen["failures"].v < AttemptLimit
                        /\ job[p].op = "issue" =>
                            /\ \/ job[p].seen["cooldown"] = Nil
                               \/ job[p].seen["cooldown"].until <= now' + 1
                            /\ job[p].seen["budget"].v < RequestLimit
                            /\ job[p].ttl = 0 \/ job[p].seen["budget"].until <= now' + job[p].ttl
                            /\ job[p].seen["budget"] = Nil => job[p].ttl = 0
      BY <1>1 DEF SeenOK
    <2>1. /\ job[p].ttl \in Nat /\ job[p].seen["cooldown"].until \in Nat
          /\ job[p].seen["budget"].until \in Nat
      BY DEF IInv, TypeOK, Job, Entry, RedisKeys
    <2> QED
      BY <1>1, <2>1 DEF IInv, SeenOK
  <1>7. LockedHasNoCode'
    BY <1>3, NilFacts, LimitAssumption DEF IInv, LockedHasNoCode, Locked, RedisKeys
  <1>8. CountOK'
    BY <1>1, <1>3 DEF IInv, CountOK, BoundedGuesses, RedisKeys
  <1>9. CodesOK'
    <2>1. PICK n \in 0..MaxCodes : Ordered(n) /\ Latest(n) /\ Paused(n) /\ Budgeted(n)
      BY DEF IInv, CodesOK
    <2>2. \A c \in 1..n : issuedAt[c] \in Nat
      BY <1>1, LimitAssumption DEF Codes
    <2>3. Ordered(n)'
      BY <1>1, <2>1, <2>2 DEF Ordered
    <2>4. Latest(n)'
      BY <1>1, <1>3, <2>1 DEF Latest, RedisKeys
    <2>5. Paused(n)'
      <3> SUFFICES ASSUME NEW c \in 1..n
                   PROVE  \/ issuedAt[c] + Cooldown <= now'
                          \/ store'["cooldown"].until >= issuedAt[c] + Cooldown
        BY <1>1 DEF Paused
      <3>1. \/ issuedAt[c] + Cooldown <= now
            \/ store["cooldown"].until >= issuedAt[c] + Cooldown
        BY <2>1 DEF Paused
      <3>2. store["cooldown"] \in Entry /\ issuedAt[c] + Cooldown \in Nat
        BY <1>1, <2>2, LifetimeAssumption DEF RedisKeys
      <3>3. \/ store'["cooldown"] = store["cooldown"]
            \/ store["cooldown"].until <= now'
        BY <1>3 DEF RedisKeys
      <3> QED
        BY <1>1, <3>1, <3>2, <3>3 DEF Entry
    <2>6. Budgeted(n)'
      <3>1. store["budget"] \in Entry /\ RequestWindow \in Nat
        BY <1>1, LifetimeAssumption DEF RedisKeys
      <3>2. CASE store["budget"] = Nil
        <4>1. store'["budget"] = Nil
          BY <1>3, <3>2 DEF RedisKeys
        <4> QED
          BY <1>1, <2>1, <2>2, <3>1, <3>2, <4>1 DEF Budgeted
      <3>3. CASE store["budget"] # Nil /\ store'["budget"] = store["budget"]
        BY <1>1, <2>1, <3>3 DEF Budgeted, Opener
      <3>4. CASE store["budget"] # Nil /\ store'["budget"] = Nil /\ store["budget"].until <= now'
        <4> DEFINE o == Opener(n)
        <4>1. /\ o \in 1..n /\ store["budget"].v \in 1..RequestLimit
              /\ issuedAt[o] + RequestWindow <= store["budget"].until
          BY <2>1, <3>4 DEF Budgeted
        <4>2. o = n - store["budget"].v + 1
          BY DEF Opener
        <4> HIDE DEF o
        <4>3. \A c \in 1..n : c + RequestLimit <= n => issuedAt[c] + RequestWindow <= now'
          <5> SUFFICES ASSUME NEW c \in 1..n, c + RequestLimit <= n
                       PROVE  issuedAt[c] + RequestWindow <= now'
            OBVIOUS
          <5>1. c <= o
            BY <4>1, <4>2, LimitAssumption
          <5>2. issuedAt[c] <= issuedAt[o]
            BY <2>1, <4>1, <5>1 DEF Ordered
          <5> QED
            BY <1>1, <2>2, <3>1, <3>4, <4>1, <5>2 DEF Entry
        <4> QED
          BY <1>1, <3>4, <4>3 DEF Budgeted
      <3> QED
        BY <1>3, <3>2, <3>3, <3>4 DEF RedisKeys
    <2> QED
      BY <2>1, <2>3, <2>4, <2>5, <2>6 DEF CodesOK
  <1>10. Spacing' /\ HourlyBudget'
    BY <1>1 DEF IInv, Spacing, HourlyBudget
  <1> QED
    BY <1>4, <1>5, <1>6, <1>7, <1>8, <1>9, <1>10 DEF IInv

LEMMA IssueStep ==
    ASSUME IInv, NEW p \in Requests, IssueExec(p)
    PROVE  IInv'
  <1> DEFINE b == BudgetAfter(job[p])
             L == RequestLimit
             W == RequestWindow
  <1>1. /\ now' = now /\ used' = used /\ wrong' = wrong /\ now \in Nat /\ now \in 1..MaxNow
        /\ pc' \in [Requests -> {"idle", "watch", "exec"}] /\ job' \in [Requests -> Job]
        /\ SeenOK'
    BY DoneFacts DEF IssueExec, IInv, TypeOK
  <1>2. PICK c \in Codes :
        /\ c \notin Issued /\ \A d \in 1..(c - 1) : d \in Issued
        /\ store' = [store EXCEPT !["challenge"] = [v |-> c, until |-> now + ChallengeTtl],
                                  !["cooldown"] = [v |-> 1, until |-> now + Cooldown],
                                  !["budget"] = b]
        /\ issuedAt' = [issuedAt EXCEPT ![c] = now]
    BY DEF IssueExec
  <1>3. PICK n \in 0..MaxCodes : Ordered(n) /\ Latest(n) /\ Paused(n) /\ Budgeted(n)
    BY DEF IInv, CodesOK
  <1>4. c = n + 1 /\ c \in 1..MaxCodes /\ n \in Nat
    <2>1. c \in Nat /\ c >= 1 /\ n \in Nat /\ ~(c \in 1..n) /\ Issued = 1..n
      BY <1>2, <1>3, LimitAssumption DEF Codes, Ordered
    <2>2. c <= n + 1
      <3> SUFFICES ASSUME c > n + 1 PROVE FALSE
        BY <2>1
      <3>1. n + 1 \in 1..(c - 1)
        BY <2>1
      <3> QED
        BY <1>2, <2>1, <3>1
    <2> QED
      BY <1>2, <2>1, <2>2, LimitAssumption DEF Codes
  <1>5. /\ job[p] \in Job /\ store["failures"].v < AttemptLimit
        /\ store["cooldown"] = Nil \/ store["cooldown"].until <= now + 1
        /\ store["budget"] = job[p].seen["budget"]
        /\ store["budget"].v < L
        /\ job[p].ttl = 0 \/ store["budget"].until <= now + job[p].ttl
        /\ store["budget"] = Nil => job[p].ttl = 0
    BY ExecFacts DEF IssueExec
  <1>6. /\ store \in [RedisKeys -> Entry] /\ issuedAt \in [Codes -> Nat]
        /\ store["budget"] \in Entry /\ store["cooldown"] \in Entry
    BY DEF IInv, TypeOK, RedisKeys
  <1>7. /\ b \in Entry /\ b.v = store["budget"].v + 1 /\ b.until > now
        /\ job[p].ttl > 0 => b.until = now + job[p].ttl
        /\ job[p].ttl = 0 => b.until = now + W
        /\ job[p].ttl \in Nat
    <2>1. job[p].ttl \in Nat
      BY <1>5 DEF Job
    <2> QED
      BY <1>5, <1>6, <2>1, KeptOrFreshFacts, LifetimeAssumption DEF BudgetAfter, Entry
  <1> HIDE DEF b
  <1>8. /\ store' \in [RedisKeys -> Entry]
        /\ store'["challenge"] = [v |-> c, until |-> now + ChallengeTtl]
        /\ store'["cooldown"] = [v |-> 1, until |-> now + Cooldown]
        /\ store'["budget"] = b
        /\ store'["failures"] = store["failures"]
    BY <1>1, <1>2, <1>4, <1>6, <1>7, LifetimeAssumption DEF RedisKeys, Entry
  <1>9. /\ issuedAt' \in [Codes -> Nat] /\ issuedAt'[c] = now
        /\ \A d \in 1..n : d \in Codes /\ issuedAt'[d] = issuedAt[d] /\ issuedAt[d] \in Nat
        /\ \A d \in Codes : d # c => issuedAt'[d] = issuedAt[d]
    <2>1. /\ issuedAt' \in [Codes -> Nat] /\ issuedAt'[c] = now
          /\ \A d \in Codes : d # c => issuedAt'[d] = issuedAt[d]
      BY <1>1, <1>2, <1>6
    <2>2. \A d \in 1..n : d \in Codes /\ d # c
      BY <1>4, LimitAssumption DEF Codes
    <2> QED
      BY <1>6, <2>1, <2>2
  <1>10. Issued = 1..n /\ Issued' = 1..c
    <2>1. Issued = 1..n
      BY <1>3 DEF Ordered
    <2>2. now > 0
      BY <1>1
    <2>3. Issued' = Issued \cup {c}
      BY <1>2, <1>9, <2>2 DEF Issued
    <2> QED
      BY <1>4, <2>1, <2>3
  <1>11. TypeOK'
    BY <1>1, <1>8, <1>9 DEF IInv, TypeOK
  <1>12. LiveKeys'
    BY <1>1, <1>7, <1>8, LifetimeAssumption DEF IInv, LiveKeys, RedisKeys
  <1>13. LockedHasNoCode' /\ CountOK'
    <2>1. store["failures"].v \in Nat
      BY <1>6 DEF RedisKeys, Entry
    <2> QED
      BY <1>1, <1>5, <1>8, <2>1, LimitAssumption
      DEF IInv, LockedHasNoCode, Locked, CountOK, BoundedGuesses
  <1>14. Ordered(c)'
    <2>1. used' \subseteq 1..c
      BY <1>1, <1>3, <1>4 DEF Ordered
    <2>2. \A d \in 1..c : issuedAt'[d] <= now'
      BY <1>1, <1>3, <1>4, <1>9 DEF Ordered
    <2>3. \A d, e \in 1..c : d <= e => issuedAt'[d] <= issuedAt'[e]
      BY <1>1, <1>3, <1>4, <1>9, <2>2 DEF Ordered
    <2> QED
      BY <1>10, <2>1, <2>2, <2>3 DEF Ordered
  <1>15. Latest(c)'
    <2>1. c \notin used
      BY <1>3, <1>4 DEF Ordered
    <2> QED
      BY <1>1, <1>2, <1>8, <1>9, <2>1 DEF Latest
  <1>16. \A d \in 1..n : issuedAt[d] + Cooldown <= now + 1
    <2> SUFFICES ASSUME NEW d \in 1..n PROVE issuedAt[d] + Cooldown <= now + 1
      OBVIOUS
    <2>1. \/ issuedAt[d] + Cooldown <= now
          \/ store["cooldown"].until >= issuedAt[d] + Cooldown
      BY <1>3 DEF Paused
    <2>2. issuedAt[d] \in Nat /\ store["cooldown"].until \in Nat
      BY <1>6, <1>9 DEF Entry
    <2> QED
      BY <1>1, <1>5, <2>1, <2>2, NilFacts, LifetimeAssumption
  <1>17. Paused(c)'
    <2> SUFFICES ASSUME NEW d \in 1..c
                 PROVE  now + Cooldown >= issuedAt'[d] + Cooldown
      BY <1>8 DEF Paused
    <2>1. issuedAt'[d] <= now /\ issuedAt'[d] \in Nat
      BY <1>1, <1>4, <1>9, <1>14 DEF Ordered, Codes
    <2> QED
      BY <1>1, <2>1, LifetimeAssumption
  <1>18. Spacing'
    <2> SUFFICES ASSUME NEW d \in 1..c, NEW e \in 1..c, d < e
                 PROVE  issuedAt'[e] + 1 >= issuedAt'[d] + Cooldown
      BY <1>10 DEF Spacing
    <2>1. CASE e = c
      BY <1>4, <1>9, <1>16, <2>1
    <2>2. CASE e # c
      <3>1. d \in 1..n /\ e \in 1..n
        BY <1>4, <2>2
      <3>2. issuedAt[e] + 1 >= issuedAt[d] + Cooldown
        BY <1>10, <3>1 DEF IInv, Spacing
      <3> QED
        BY <1>9, <3>1, <3>2
    <2> QED
      BY <2>1, <2>2
  <1>19. CASE store["budget"] = Nil
    <2>1. b.v = 1 /\ b # Nil
      BY <1>7, <1>19, NilFacts
    <2>2. Opener(c)' = c
      BY <1>4, <1>8, <2>1 DEF Opener
    <2>3. \A d \in 1..n : d + L <= n => issuedAt[d] + W <= now
      BY <1>3, <1>19 DEF Budgeted
    <2>4. Budgeted(c)'
      <3>1. b.v \in 1..L /\ c \in 1..c
        BY <1>4, <2>1, LimitAssumption
      <3>2. now + W <= b.until
        BY <1>1, <1>5, <1>7, <1>19, NilFacts, LifetimeAssumption DEF Entry
      <3>3. \A d \in 1..c : d + L < c => issuedAt'[d] + W <= now
        <4> SUFFICES ASSUME NEW d \in 1..c, d + L < c PROVE issuedAt'[d] + W <= now
          OBVIOUS
        <4>1. d \in 1..n /\ d + L <= n
          BY <1>4, LimitAssumption
        <4> QED
          BY <1>9, <2>3, <4>1
      <3> QED
        BY <1>8, <1>9, <2>1, <2>2, <3>1, <3>2, <3>3 DEF Budgeted
    <2>5. HourlyBudget'
      <3> SUFFICES ASSUME NEW d \in 1..c, NEW e \in 1..c, e = d + 2 * L
                   PROVE  issuedAt'[e] >= issuedAt'[d] + W
        BY <1>10 DEF HourlyBudget
      <3>1. CASE e = c
        <4>1. d \in 1..n /\ d + L <= n
          BY <1>4, <3>1, LimitAssumption
        <4>2. issuedAt[d] + W <= now /\ issuedAt'[d] = issuedAt[d] /\ issuedAt[d] \in Nat
          BY <1>9, <2>3, <4>1
        <4>3. issuedAt'[e] = now /\ W \in Nat
          BY <1>9, <3>1, LifetimeAssumption
        <4> QED
          BY <1>1, <4>2, <4>3
      <3>2. CASE e # c
        <4>1. d \in 1..n /\ e \in 1..n
          <5>1. d < e /\ e <= n
            BY <1>4, <3>2, LimitAssumption
          <5> QED
            BY <1>4, <5>1
        <4>2. issuedAt[e] >= issuedAt[d] + W
          BY <1>10, <4>1 DEF IInv, HourlyBudget
        <4> QED
          BY <1>9, <4>1, <4>2
      <3> QED
        BY <3>1, <3>2
    <2>6. CodesOK'
      BY <1>4, <1>14, <1>15, <1>17, <2>4 DEF CodesOK
    <2> QED
      BY <1>1, <1>11, <1>12, <1>13, <1>18, <2>5, <2>6 DEF IInv
  <1>20. CASE store["budget"] # Nil
    <2> DEFINE o == Opener(n)
    <2>1. /\ store["budget"].v \in 1..L /\ o \in 1..n
          /\ issuedAt[o] + W <= store["budget"].until
          /\ \A d \in 1..n : d + L < o => issuedAt[d] + W <= issuedAt[o]
          /\ o = n - store["budget"].v + 1
      BY <1>3, <1>20 DEF Budgeted, Opener
    <2>2. Opener(c)' = o
      BY <1>4, <1>7, <1>8, <2>1 DEF Opener
    <2> HIDE DEF o
    <2>3. b.v \in 1..L /\ b # Nil /\ o \in 1..c
      BY <1>4, <1>5, <1>7, <2>1, NilFacts, LimitAssumption
    <2>4. issuedAt[o] \in Nat /\ issuedAt[o] <= now /\ issuedAt'[o] = issuedAt[o]
      BY <1>3, <1>9, <2>1 DEF Ordered
    <2>5. issuedAt[o] + W <= b.until
      <3>1. store["budget"].until \in Nat /\ b.until \in Nat
        BY <1>6, <1>7 DEF Entry
      <3> QED
        BY <1>1, <1>5, <1>7, <2>1, <2>4, <3>1, LifetimeAssumption
    <2>6. Budgeted(c)'
      <3>1. \A d \in 1..c : d + L < o => issuedAt'[d] + W <= issuedAt'[o]
        <4> SUFFICES ASSUME NEW d \in 1..c, d + L < o PROVE issuedAt'[d] + W <= issuedAt'[o]
          OBVIOUS
        <4>1. d \in 1..n
          BY <1>4, <2>1, LimitAssumption
        <4> QED
          BY <1>9, <2>1, <2>4, <4>1
      <3> QED
        BY <1>8, <2>2, <2>3, <2>4, <2>5, <3>1 DEF Budgeted
    <2>7. HourlyBudget'
      <3> SUFFICES ASSUME NEW d \in 1..c, NEW e \in 1..c, e = d + 2 * L
                   PROVE  issuedAt'[e] >= issuedAt'[d] + W
        BY <1>10 DEF HourlyBudget
      <3>1. CASE e = c
        \* d is older than the codes of the window before the current one.
        <4>1. d \in 1..n /\ d + L < o
          <5>1. /\ store["budget"].v \in Nat /\ store["budget"].v < L
                /\ L \in Nat \ {0} /\ n \in Nat /\ d \in Nat /\ d >= 1
            BY <1>4, <1>5, <2>1, LimitAssumption
          <5>2. d + 2 * L = n + 1 /\ o = n - store["budget"].v + 1
            BY <1>4, <2>1, <3>1
          <5> QED
            BY <5>1, <5>2
        <4>2. issuedAt[d] + W <= issuedAt[o] /\ issuedAt'[d] = issuedAt[d] /\ issuedAt[d] \in Nat
          BY <1>9, <2>1, <4>1
        <4>3. issuedAt'[e] = now /\ W \in Nat
          BY <1>9, <3>1, LifetimeAssumption
        <4> QED
          BY <1>1, <2>4, <4>2, <4>3
      <3>2. CASE e # c
        <4>1. d \in 1..n /\ e \in 1..n
          <5>1. d < e /\ e <= n
            BY <1>4, <3>2, LimitAssumption
          <5> QED
            BY <1>4, <5>1
        <4>2. issuedAt[e] >= issuedAt[d] + W
          BY <1>10, <4>1 DEF IInv, HourlyBudget
        <4> QED
          BY <1>9, <4>1, <4>2
      <3> QED
        BY <3>1, <3>2
    <2>8. CodesOK'
      BY <1>4, <1>14, <1>15, <1>17, <2>6 DEF CodesOK
    <2> QED
      BY <1>1, <1>11, <1>12, <1>13, <1>18, <2>7, <2>8 DEF IInv
  <1> QED
    BY <1>19, <1>20
-----------------------------------------------------------------------------
\* The theorems.

LEMMA NextIInv == IInv /\ [Next]_vars => IInv'
  <1> SUFFICES ASSUME IInv, [Next]_vars PROVE IInv'
    OBVIOUS
  <1>1. ASSUME NEW p \in Requests, IssueExec(p) PROVE IInv'
    BY <1>1, IssueStep
  <1>2. ASSUME NEW p \in Requests, AcceptExec(p) PROVE IInv'
    BY <1>2, AcceptStep
  <1>3. ASSUME NEW p \in Requests, RejectExec(p) PROVE IInv'
    BY <1>3, RejectStep
  <1>4. ASSUME NEW p \in Requests, Begin(p) \/ IssueWatch(p) \/ GuessWatch(p) PROVE IInv'
    BY <1>4, BeginStep, IssueWatchStep, GuessWatchStep
  <1>5. ASSUME NEW p \in Requests, Conflict(p) \/ Cancel(p) PROVE IInv'
    BY <1>5, ConflictStep, DoneStep DEF Cancel
  <1>6. CASE Tick
    BY <1>6, TickStep
  <1>7. CASE UNCHANGED vars
    <2>1. SeenOK' /\ pc' \in [Requests -> {"idle", "watch", "exec"}] /\ job' \in [Requests -> Job]
      BY <1>7 DEF vars, IInv, TypeOK, SeenOK
    <2> QED
      BY <1>7, <2>1, QuietStep DEF vars
  <1> QED
    BY <1>1, <1>2, <1>3, <1>4, <1>5, <1>6, <1>7 DEF Next

THEOREM Invariance == Spec => []IInv
  <1>1. Init => IInv
    BY InitIInv
  <1>2. IInv /\ [Next]_vars => IInv'
    BY NextIInv
  <1> QED
    BY <1>1, <1>2, PTL DEF Spec

\* Every variable keeps its type.
THEOREM TypeCorrect == Spec => []TypeOK
  <1>1. IInv => TypeOK
    BY DEF IInv
  <1> QED
    BY <1>1, Invariance, PTL

\* While an account is locked it has no live code.
THEOREM LockedCodes == Spec => []LockedHasNoCode
  <1>1. IInv => LockedHasNoCode
    BY DEF IInv
  <1> QED
    BY <1>1, Invariance, PTL

\* An attempt window evaluates no more wrong answers than the limit.
THEOREM GuessesBounded == Spec => []BoundedGuesses
  <1>1. IInv => BoundedGuesses
    BY DEF IInv, CountOK
  <1> QED
    BY <1>1, Invariance, PTL

\* Codes are a cooldown apart, up to the rounding of TTL.
THEOREM CodesApart == Spec => []Spacing
  <1>1. IInv => Spacing
    BY DEF IInv
  <1> QED
    BY <1>1, Invariance, PTL

\* A span of one window never sees more than twice the limit of codes.
THEOREM BudgetHolds == Spec => []HourlyBudget
  <1>1. IInv => HourlyBudget
    BY DEF IInv
  <1> QED
    BY <1>1, Invariance, PTL

\* An accepted answer is the latest code, alive and not consumed before.
LEMMA AcceptedCode ==
    ASSUME IInv, NEW p \in Requests, AcceptExec(p)
    PROVE  /\ job[p].code \notin used
           /\ now < issuedAt[job[p].code] + ChallengeTtl
           /\ job[p].code + 1 \notin Issued
  <1>1. PICK n \in 0..MaxCodes : Ordered(n) /\ Latest(n)
    BY DEF IInv, CodesOK
  <1>2. job[p].code = store["challenge"].v /\ job[p].code # 0
    BY ExecFacts DEF AcceptExec, Valid
  <1>3. /\ n \notin used /\ job[p].code = n /\ store["challenge"] # Nil
        /\ store["challenge"].until = issuedAt[n] + ChallengeTtl
    BY <1>1, <1>2, NilFacts DEF Latest
  <1>4. now < issuedAt[n] + ChallengeTtl
    BY <1>3 DEF IInv, LiveKeys, RedisKeys, TypeOK, Entry
  <1>5. n + 1 \notin Issued
    BY <1>1, LimitAssumption DEF Ordered
  <1> QED
    BY <1>3, <1>4, <1>5

\* No code is accepted once it has been consumed.
THEOREM CodesSingleUse == Spec => SingleUse
  <1>1. IInv /\ [Next]_vars => [\A p \in Requests : AcceptExec(p) => job[p].code \notin used]_vars
    BY AcceptedCode
  <1> QED
    BY <1>1, Invariance, PTL DEF Spec, SingleUse

\* Only the latest code is accepted, within its lifetime.
THEOREM OnlyLatestCode == Spec => LatestCodeOnly
  <1>1. IInv /\ [Next]_vars =>
          [\A p \in Requests : AcceptExec(p) =>
                /\ now < issuedAt[job[p].code] + ChallengeTtl
                /\ job[p].code + 1 \notin Issued]_vars
    BY AcceptedCode
  <1> QED
    BY <1>1, Invariance, PTL DEF Spec, LatestCodeOnly
=============================================================================
