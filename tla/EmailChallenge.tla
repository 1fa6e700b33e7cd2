-------------------------- MODULE EmailChallenge --------------------------
(***************************************************************************)
(* The six-digit email codes that prove account deletion and password      *)
(* change (utils/account_verification.py), for one user and one purpose:   *)
(* concurrent requests issue, check and consume codes with optimistic      *)
(* WATCH/MULTI/EXEC transactions over four expiring Redis keys.            *)
(*                                                                         *)
(* A request takes two steps: WATCH with the reads that follow it, and     *)
(* EXEC.  Reads that straddle another client's write are undone by EXEC,   *)
(* except for the early returns, which write nothing.                      *)
(***************************************************************************)
EXTENDS Naturals

CONSTANTS
    Requests,       \* concurrent requests
    MaxTries,       \* attempts at one transaction before RuntimeError
    ChallengeTtl,   \* life of a code
    Cooldown,       \* pause between two codes
    RequestLimit,   \* codes per budget window
    RequestWindow,  \* life of the budget
    AttemptLimit,   \* wrong answers per attempt window
    AttemptWindow,  \* life of the failure count
    MaxNow,         \* bound: the clock stops here
    MaxCodes        \* bound: codes ever issued

ASSUME LimitAssumption ==
    /\ MaxTries \in Nat \ {0} /\ RequestLimit \in Nat \ {0} /\ AttemptLimit \in Nat \ {0}
    /\ MaxNow \in Nat \ {0} /\ MaxCodes \in Nat
ASSUME LifetimeAssumption ==
    /\ ChallengeTtl \in Nat \ {0} /\ Cooldown \in Nat \ {0}
    /\ RequestWindow \in Nat \ {0} /\ AttemptWindow \in Nat \ {0}

VARIABLES
    now,      \* the clock of the Redis server
    store,    \* store[k]: value and expiry of key k
    pc,       \* pc[p]: where request p is
    job,      \* job[p]: its arguments and local variables
    issuedAt, \* history: when the n-th code was stored
    used,     \* history: codes consumed
    wrong     \* history: wrong answers given since the failure count was last absent

vars == <<now, store, pc, job, issuedAt, used, wrong>>
-----------------------------------------------------------------------------
RedisKeys == {"challenge", "cooldown", "budget", "failures"}

\* An absent key; counts read as zero (`or 0`), and no code has the number 0.
Nil == [v |-> 0, until |-> 0]

Entry == [v : Nat, until : Nat]

\* The TTL command, rounded to a whole unit: it may say 0 of a key still alive.
Ttl(k) ==
    IF store[k] = Nil THEN {0}
    ELSE {store[k].until - now} \cup (IF store[k].until = now + 1 THEN {0} ELSE {})

\* The n-th code stored is the challenge n; answer 0 matches no code.
Codes == 1..MaxCodes

Ops == {"issue", "check", "consume"}

\* seen is what the reads after WATCH returned, ttl the remaining life of the
\* count that EXEC will write back.
Job == [op : Ops, code : 0..MaxCodes, seen : [RedisKeys -> Entry], ttl : Nat, tries : 1..MaxTries]

NoJob == [op |-> "issue", code |-> 0, seen |-> [k \in RedisKeys |-> Nil], ttl |-> 0, tries |-> 1]

Issued == {c \in Codes : issuedAt[c] > 0}

Init ==
    /\ now = 1
    /\ store = [k \in RedisKeys |-> Nil]
    /\ pc = [p \in Requests |-> "idle"]
    /\ job = [p \in Requests |-> NoJob]
    /\ issuedAt = [c \in Codes |-> 0]
    /\ used = {}
    /\ wrong = 0
-----------------------------------------------------------------------------
\* Requests arrive: for a new code, or with an answer to check or to consume.
Begin(p) ==
    /\ pc[p] = "idle"
    /\ \E op \in Ops, c \in Issued \cup {0} :
        /\ op = "issue" => c = 0
        /\ job' = [job EXCEPT ![p] = [NoJob EXCEPT !.op = op, !.code = c]]
    /\ pc' = [pc EXCEPT ![p] = "watch"]
    /\ UNCHANGED <<now, store, issuedAt, used, wrong>>

Done(p) ==
    /\ pc' = [pc EXCEPT ![p] = "idle"]
    /\ job' = [job EXCEPT ![p] = NoJob]

\* What a request of this kind reads.
Read(op) == IF op = "issue" THEN RedisKeys ELSE {"challenge", "failures"}

See(p, ttl) ==
    job' = [job EXCEPT ![p] = [@ EXCEPT
        !.seen = [k \in RedisKeys |-> IF k \in Read(job[p].op) THEN store[k] ELSE Nil],
        !.ttl = ttl]]

Locked == store["failures"].v >= AttemptLimit

\* Throttled by the failure count, by the cooldown or by the budget.
Throttled(remaining) == Locked \/ remaining > 0 \/ store["budget"].v >= RequestLimit

IssueWatch(p) ==
    /\ pc[p] = "watch" /\ job[p].op = "issue"
    /\ \E remaining \in Ttl("cooldown"), ttl \in Ttl("budget") :
        IF Throttled(remaining)
        THEN Done(p)
        ELSE See(p, ttl) /\ pc' = [pc EXCEPT ![p] = "exec"]
    /\ UNCHANGED <<now, store, issuedAt, used, wrong>>

GuessWatch(p) ==
    /\ pc[p] = "watch" /\ job[p].op # "issue"
    /\ IF Locked
       THEN Done(p)
       ELSE /\ \E ttl \in Ttl("failures") : See(p, ttl)
            /\ pc' = [pc EXCEPT ![p] = "exec"]
    /\ UNCHANGED <<now, store, issuedAt, used, wrong>>

\* Defect: answers watch only the failure count.
WatchedCount(op) == IF op = "issue" THEN RedisKeys ELSE {"failures"}

\* Defect: issuing does not watch the failure count, answers only the challenge.
WatchedCode(op) == IF op = "issue" THEN {"cooldown", "budget"} ELSE {"challenge"}

Watched(op) == IF op = "issue" THEN RedisKeys ELSE {"challenge", "failures"}

\* EXEC goes through: no watched key was written or has expired since WATCH.
\* Every write changes a value or an expiry for good, so equal means untouched.
Unchanged(p) == \A k \in Watched(job[p].op) : store[k] = job[p].seen[k]

KeptOrFresh(ttl, window) == now + (IF ttl > 0 THEN ttl ELSE window)

\* Defect: the budget is rewritten, not counted up.
BudgetAfterUncounted(j) ==
    [v |-> IF j.seen["budget"].v = 0 THEN 1 ELSE j.seen["budget"].v,
     until |-> KeptOrFresh(j.ttl, RequestWindow)]

BudgetAfter(j) ==
    [v |-> j.seen["budget"].v + 1, until |-> KeptOrFresh(j.ttl, RequestWindow)]

IssueExec(p) ==
    /\ pc[p] = "exec" /\ job[p].op = "issue"
    /\ Unchanged(p)
    /\ \E c \in Codes :
        /\ c \notin Issued /\ \A d \in 1..(c - 1) : d \in Issued
        /\ store' = [store EXCEPT !["challenge"] = [v |-> c, until |-> now + ChallengeTtl],
                                  !["cooldown"] = [v |-> 1, until |-> now + Cooldown],
                                  !["budget"] = BudgetAfter(job[p])]
        /\ issuedAt' = [issuedAt EXCEPT ![c] = now]
    /\ Done(p)
    /\ UNCHANGED <<now, used, wrong>>

Valid(j) == j.code # 0 /\ j.seen["challenge"].v = j.code

\* A valid answer deletes the challenge only if it is consumed.
AcceptExec(p) ==
    /\ pc[p] = "exec" /\ job[p].op # "issue" /\ Valid(job[p])
    /\ Unchanged(p)
    /\ IF job[p].op = "consume"
       THEN /\ store' = [store EXCEPT !["challenge"] = Nil]
            /\ used' = used \cup {job[p].code}
       ELSE UNCHANGED <<store, used>>
    /\ Done(p)
    /\ UNCHANGED <<now, issuedAt, wrong>>

FailuresAfter(j) ==
    [v |-> j.seen["failures"].v + 1, until |-> KeptOrFresh(j.ttl, AttemptWindow)]

ChallengeAfter(j) ==
    IF j.seen["failures"].v + 1 >= AttemptLimit THEN Nil ELSE store["challenge"]

RejectExec(p) ==
    /\ pc[p] = "exec" /\ job[p].op # "issue" /\ ~Valid(job[p])
    /\ Unchanged(p)
    /\ store' = [store EXCEPT !["failures"] = FailuresAfter(job[p]),
                              !["challenge"] = ChallengeAfter(job[p])]
    /\ wrong' = (IF store["failures"] = Nil THEN 0 ELSE wrong) + 1
    /\ Done(p)
    /\ UNCHANGED <<now, issuedAt, used>>

\* Defect: one try too many.
TryOnceMore(p) == job[p].tries <= MaxTries

TryAgain(p) == job[p].tries < MaxTries

\* WatchError: the transaction is tried again, MaxTries times in all.
Conflict(p) ==
    /\ pc[p] = "exec"
    /\ ~Unchanged(p)
    /\ IF TryAgain(p)
       THEN /\ pc' = [pc EXCEPT ![p] = "watch"]
            /\ job' = [job EXCEPT ![p] = [NoJob EXCEPT !.op = job[p].op, !.code = job[p].code,
                                                       !.tries = job[p].tries + 1]]
       ELSE Done(p)
    /\ UNCHANGED <<now, store, issuedAt, used, wrong>>

\* The request is cancelled or its process dies before EXEC.
Cancel(p) ==
    /\ pc[p] # "idle"
    /\ Done(p)
    /\ UNCHANGED <<now, store, issuedAt, used, wrong>>

\* Time passes, and Redis drops the keys whose life is over.
Tick ==
    /\ now < MaxNow
    /\ now' = now + 1
    /\ store' = [k \in RedisKeys |-> IF store[k].until > now + 1 THEN store[k] ELSE Nil]
    /\ UNCHANGED <<pc, job, issuedAt, used, wrong>>

Next ==
    \/ \E p \in Requests :
        \/ Begin(p) \/ IssueWatch(p) \/ GuessWatch(p)
        \/ IssueExec(p) \/ AcceptExec(p) \/ RejectExec(p)
        \/ Conflict(p) \/ Cancel(p)
    \/ Tick

Spec == Init /\ [][Next]_vars
-----------------------------------------------------------------------------
\* Properties.

\* Every variable has its type.
TypeOK ==
    /\ now \in 1..MaxNow
    /\ store \in [RedisKeys -> Entry]
    /\ pc \in [Requests -> {"idle", "watch", "exec"}]
    /\ job \in [Requests -> Job]
    /\ issuedAt \in [Codes -> Nat]
    /\ used \subseteq Codes
    /\ wrong \in Nat

\* account-profile.md: five incorrect attempts lock verification and issuance.  A
\* locked account has no live code, whoever was issuing one when the lock fell.
LockedHasNoCode == Locked => store["challenge"] = Nil

\* consume_email_code: concurrent wrong answers are all counted, so an attempt
\* window never evaluates more of them than the limit.
BoundedGuesses == wrong <= AttemptLimit

\* account-profile.md: codes are single-use; concurrent consumers cannot both
\* succeed, and a check does not succeed after the code was consumed.
SingleUse == [][\A p \in Requests : AcceptExec(p) => job[p].code \notin used]_vars

\* account-profile.md: only the latest code is valid, for ten minutes, even when
\* it is replaced or expires while an answer is being evaluated.
LatestCodeOnly ==
    [][\A p \in Requests : AcceptExec(p) =>
            /\ now < issuedAt[job[p].code] + ChallengeTtl
            /\ job[p].code + 1 \notin Issued]_vars

\* account-profile.md: once per 30 seconds.  TTL's rounding may end the pause one
\* unit early, no race between requests ends it earlier.
Spacing ==
    \A c, d \in Issued : c < d => issuedAt[d] + 1 >= issuedAt[c] + Cooldown

\* account-profile.md: five times per hour.  The window is a fixed one, so twice
\* the limit is what an hour may see at most, however the windows fall.
HourlyBudget ==
    \A c, d \in Issued : d = c + 2 * RequestLimit => issuedAt[d] >= issuedAt[c] + RequestWindow
=============================================================================
