----------------------------- MODULE PlanChange -----------------------------
(***************************************************************************)
(* Changing a paid subscription (BillingService.change_subscription): a    *)
(* chain of Stripe calls under the lock of the customer's row.             *)
(*                                                                         *)
(* A form carries a request id, which names the idempotency keys of its    *)
(* calls, and the version of the state its page showed.  A call may fail,  *)
(* or take effect with its answer lost, and the form is sent again; the    *)
(* subscription renews, its payment settles, an operator works in the      *)
(* Stripe dashboard and Stripe forgets keys meanwhile.                     *)
(***************************************************************************)
EXTENDS Naturals

CONSTANTS
    Forms,      \* request ids, each sent any number of times
    Plus, Pro,  \* the plans of the two tiers
    MaxPeriod,  \* bound: renewals
    MaxScheds   \* bound: schedules ever made

VARIABLES
    sub,      \* the subscription at Stripe
    scheds,   \* scheds[i]: the schedule Stripe numbered i
    near,     \* the period ends within the minute
    late,     \* forms that are under way since before that minute
    form,     \* form[f]: the plan it asks for and the version it shows
    pc,       \* pc[f]: the next call of form f; whoever is not idle has the lock
    read,     \* the subscription and the schedule that were read under the lock
    made,     \* made[f]: the schedule the form's creation key returned, 0 for none
    done,     \* the other calls that Stripe remembers, by form and step
    closed,   \* history: forms that decided before another form was answered, while
              \* Stripe remembers all their calls
    forgotten \* history: forms of which Stripe has forgotten a call

vars == <<sub, scheds, near, late, form, pc, read, made, done, closed, forgotten>>
stripe == <<sub, scheds, made, done>>
clock == <<near, late>>
-----------------------------------------------------------------------------
Plans == Plus \cup Pro
None == "none"

\* How a schedule came about, whether it still directs its subscription, and the plan
\* of the phase that is still to begin, at the end of a period.
NoSched == [maker |-> None, active |-> FALSE, plan |-> None, start |-> 0]
NoForm == [plan |-> None, ver |-> <<>>]
NoRead == [sub |-> [plan |-> None, cancel |-> FALSE, sched |-> 0, period |-> 0,
                    pending |-> None],
           sched |-> NoSched]
Ids == 1..MaxScheds

\* A schedule in its last phase.
Begun == [NoSched EXCEPT !.maker = "ours", !.active = TRUE]

\* A plan is paid for, perhaps one that was scheduled in an earlier period.
Init ==
    /\ \E i \in {0, 1} \cap (0..MaxScheds) :
        /\ sub = [plan |-> CHOOSE p \in Plus : TRUE, cancel |-> FALSE, sched |-> i,
                  period |-> 0, pending |-> None]
        /\ scheds = [j \in Ids |-> IF j = i THEN Begun ELSE NoSched]
    /\ near = FALSE /\ late = {}
    /\ form = [f \in Forms |-> NoForm] /\ pc = [f \in Forms |-> "idle"]
    /\ read = NoRead /\ made = [f \in Forms |-> 0] /\ done = {}
    /\ closed = {} /\ forgotten = {}

SchedOf(i) == IF i = 0 THEN NoSched ELSE scheds[i]

\* _managed_response: only the mark of a finished update makes a schedule ours.
Owned(s) == s = NoSched \/ s.maker = "ours"

Managed(x) == x.sub.pending = None /\ Owned(x.sched)

Version(x) ==
    <<x.sub, IF Owned(x.sched) THEN <<x.sched.plan, x.sched.start>> ELSE <<>>>>

Current == [sub |-> sub, sched |-> SchedOf(sub.sched)]

\* What was read, with its schedule taken out.
Original(x) == [sub |-> [x.sub EXCEPT !.sched = 0], sched |-> NoSched]

Goto(f, step) == pc' = [pc EXCEPT ![f] = step] /\ UNCHANGED <<form, read>>

\* The lock is released, on success and on every error.
Leave(f) ==
    /\ pc' = [pc EXCEPT ![f] = "idle"] /\ read' = NoRead
    /\ late' = late \ {f}
    /\ UNCHANGED <<form, near>>

\* The page that shows the current state is filled in.  One that may not manage the
\* subscription is left out: no later state has its version, so its form is refused.
Fill(f) ==
    /\ form[f] = NoForm /\ Managed(Current)
    /\ \E p \in Plans \cup {"free", "keep"} :
        form' = [form EXCEPT ![f] = [plan |-> p, ver |-> Version(Current)]]
    /\ UNCHANGED <<stripe, clock, pc, read, closed, forgotten>>

\* Defect: the row is read without FOR UPDATE.
UnlockedAlways(f) == pc[f] = "idle"

Unlocked(f) == \A g \in Forms : pc[g] = "idle"

\* Sent for the first time or again: the lock, then the list of subscriptions.
Begin(f) ==
    /\ form[f] # NoForm /\ Unlocked(f)
    /\ pc' = [pc EXCEPT ![f] = "state"]
    /\ read' = [NoRead EXCEPT !.sub = sub]
    /\ UNCHANGED <<stripe, clock, form, closed>>

\* The schedule the list named is retrieved for the version.  One that is not ours may
\* be a creation of this form whose update failed.
State(f) ==
    LET x == [read EXCEPT !.sched = SchedOf(read.sub.sched)] IN
    /\ pc[f] = "state"
    /\ read' = x
    /\ pc' = [pc EXCEPT ![f] =
                 IF x.sub.sched # 0 /\ ~Managed(x) /\ form[f].plan \in Plans
                 THEN "recover" ELSE "check"]
    /\ UNCHANGED <<stripe, clock, form, closed>>

\* A schedule nobody has worked on has one phase and no mark.
Untouched(s) == s.plan = None /\ s.maker # "ours"

\* Defect: the schedule that was found is taken for the one created.
AdoptAny(f, i) == TRUE

Same(f, i) == i = read.sub.sched

\* Stripe lets one schedule direct a subscription, and answers a known key with the
\* schedule it created then.
Created(f) ==
    IF made[f] # 0 THEN {made[f]}
    ELSE IF sub.sched # 0 THEN {} ELSE {i \in Ids : i = 1 \/ scheds[i - 1] # NoSched}
                                        \cap {i \in Ids : scheds[i] = NoSched}

Put(f, i) ==
    IF made[f] # 0
    THEN UNCHANGED <<sub, scheds, made>>
    ELSE /\ made' = [made EXCEPT ![f] = i]
         /\ scheds' = [scheds EXCEPT ![i] = [NoSched EXCEPT !.maker = "key", !.active = TRUE]]
         /\ sub' = [sub EXCEPT !.sched = i]

Recover(f) ==
    /\ pc[f] = "recover"
    /\ IF /\ Untouched(read.sched) /\ Managed(Original(read))
          /\ Version(Original(read)) = form[f].ver
       THEN \E i \in Created(f) :
                /\ Put(f, i)
                /\ IF Same(f, i) THEN Goto(f, "recovered") /\ UNCHANGED clock ELSE Leave(f)
       ELSE Leave(f) /\ UNCHANGED <<sub, scheds, made>>
    /\ UNCHANGED <<done, closed>>

\* The end that was read is more than a minute away.
InTime(f) == form[f].plan \in Plans => ~near /\ read.sub.period = sub.period

Target(f) == IF form[f].plan = read.sub.plan THEN "keep" ELSE form[f].plan
Upgrade(f) == Target(f) \in Pro /\ read.sub.plan \in Plus

\* Where the calls of an accepted form begin.
First(f) ==
    IF Target(f) \in {"free", "keep"}
    THEN IF read.sub.sched # 0 THEN "release" ELSE "cancel"
    ELSE IF Upgrade(f) THEN IF read.sub.sched # 0 THEN "release-upgrade" ELSE "upgrade"
    ELSE IF read.sub.cancel THEN "resume"
    ELSE IF read.sub.sched # 0 THEN "update" ELSE "create"

Fits(f) ==
    \/ pc[f] = "recovered"
    \/ Managed(read) /\ Version(read) = form[f].ver

\* A conflict gives up; change_subscription then reads the state anew.
Check(f) ==
    /\ pc[f] \in {"check", "recovered"}
    /\ IF Fits(f) /\ InTime(f) THEN Goto(f, First(f)) /\ UNCHANGED clock ELSE Leave(f)
    /\ UNCHANGED <<stripe, closed>>
-----------------------------------------------------------------------------
\* The calls.  Stripe answers a call it remembers without doing it again.

\* Defect: the key of a call is not that of the form's first sending.
ReplayedNever(f, step) == FALSE

Replayed(f, step) == <<f, step>> \in done

\* A call with an effect e, which Stripe refuses unless allowed; others overruled.
Call(f, step, allowed, s, t, next) ==
    /\ pc[f] = step
    /\ IF Replayed(f, step)
       THEN Goto(f, next) /\ UNCHANGED <<stripe, clock>>
       ELSE IF allowed
       THEN /\ sub' = s /\ scheds' = t /\ done' = done \cup {<<f, step>>}
            /\ Goto(f, next) /\ UNCHANGED <<made, clock>>
       ELSE Leave(f) /\ UNCHANGED stripe
    /\ UNCHANGED closed

Release(f) ==
    \E step \in {<<"release", "cancel">>, <<"release-upgrade", "upgrade">>} :
        Call(f, step[1], SchedOf(read.sub.sched).active, [sub EXCEPT !.sched = 0],
             [scheds EXCEPT ![read.sub.sched].active = FALSE], step[2])

\* A schedule keeps the cancellation from being changed directly.
Cancel(f) ==
    Call(f, "cancel", sub.sched = 0, [sub EXCEPT !.cancel = (Target(f) = "free")], scheds, "save")

Resume(f) ==
    Call(f, "resume", sub.sched = 0, [sub EXCEPT !.cancel = FALSE], scheds,
         IF read.sub.sched # 0 THEN "update" ELSE "create")

\* The charge is paid at once, or the plan waits for the payment.
UpgradeNow(f) ==
    \E paid \in BOOLEAN :
        Call(f, "upgrade", sub.sched = 0,
             IF paid THEN [sub EXCEPT !.plan = Target(f), !.cancel = FALSE]
             ELSE [sub EXCEPT !.pending = Target(f)],
             scheds, "save")

Create(f) ==
    /\ pc[f] = "create"
    /\ \E i \in Created(f) :
        /\ Put(f, i)
        /\ read' = [read EXCEPT !.sub.sched = i]
    /\ pc' = [pc EXCEPT ![f] = "update"]
    /\ UNCHANGED <<done, clock, form, closed>>

\* The mark and the two phases; the second begins at the end that was read.
Update(f) ==
    Call(f, "update", SchedOf(read.sub.sched).active, sub,
         [scheds EXCEPT ![read.sub.sched] = [maker |-> "ours", active |-> TRUE,
              plan |-> Target(f), start |-> read.sub.period + 1]],
         "save")

\* The calls that decide what a form asks for.
Deciding(f) == {<<f, "cancel">>, <<f, "upgrade">>, <<f, "update">>}

\* The result is retrieved, saved with the row and answered.
Save(f) ==
    /\ pc[f] = "save"
    /\ Leave(f)
    /\ closed' = closed \cup {g \in Forms \ ({f} \cup forgotten) : done \cap Deciding(g) # {}}
    /\ UNCHANGED stripe

\* A refused or failed call, a lost answer, the time-out of 20 seconds or a crash.
Fail(f) ==
    /\ pc[f] # "idle"
    /\ Leave(f)
    /\ UNCHANGED <<stripe, closed>>

Step(f) ==
    /\ \/ Begin(f) \/ State(f) \/ Recover(f) \/ Check(f)
       \/ Release(f) \/ Cancel(f) \/ Resume(f) \/ UpgradeNow(f) \/ Create(f) \/ Update(f)
       \/ Save(f) \/ Fail(f)
    /\ UNCHANGED forgotten
-----------------------------------------------------------------------------
\* Stripe and its dashboard.

Outside == UNCHANGED <<form, pc, read, made, done, closed, forgotten>>

Approach ==
    /\ ~near /\ sub.period < MaxPeriod
    /\ near' = TRUE /\ late' = {f \in Forms : pc[f] # "idle"}
    /\ UNCHANGED <<sub, scheds>> /\ Outside

\* The period ends: the plan that was scheduled begins.  Its phase lasts one interval and
\* keeps the schedule, which is released at the next end.  A minute has passed, more than
\* a request under way has.
Renew ==
    /\ near /\ late = {} /\ ~sub.cancel
    /\ near' = FALSE
    /\ LET s == SchedOf(sub.sched)
           due == s.plan # None /\ s.start = sub.period + 1
           over == s.maker = "ours" /\ s.plan = None
       IN  /\ sub' = [sub EXCEPT !.period = @ + 1,
                                 !.plan = IF due THEN s.plan ELSE @,
                                 !.sched = IF over THEN 0 ELSE @]
           /\ scheds' = IF due THEN [scheds EXCEPT ![sub.sched].plan = None,
                                                   ![sub.sched].start = 0]
                        ELSE IF over THEN [scheds EXCEPT ![sub.sched].active = FALSE]
                        ELSE scheds
    /\ UNCHANGED late /\ Outside

Settle ==
    /\ sub.pending # None
    /\ sub' = [sub EXCEPT !.pending = None, !.plan = sub.pending, !.cancel = FALSE]
    /\ UNCHANGED <<scheds, near, late>> /\ Outside

Lapse ==
    /\ sub.pending # None
    /\ sub' = [sub EXCEPT !.pending = None]
    /\ UNCHANGED <<scheds, near, late>> /\ Outside

\* An operator schedules something, or takes a schedule off.
Attach ==
    /\ sub.sched = 0
    /\ \E i \in Ids :
        /\ scheds[i] = NoSched /\ \A j \in Ids : j < i => scheds[j] # NoSched
        /\ scheds' = [scheds EXCEPT ![i] = [NoSched EXCEPT !.maker = "other", !.active = TRUE]]
        /\ sub' = [sub EXCEPT !.sched = i]
    /\ UNCHANGED <<near, late>> /\ Outside

Detach ==
    /\ sub.sched # 0
    /\ sub' = [sub EXCEPT !.sched = 0]
    /\ scheds' = [scheds EXCEPT ![sub.sched].active = FALSE]
    /\ UNCHANGED <<near, late>> /\ Outside

\* A call of form f is forgotten.
Lost(f) == forgotten' = forgotten \cup {f} /\ closed' = closed \ {f}

\* Stripe prunes the keys of a day ago, those of a form one by one.  When is left open, even
\* to the middle of a sending: a form may be sent again as its day ends.
Forget ==
    /\ \/ \E call \in done :
            /\ done' = done \ {call} /\ Lost(call[1])
            /\ UNCHANGED made
       \/ \E f \in Forms :
            /\ made[f] # 0
            /\ made' = [made EXCEPT ![f] = 0] /\ Lost(f)
            /\ UNCHANGED done
    /\ UNCHANGED <<sub, scheds, clock, form, pc, read>>

Next ==
    \/ \E f \in Forms : Fill(f) \/ Step(f)
    \/ Approach \/ Renew \/ Settle \/ Lapse \/ Attach \/ Detach \/ Forget
-----------------------------------------------------------------------------
\* Properties.

TypeOK ==
    /\ sub.plan \in Plans /\ sub.sched \in {0} \cup Ids /\ sub.period \in 0..MaxPeriod
    /\ \A i \in Ids : scheds[i].plan \in Plans \cup {None}
    /\ \A i \in Ids : scheds[i].active <=> sub.sched = i
    /\ \A f \in Forms : form[f].plan \in Plans \cup {"free", "keep", None}
    /\ \A f, g \in Forms : pc[f] # "idle" /\ pc[g] # "idle" => f = g
    /\ late \subseteq {f \in Forms : pc[f] # "idle"}

\* notes/billing.md: "external schedules are not adopted": no change of a plan ever
\* releases or rewrites a schedule that an operator made, whenever it was attached.
ForeignScheduleKept ==
    [][\A i \in Ids : scheds[i].maker = "other" /\ scheds'[i] # scheds[i] =>
         ~ \E f \in Forms : Step(f)]_vars

\* change_subscription: a plan that was scheduled begins at the end of the period it
\* was asked in, however the renewal comes between its calls.
ScheduledInPeriod ==
    \A i \in Ids : scheds[i].active /\ scheds[i].plan # None => scheds[i].start > sub.period

\* Both: what the code schedules is in time, and what it did not schedule stays.
SchedulesKept == ForeignScheduleKept /\ []ScheduledInPeriod

\* What has been decided of the subscription's future.
Decision == <<sub.plan, sub.pending, sub.cancel,
              {scheds[i] : i \in {j \in Ids : scheds[j].active /\ scheds[j].plan # None}}>>

\* The subscription that was read is in the period, on the plan and with the cancellation
\* that the page of the form showed.
Shown(f) == \A k \in {"period", "plan", "cancel"} : read.sub[k] = form[f].ver[1][k]

\* The version and the idempotency keys: no form decides anything but of a subscription
\* that was read as its page showed it, and one that is sent again after a later form was
\* answered decides nothing, even when its version fits again, while Stripe remembers its
\* calls.  (Stripe may forget them after 24 hours, billing.py:223: the form then counts as
\* a new one, and where the page it was filled in on is true again it decides again.)
LaterDecisionStands ==
    [][Decision' # Decision => \A f \in Forms : Step(f) => Shown(f) /\ f \notin closed]_vars

\* notes/billing.md:323: "If schedule creation succeeds but its update fails, retry the
\* same request ID": the retry of a form whose schedule is as it was created, in the
\* period it was created in, is not refused.
RetryRecovers ==
    [][\A f \in Forms :
         /\ Recover(f)
         /\ read.sub = sub /\ read.sched.maker = "key" /\ made[f] = sub.sched
         /\ form[f].ver[1].period = sub.period
         => pc'[f] = "recovered"]_vars
=============================================================================
