---------------------------- MODULE SingleFlight ----------------------------
(***************************************************************************)
(* The checks of an integration that administrators and the public demo    *)
(* ask for, in one process (IntegrationHealth of                           *)
(* core/observability/integration_health.py under AdminDemoSnapshots of    *)
(* services/admin.py).  A request waits for a task it shares with the      *)
(* others and may give up; the call to the provider goes on.               *)
(***************************************************************************)
EXTENDS Naturals

CONSTANT Requests

VARIABLES
    cache, snap,  \* the result and the snapshot: "none", "fresh" or "old"
    task, load,   \* the pending tasks: "none" when there is none or it is done
    calls,        \* calls to the provider in flight
    pc            \* pc[r]: what r awaits

vars == <<cache, snap, task, load, calls, pc>>
-----------------------------------------------------------------------------
Init ==
    /\ cache = "none" /\ snap = "none" /\ task = "none" /\ load = "none" /\ calls = 0
    /\ pc = [r \in Requests |-> "idle"]

Goto(r, step) == pc' = [pc EXCEPT ![r] = step]
Answer(step) == pc' = [r \in Requests |-> IF pc[r] = step THEN "idle" ELSE pc[r]]

\* check joins the pending task or starts one.
Join ==
    IF task = "running"
    THEN UNCHANGED <<task, calls>>
    ELSE task' = "running" /\ calls' = calls + 1

\* IntegrationHealth.check for an administrator; a fresh result is returned at once.
Check(r) ==
    /\ pc[r] = "idle" /\ cache # "fresh"
    /\ Join
    /\ Goto(r, "check")
    /\ UNCHANGED <<cache, snap, load>>

\* AdminDemoSnapshots.get
Get(r) ==
    /\ pc[r] = "idle" /\ snap # "fresh"
    /\ load' = IF load = "none" THEN "started" ELSE load
    /\ Goto(r, "get")
    /\ UNCHANGED <<cache, snap, task, calls>>

\* The load of a snapshot reaches the check of the integration.
LoadChecks ==
    /\ load = "started" /\ cache # "fresh"
    /\ Join
    /\ load' = "check"
    /\ UNCHANGED <<cache, snap, pc>>

LoadEnds ==
    /\ load = "started" /\ cache = "fresh"
    /\ load' = "none" /\ snap' = "fresh" /\ Answer("get")
    /\ UNCHANGED <<cache, task, calls>>

\* _run: the provider has answered, whatever it was.
ProbeEnds ==
    /\ task = "running"
    /\ task' = "none" /\ calls' = calls - 1 /\ cache' = "fresh"
    /\ Answer("check")
    /\ load' = IF load = "check" THEN "started" ELSE load
    /\ UNCHANGED snap

\* Defect: the task is awaited without its shield and cancelled with the request; the thread
\* that talks to the provider is not.
Unshielded == task' = "none"

Shielded == UNCHANGED task

\* The response takes too long, or the browser leaves.
GiveUp(r) ==
    /\ pc[r] = "check"
    /\ Shielded
    /\ Goto(r, "idle")
    /\ UNCHANGED <<cache, snap, load, calls>>

LeaveDemo(r) == pc[r] = "get" /\ Goto(r, "idle") /\ UNCHANGED <<cache, snap, task, load, calls>>

\* The check times out, which a snapshot may say; or the load does, which is not kept.
LoadGivesUp ==
    /\ load = "check"
    /\ Shielded
    /\ load' = "none" /\ snap' \in {snap, "fresh"} /\ Answer("get")
    /\ UNCHANGED <<cache, calls>>

\* CACHE_SECONDS, and the 30 seconds of a snapshot.
Age == cache = "fresh" /\ cache' = "old" /\ UNCHANGED <<snap, task, load, calls, pc>>
AgeSnap == snap = "fresh" /\ snap' = "old" /\ UNCHANGED <<cache, task, load, calls, pc>>

Next ==
    \/ \E r \in Requests : Check(r) \/ Get(r) \/ GiveUp(r) \/ LeaveDemo(r)
    \/ LoadChecks \/ LoadEnds \/ ProbeEnds \/ LoadGivesUp \/ Age \/ AgeSnap

Spec == Init /\ [][Next]_vars
-----------------------------------------------------------------------------
\* Properties.

TypeOK ==
    /\ {cache, snap} \subseteq {"none", "fresh", "old"}
    /\ task \in {"none", "running"} /\ load \in {"none", "started", "check"}
    /\ calls \in Nat /\ pc \in [Requests -> {"idle", "check", "get"}]

\* core/observability/integration_health.py: "A canceled browser request must not start
\* duplicate SMTP/Stripe probes.": one call at a time, whoever waits, gives up or comes back.
OneProbe == calls <= 1
=============================================================================
