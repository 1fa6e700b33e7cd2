---------------------------- MODULE VerifyRunner ----------------------------
(***************************************************************************)
(* The verification of a checkout (scripts/verification_runner.py and      *)
(* verification_cache.py): commands that run in a thread pool, in the      *)
(* order their lanes ask for, and leave a receipt which a later run may    *)
(* reuse.  The developer edits the source meanwhile.                       *)
(***************************************************************************)
EXTENDS Naturals, FiniteSets

CONSTANTS
    N,         \* the plan has the commands 1..N
    Backend,   \* those of the backend lane; the others are of the frontend lane
    Builders,  \* those that write the build output
    Package,   \* the last one, which packages it
    Jobs,
    Contents,  \* what the source may contain
    Good       \* pairs of a command and a content it passes on

VARIABLES
    content,   \* the source now
    dist,      \* the content the build output was built from, as a set
    shipped,   \* and the one that was packaged
    receipts,  \* receipts[i]: a set of at most one receipt
    st, key,   \* st[i]: where command i is; key[i]: the content its receipt would name, as a set
    touched,   \* history: commands during which the source was edited
    doubtful   \* history: a receipt was saved after an edit that was taken back

vars == <<content, dist, shipped, receipts, st, key, touched, doubtful>>
-----------------------------------------------------------------------------
Commands == 1..N
In(steps) == {i \in Commands : st[i] \in steps}
Live == In({"begun", "running", "passed", "ended", "broken"})

Init ==
    /\ content \in Contents /\ dist = {} /\ shipped = {}
    /\ receipts = [i \in Commands |-> {}]
    /\ st = [i \in Commands |-> "idle"] /\ key = [i \in Commands |-> {}]
    /\ touched = {} /\ doubtful = FALSE

Goto(i, step) == st' = [st EXCEPT ![i] = step]

Begin ==
    /\ In({"idle"}) = Commands
    /\ st' = [i \in Commands |-> "pending"]
    /\ UNCHANGED <<content, dist, shipped, receipts, key, touched, doubtful>>

\* The last command of the lane has waited for those before it.
SameLane(i) == {j \in 1..(i - 1) : (j \in Backend) = (i \in Backend)}

\* dependencies
Required(i) == IF i = Package THEN 1..(i - 1) ELSE SameLane(i)

\* A thread takes the command and the snapshot of the source.
Start(i) ==
    /\ st[i] = "pending" /\ Cardinality(Live) < Jobs /\ In({"failed"}) = {}
    /\ Required(i) \subseteq In({"done"})
    /\ Goto(i, "begun") /\ key' = [key EXCEPT ![i] = {content}] /\ touched' = touched \ {i}
    /\ UNCHANGED <<content, dist, shipped, receipts, doubtful>>

\* artifacts: a digest of the build output for the commands that write it; packaging has none.
Output(i) == IF i \in Builders THEN dist ELSE {}

Reusable(i) ==
    \E c \in receipts[i] :
        {c.source} = key[i] /\ c.output = Output(i) /\ i # Package /\ (i \in Builders => dist # {})

Reuse(i) ==
    /\ st[i] = "begun" /\ Reusable(i)
    /\ Goto(i, "ended")
    /\ UNCHANGED <<content, dist, shipped, receipts, key, touched, doubtful>>

Invalidate(i) ==
    /\ st[i] = "begun" /\ ~Reusable(i)
    /\ receipts' = [receipts EXCEPT ![i] = {}]
    /\ Goto(i, "running")
    /\ UNCHANGED <<content, dist, shipped, key, touched, doubtful>>

\* The command reads the source there is at the time.
Pass(i) ==
    /\ st[i] = "running" /\ <<i, content>> \in Good
    /\ dist' = IF i \in Builders THEN {content} ELSE dist
    /\ shipped' = IF i = Package THEN dist ELSE shipped
    /\ Goto(i, "passed")
    /\ UNCHANGED <<content, receipts, key, touched, doubtful>>

Fail(i) ==
    /\ st[i] = "running"
    /\ dist' \in IF i \in Builders THEN {dist, {}} ELSE {dist}
    /\ Goto(i, "broken")
    /\ UNCHANGED <<content, shipped, receipts, key, touched, doubtful>>

\* Defect: the receipt is saved for the snapshot of the beginning, whatever the source is now.
AnySource(i) == TRUE

SameSource(i) == {content} = key[i]

Save(i) ==
    /\ st[i] = "passed"
    /\ receipts' = [receipts EXCEPT ![i] =
                        IF SameSource(i) THEN [source : key[i], output : {Output(i)}] ELSE {}]
    /\ doubtful' = (doubtful \/ (i \in touched /\ {content} = key[i]))
    /\ Goto(i, "ended")
    /\ UNCHANGED <<content, dist, shipped, key, touched>>

\* The main thread sees what has completed; a failure lets no other command start.
Collect ==
    /\ In({"ended", "broken"}) # {}
    /\ st' = [i \in Commands |->
                CASE st[i] = "ended" -> "done" [] st[i] = "broken" -> "failed" [] OTHER -> st[i]]
    /\ UNCHANGED <<content, dist, shipped, receipts, key, touched, doubtful>>

Ended == In({"idle"}) = {} /\ Live = {} /\ (In({"failed"}) # {} \/ In({"done"}) = Commands)

\* The run is over, or interrupted; a receipt expires.
Leave ==
    /\ In({"idle"}) = {}
    /\ st' = [i \in Commands |-> "idle"] /\ key' = [i \in Commands |-> {}] /\ touched' = {}
    /\ UNCHANGED <<content, dist, shipped, receipts, doubtful>>

Expire(i) ==
    /\ receipts[i] # {}
    /\ receipts' = [receipts EXCEPT ![i] = {}]
    /\ UNCHANGED <<content, dist, shipped, st, key, touched, doubtful>>

Edit ==
    /\ content' \in Contents \ {content} /\ touched' = touched \cup Live
    /\ UNCHANGED <<dist, shipped, receipts, st, key, doubtful>>

\* The developer builds, or removes the output, between two runs.
Build ==
    /\ In({"idle"}) = Commands /\ dist' \in {{content}, {}}
    /\ UNCHANGED <<content, shipped, receipts, st, key, touched, doubtful>>

Next ==
    \/ Begin \/ Collect \/ Leave \/ Edit \/ Build
    \/ \E i \in Commands :
        Start(i) \/ Reuse(i) \/ Invalidate(i) \/ Pass(i) \/ Fail(i) \/ Save(i) \/ Expire(i)

Spec == Init /\ [][Next]_vars
-----------------------------------------------------------------------------
\* Properties.

TypeOK ==
    /\ content \in Contents /\ dist \subseteq Contents /\ shipped \subseteq Contents
    /\ receipts \in [Commands -> SUBSET [source : Contents, output : SUBSET Contents]]
    /\ st \in [Commands -> {"idle", "pending", "begun", "running", "passed", "ended", "broken",
                            "done", "failed"}]
    /\ key \in [Commands -> SUBSET Contents] /\ touched \subseteq Commands /\ doubtful \in BOOLEAN

\* A receipt is never a wrong excuse: the command passes on the source it names, except when
\* an edit made while the command ran was taken back before it ended.
ReceiptSound == \A i \in Commands : \A c \in receipts[i] : doubtful \/ <<i, c.source>> \in Good

\* notes/verification.md: "Packaging waits for all preceding checks": what a complete run has
\* packaged was built from the source it checked, whether the build ran or was reused.
PackagedFresh ==
    (/\ Ended /\ In({"done"}) = Commands
     /\ touched = {} /\ ~doubtful /\ \A i \in Commands : key[i] = {content}) => shipped = {content}

\* notes/verification.md: "Frontend generators, checks, builds, browser suites and isolated
\* custom-brand builds retain order"; no check runs while the package is being replaced.
LanesKept ==
    /\ Cardinality(Live \ Backend) <= 1
    /\ Package \in Live => In({"done"}) = Commands \ {Package}

\* What is reported as verified was verified, in the order the commands need.
VerifiedOnly == ReceiptSound /\ PackagedFresh /\ LanesKept
=============================================================================
