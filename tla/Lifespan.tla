------------------------------ MODULE Lifespan ------------------------------
(***************************************************************************)
(* The start and the end of API processes that share one database          *)
(* (main.py, core/object_storage/__init__.py, core/cache/redis.py,         *)
(* core/db/session.py) in development mode without login, where each of    *)
(* them provisions the bootstrap user (services/bootstrap.py).  Any step   *)
(* may fail or be cancelled.                                               *)
(***************************************************************************)
EXTENDS Naturals, FiniteSets

CONSTANT Processes

VARIABLES
    pc,       \* pc[p]: the step p is at
    open,     \* open[p]: what p holds open
    serves,   \* serves[p]: the kind of user that is served without login, as a set
    schema,   \* the migrations have run
    account,  \* the user with the bootstrap address: none, "bootstrap" or "normal", as a set
    failed    \* history: resources whose closing failed

vars == <<pc, open, serves, schema, account, failed>>
-----------------------------------------------------------------------------
Starting == {"storage", "bucket", "redis", "checks", "migrate", "tables", "find", "create", "verify"}

Init ==
    /\ pc = [p \in Processes |-> "storage"] /\ open = [p \in Processes |-> {}]
    /\ serves = [p \in Processes |-> {}] /\ failed = [p \in Processes |-> {}]
    /\ schema = FALSE /\ account = {}

Goto(p, step) == pc' = [pc EXCEPT ![p] = step]
Opens(p, x) == open' = [open EXCEPT ![p] = @ \cup {x}]
Closes(p, x) == open' = [open EXCEPT ![p] = @ \ {x}]

\* create_object_storage
OpenStorage(p) ==
    /\ pc[p] = "storage"
    /\ Opens(p, "storage") /\ Goto(p, "bucket")
    /\ UNCHANGED <<serves, schema, account, failed>>

\* check_connection
CheckStorage(p) ==
    /\ pc[p] = "bucket" /\ Goto(p, "redis")
    /\ UNCHANGED <<open, serves, schema, account, failed>>

\* verify_startup: the client is kept when it has answered, and closed otherwise.
OpenRedis(p) ==
    /\ pc[p] = "redis"
    /\ Opens(p, "redis") /\ Goto(p, "checks")
    /\ UNCHANGED <<serves, schema, account, failed>>

\* Settings, OAuth, mail and Stripe.
CheckConfiguration(p) ==
    /\ pc[p] = "checks" /\ Goto(p, "migrate")
    /\ UNCHANGED <<open, serves, schema, account, failed>>

Migrate(p) ==
    /\ pc[p] = "migrate"
    /\ schema' = TRUE /\ Goto(p, "tables")
    /\ UNCHANGED <<open, serves, account, failed>>

\* init_db
OpenEngine(p) ==
    /\ pc[p] = "tables"
    /\ Opens(p, "engine") /\ Goto(p, "find")
    /\ UNCHANGED <<serves, schema, account, failed>>

Find(p) ==
    /\ pc[p] = "find"
    /\ Goto(p, IF account = {} THEN "create" ELSE "verify")
    /\ UNCHANGED <<open, serves, schema, account, failed>>

\* create_oauth_user; the address is unique, and a conflict is settled by what follows.
Create(p) ==
    /\ pc[p] = "create"
    /\ account' = IF account = {} THEN {"bootstrap"} ELSE account
    /\ Goto(p, "verify")
    /\ UNCHANGED <<open, serves, schema, failed>>

\* Defect: any user with the address is good enough.
AnyUser == account # {}

BootstrapUser == account = {"bootstrap"}

\* The user and its identity are read and compared; a conflict fails the start.
Verify(p) ==
    /\ pc[p] = "verify" /\ BootstrapUser
    /\ serves' = [serves EXCEPT ![p] = account]
    /\ Goto(p, "serve")
    /\ UNCHANGED <<open, schema, account, failed>>

\* An exception, or a cancellation, leaves each context that has been entered.
StartFails(p) ==
    /\ pc[p] \in Starting
    /\ IF pc[p] = "tables" THEN Opens(p, "engine") ELSE UNCHANGED open
    /\ Goto(p, CASE pc[p] = "storage" -> "stopped"
                 [] pc[p] = "bucket" -> "close storage"
                 [] OTHER -> "dispose")
    /\ UNCHANGED <<serves, schema, account, failed>>

Stop(p) ==
    /\ pc[p] = "serve"
    /\ serves' = [serves EXCEPT ![p] = {}]
    /\ Goto(p, "dispose")
    /\ UNCHANGED <<open, schema, account, failed>>

Finally(p, step) == step

\* Each closing may fail; the next one is tried anyway.
Close(p, step, x, then) ==
    /\ pc[p] = step
    /\ \/ Closes(p, x) /\ UNCHANGED failed
       \/ x \in open[p] /\ failed' = [failed EXCEPT ![p] = @ \cup {x}] /\ UNCHANGED open
    /\ Goto(p, Finally(p, then))
    /\ UNCHANGED <<serves, schema, account>>

Dispose(p) == Close(p, "dispose", "engine", "close redis")
CloseRedis(p) == Close(p, "close redis", "redis", "close storage")
CloseStorage(p) == Close(p, "close storage", "storage", "stopped")

\* Another deployment on the database signs a user up with the address, or the user deletes it.
SignUp == schema /\ account = {} /\ account' = {"normal"} /\ UNCHANGED <<pc, open, serves, schema, failed>>
Delete == account = {"normal"} /\ account' = {} /\ UNCHANGED <<pc, open, serves, schema, failed>>

Next ==
    \/ \E p \in Processes :
        \/ OpenStorage(p) \/ CheckStorage(p) \/ OpenRedis(p) \/ CheckConfiguration(p)
        \/ Migrate(p) \/ OpenEngine(p) \/ Find(p) \/ Create(p) \/ Verify(p)
        \/ StartFails(p) \/ Stop(p) \/ Dispose(p) \/ CloseRedis(p) \/ CloseStorage(p)
    \/ SignUp \/ Delete

Spec == Init /\ [][Next]_vars
-----------------------------------------------------------------------------
\* Properties.

TypeOK ==
    /\ pc \in [Processes -> Starting \cup {"serve", "dispose", "close redis", "close storage", "stopped"}]
    /\ open \in [Processes -> SUBSET {"storage", "redis", "engine"}]
    /\ failed \in [Processes -> SUBSET {"storage", "redis", "engine"}]
    /\ serves \in [Processes -> SUBSET {"bootstrap", "normal"}]
    /\ schema \in BOOLEAN /\ account \subseteq {"bootstrap", "normal"} /\ Cardinality(account) <= 1

\* A process that has ended, wherever its start failed, left nothing open that could be closed.
NothingOpen == \A p \in Processes : pc[p] = "stopped" => open[p] \subseteq failed[p]

\* services/bootstrap.py: "never promote an existing normal account": whoever wins the race for
\* the address, a process serves the provisioned user or does not start.
NeverPromotes == \A p \in Processes : "normal" \notin serves[p]

\* However the processes start and fail, and whatever they find in the database.
StartsSafely == NothingOpen /\ NeverPromotes
=============================================================================
