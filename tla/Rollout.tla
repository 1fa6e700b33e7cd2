------------------------------ MODULE Rollout ------------------------------
(***************************************************************************)
(* The deployment of one host (docker/scripts/deploy.py): a command that   *)
(* prepares an image, validates the settings in it and brings the selected *)
(* services up one after the other, waiting for each; any step may fail    *)
(* and nothing is rolled back.  Compose and Docker are external.           *)
(***************************************************************************)
EXTENDS Naturals, Sequences

CONSTANTS
    Releases,  \* of the application, ordered by their numbers
    Fitting    \* those whose Settings accept the environment

VARIABLES
    command,  \* "none", "build", "up" or "deploy"
    todo,     \* the stages left
    mail,     \* EMAIL_ENABLED and LOGIN_ENABLED
    tag,      \* the release the tag APP_IMAGE names
    on,       \* on[s]: the release the container of service s was created from, 0 without one
    up,       \* the services that answer
    schema,   \* the release whose migrations the database has had
    proven    \* history: releases whose worker has answered

vars == <<command, todo, mail, tag, on, up, schema, proven>>
-----------------------------------------------------------------------------
\* "data" stands for the local postgres and redis.
Services == {"data", "celery-worker", "app", "caddy"}

Init ==
    /\ command = "none" /\ todo = <<>> /\ mail \in BOOLEAN /\ tag \in Releases
    /\ on = [s \in Services |-> 0] /\ up = {} /\ schema = 0 /\ proven = {}

\* Defect: the worker follows the API.
AppFirst(withMail) ==
    <<"data", "app">> \o (IF withMail THEN <<"celery-worker">> ELSE <<>>) \o <<"caddy">>

services(withMail) ==
    <<"data">> \o (IF withMail THEN <<"celery-worker">> ELSE <<>>) \o <<"app", "caddy">>

\* main: check has accepted the resolved settings; docker-up takes the local image.
Begin(c) ==
    /\ command = "none"
    /\ command' = c
    /\ todo' = <<"prepare", "validate">>
                 \o (IF c = "build" THEN <<>> ELSE services(mail))
                 \o (IF c = "deploy" THEN <<"smoke">> ELSE <<>>)
    /\ UNCHANGED <<mail, tag, on, up, schema, proven>>

At(stage) == todo # <<>> /\ Head(todo) = stage
Advance == todo' = Tail(todo) /\ UNCHANGED command

\* An image is built or pulled, or the local one is there already.
Prepare ==
    /\ At("prepare")
    /\ tag' \in IF command = "up" THEN {tag} ELSE Releases
    /\ Advance
    /\ UNCHANGED <<mail, on, up, schema, proven>>

ImageAccepts == tag \in Fitting

\* validate_image
Validate ==
    /\ At("validate") /\ ImageAccepts
    /\ Advance
    /\ UNCHANGED <<mail, tag, on, up, schema, proven>>

\* The container that runs after compose up; postgres and redis are not recreated.
Created(s) == IF s = "data" /\ on[s] # 0 THEN on[s] ELSE tag

\* The API migrates the database before it answers, or before it fails to.
Migrated(s) == IF s = "app" /\ tag > schema THEN tag ELSE schema

\* compose up --wait
Bring(s) ==
    /\ At(s)
    /\ on' = [on EXCEPT ![s] = Created(s)] /\ up' = up \cup {s}
    /\ schema' = Migrated(s)
    /\ proven' = IF s = "celery-worker" THEN proven \cup {tag} ELSE proven
    /\ Advance
    /\ UNCHANGED <<mail, tag>>

\* The service does not answer in time; the command ends with an error.
BringFails(s) ==
    /\ At(s)
    /\ on' = [on EXCEPT ![s] = Created(s)] /\ up' = up \ {s}
    /\ schema' \in {schema, Migrated(s)}
    /\ command' = "none" /\ todo' = <<>>
    /\ UNCHANGED <<mail, tag, proven>>

\* smoke: the API answers, through the proxy, with the pages of the image.
Smoke ==
    /\ At("smoke") /\ {"app", "caddy"} \subseteq up
    /\ Advance
    /\ UNCHANGED <<mail, tag, on, up, schema, proven>>

\* Any other failure, or the operator's interrupt.
Abort ==
    /\ command # "none"
    /\ command' = "none" /\ todo' = <<>>
    /\ UNCHANGED <<mail, tag, on, up, schema, proven>>

Complete ==
    /\ command # "none" /\ todo = <<>>
    /\ command' = "none"
    /\ UNCHANGED <<todo, mail, tag, on, up, schema, proven>>

\* A container stops, or is restarted from the image it was created from.
Flap(s) ==
    /\ on[s] # 0
    /\ up' \in {up \cup {s}, up \ {s}} \ {up}
    /\ UNCHANGED <<command, todo, mail, tag, on, schema, proven>>

\* The operator edits the environment between two commands.
Configure == command = "none" /\ mail' = ~mail /\ UNCHANGED <<command, todo, tag, on, up, schema, proven>>

Next ==
    \/ \E c \in {"build", "up", "deploy"} : Begin(c)
    \/ Prepare \/ Validate \/ Smoke \/ Abort \/ Complete \/ Configure
    \/ \E s \in Services : Bring(s) \/ BringFails(s) \/ Flap(s)

Spec == Init /\ [][Next]_vars
-----------------------------------------------------------------------------
\* Properties.

TypeOK ==
    /\ command \in {"none", "build", "up", "deploy"} /\ todo \in Seq(Services \cup {"prepare", "validate", "smoke"})
    /\ mail \in BOOLEAN /\ tag \in Releases /\ on \in [Services -> Releases \cup {0}]
    /\ up \subseteq Services /\ schema \in Releases \cup {0} /\ proven \subseteq Releases

\* CELERY.md: "A worker health failure stops the API rollout": with mail the API is replaced by
\* a release only after a worker of that release has answered, and a command that completes
\* leaves the API and the worker on one release and the data's containers as they were.
RolloutSafe == [][
    /\ on'["app"] # on["app"] => on'["app"] \in Fitting /\ (mail => on'["app"] \in proven)
    /\ on["data"] # 0 => on'["data"] = on["data"]
    /\ (Complete /\ command # "build") =>
            on["app"] = tag /\ schema >= tag /\ (mail => on["celery-worker"] = tag)]_vars
=============================================================================
