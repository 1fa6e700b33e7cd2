------------------------------ MODULE ApiKeys ------------------------------
(***************************************************************************)
(* One API key (models/api_key.py, services/api_key.py) and the requests   *)
(* that authenticate with it (deps.py).  A use reads the row, counts       *)
(* itself in memory and writes back the columns it changed, while the      *)
(* owner disables, enables or deletes the key in transactions that do the  *)
(* same; no row is locked between the read and the write.                  *)
(***************************************************************************)
EXTENDS Naturals

CONSTANTS
    Uses,      \* concurrent requests that present the key
    Changes,   \* concurrent requests of the owner about the key
    MaxCount   \* bound: uses counted

VARIABLES
    row,      \* the stored row
    active,   \* the owner's account exists
    pc, job   \* pc[r]: the next step of r; job[r]: the copy of the row it has read, its aim

vars == <<row, active, pc, job>>
-----------------------------------------------------------------------------
Rows == [exists : BOOLEAN, revoked : BOOLEAN, expired : BOOLEAN, count : 0..MaxCount]
New == [exists |-> TRUE, revoked |-> FALSE, expired |-> FALSE, count |-> 0]

Init ==
    /\ row = New /\ active = TRUE
    /\ pc = [r \in Uses \cup Changes |-> "idle"]
    /\ job = [r \in Uses \cup Changes |-> [copy |-> New, revoke |-> FALSE]]

Goto(r, step) == pc' = [pc EXCEPT ![r] = step]

Usable(k) == k.exists /\ ~k.revoked /\ ~k.expired
-----------------------------------------------------------------------------
\* get_current_api_key and record_valid_key_use

Resolve(r) ==
    /\ pc[r] = "idle" /\ Usable(row) /\ row.count < MaxCount
    /\ job' = [job EXCEPT ![r].copy = row]
    /\ Goto(r, "count")
    /\ UNCHANGED <<row, active>>

\* Defect: the whole row is written back, not the columns that changed.
WholeRow(k) == [k EXCEPT !.count = @ + 1]

Counted(k) == [row EXCEPT !.count = k.count + 1]

\* The update of a row that is gone fails, and the request with it.
CountUse(r) ==
    /\ pc[r] = "count"
    /\ IF row.exists
       THEN row' = Counted(job[r].copy) /\ Goto(r, "owner")
       ELSE UNCHANGED row /\ Goto(r, "idle")
    /\ UNCHANGED <<active, job>>

\* get_current_user: an owner that is gone is refused.
FindOwner(r) ==
    /\ pc[r] = "owner"
    /\ Goto(r, IF active THEN "admitted" ELSE "idle")
    /\ UNCHANGED <<row, active, job>>

\* The admitted request ends, or a request stops.
Leave(r) ==
    /\ pc[r] # "idle"
    /\ Goto(r, "idle")
    /\ UNCHANGED <<row, active, job>>
-----------------------------------------------------------------------------
\* set_api_key_enabled and delete_api_key: the row is read, then written.

Read(r, step, revoke) ==
    /\ pc[r] = "idle" /\ row.exists
    /\ job' = [job EXCEPT ![r] = [copy |-> row, revoke |-> revoke]]
    /\ Goto(r, step)
    /\ UNCHANGED <<row, active>>

\* Nothing is written when the copy says so already; a row that is gone fails the request.
SetEnabled(r) ==
    /\ pc[r] = "set"
    /\ IF row.exists /\ job[r].copy.revoked # job[r].revoke
       THEN row' = [row EXCEPT !.revoked = job[r].revoke]
       ELSE UNCHANGED row
    /\ Goto(r, "idle")
    /\ UNCHANGED <<active, job>>

Delete(r) ==
    /\ pc[r] = "delete"
    /\ row' = [row EXCEPT !.exists = FALSE]
    /\ Goto(r, "idle")
    /\ UNCHANGED <<active, job>>

\* The keys of an account go with it.
DeleteAccount ==
    /\ active /\ active' = FALSE
    /\ row' = [row EXCEPT !.exists = FALSE]
    /\ UNCHANGED <<pc, job>>

Expire == row' = [row EXCEPT !.expired = TRUE] /\ UNCHANGED <<active, pc, job>>

Next ==
    \/ \E r \in Uses : Resolve(r) \/ CountUse(r) \/ FindOwner(r)
    \/ \E r \in Changes :
        (\E revoke \in BOOLEAN : Read(r, "set", revoke)) \/ Read(r, "delete", FALSE)
          \/ SetEnabled(r) \/ Delete(r)
    \/ \E r \in Uses \cup Changes : Leave(r)
    \/ DeleteAccount \/ Expire

Spec == Init /\ [][Next]_vars
-----------------------------------------------------------------------------
\* Properties.

TypeOK ==
    /\ row \in Rows /\ active \in BOOLEAN
    /\ job \in [Uses \cup Changes -> [copy : Rows, revoke : BOOLEAN]]
    /\ ~active => ~row.exists

\* A key that was disabled, deleted or has expired is not usable again, whatever uses that
\* had read it before still write back; only an enable by its owner may end a disabling.
StopsWorking ==
    [][~Usable(row) /\ Usable(row')
          => \E r \in Changes : pc[r] = "set" /\ ~job[r].revoke /\ SetEnabled(r)]_vars
=============================================================================
