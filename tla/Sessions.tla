------------------------------ MODULE Sessions ------------------------------
(***************************************************************************)
(* The refresh sessions of one user and what ends them: logout, a changed  *)
(* or reset password, the account's deletion (services/auth.py,            *)
(* utils/token.py).                                                        *)
(*                                                                         *)
(* A session is a Redis key; a second key holds its CSRF proof and a set   *)
(* per user indexes the sessions.  No transaction joins them: every        *)
(* command is a step that other requests may come between, and a request   *)
(* may stop before any of its commands.  Lives are counted in ticks, so    *)
(* that a key set before a tick has less of its life left than one set     *)
(* after it.                                                               *)
(***************************************************************************)
EXTENDS Naturals

CONSTANTS
    Requests,   \* concurrent requests
    Sids,       \* session ids, each drawn by one login
    Ttl,        \* REFRESH_TOKEN_EXPIRE_DAYS, in ticks
    MaxHash,    \* bound: password hashes ever stored
    MaxProofs   \* bound: CSRF proofs ever stored for one session

ASSUME LivesAssumption == Ttl \in Nat \ {0}
ASSUME BoundsAssumption == MaxHash \in Nat \ {0} /\ MaxProofs \in Nat

VARIABLES
    live,    \* live[s]: what is left of the session's key, 0 when there is none
    csrf,    \* csrf[s]: the life and the value of its proof
    index,   \* the members of the user's set and what is left of its life
    hash,    \* the stored password hash; a new one never repeats an old one
    gone,    \* the account is deleted
    pc,      \* pc[r]: the next command of request r
    job,     \* job[r]: what it works on
    drawn,   \* history: session ids drawn by logins
    held,    \* history: sessions whose login was answered, with their cookies
    reset,   \* history: the hash the last password reset stored
    alone    \* history: the request under way that no other has overlapped, if any

vars == <<live, csrf, index, hash, gone, pc, job, drawn, held, reset, alone>>
redis == <<live, csrf, index>>
account == <<hash, gone>>
past == <<drawn, held, reset>>
history == <<drawn, held, reset, alone>>
-----------------------------------------------------------------------------
PCs == {"idle", "credential", "proof", "verify", "user",
        "setex", "extend", "add", "keep",
        "known", "ttl", "setnx", "fetch",
        "hash", "update", "erase", "members", "delete", "unindex", "commit"}
Proofs == 0..MaxProofs
NoProof == 0

\* The life of a set that SADD created and no EXPIRE has reached yet.
Forever == Ttl + 1

Job == [sid : SUBSET Sids,   \* the session it is about
        read : SUBSET Sids,  \* the members of the index it read
        ver : 0..MaxHash,    \* the password hash it read, to replace it
        ttl : 0..Ttl,        \* the session's life it read
        proof : Proofs]      \* the proof it presents

NoJob == [sid |-> {}, read |-> {}, ver |-> 0, ttl |-> 0, proof |-> NoProof]

Init ==
    /\ live = [s \in Sids |-> 0]
    /\ csrf = [s \in Sids |-> [life |-> 0, value |-> NoProof]]
    /\ index = [members |-> {}, life |-> 0]
    /\ hash = 1 /\ gone = FALSE
    /\ pc = [r \in Requests |-> "idle"] /\ job = [r \in Requests |-> NoJob]
    /\ drawn = {} /\ held = {} /\ reset = 1 /\ alone = {}

Goto(r, step) == pc' = [pc EXCEPT ![r] = step] /\ UNCHANGED <<job, alone>>

Done(r) ==
    /\ pc' = [pc EXCEPT ![r] = "idle"] /\ job' = [job EXCEPT ![r] = NoJob]
    /\ UNCHANGED alone

Hold(r, step, j) ==
    /\ pc' = [pc EXCEPT ![r] = step] /\ job' = [job EXCEPT ![r] = j]
    /\ UNCHANGED alone

Begin(r, step, j) ==
    /\ pc[r] = "idle"
    /\ pc' = [pc EXCEPT ![r] = step] /\ job' = [job EXCEPT ![r] = j]
    /\ alone' = IF \A q \in Requests : pc[q] = "idle" THEN {r} ELSE {}

About(r, s) == s \in job[r].sid
-----------------------------------------------------------------------------
\* Password and OAuth login: the credential is read, then the session stored.

BeginLogin(r) ==
    \E s \in Sids \ drawn :
        /\ Begin(r, "credential", [NoJob EXCEPT !.sid = {s}])
        /\ drawn' = drawn \cup {s}
        /\ UNCHANGED <<redis, account, held, reset>>

Credential(r) ==
    /\ pc[r] = "credential"
    /\ IF gone THEN Done(r) ELSE Goto(r, "setex")
    /\ UNCHANGED <<redis, account, past>>

\* Defect: the command creates the key it should extend.
ExpireOrCreate(n) == Ttl

\* EXPIRE does nothing to a key that does not exist.
Expire(n) == IF n = 0 THEN 0 ELSE Ttl

\* store_refresh_token, from here to Keep: four commands.
SetSession(r) ==
    \E s \in Sids :
        /\ pc[r] = "setex" /\ About(r, s)
        /\ live' = [live EXCEPT ![s] = Ttl]
        /\ Goto(r, "extend")
        /\ UNCHANGED <<csrf, index, account, past>>

ExtendProof(r) ==
    \E s \in Sids :
        /\ pc[r] = "extend" /\ About(r, s)
        /\ csrf' = [csrf EXCEPT ![s].life = Expire(@)]
        /\ Goto(r, "add")
        /\ UNCHANGED <<live, index, account, past>>

\* SADD keeps the life the set has; one it creates never expires until Keep.
AddIndex(r) ==
    /\ pc[r] = "add"
    /\ index' = [members |-> index.members \cup job[r].sid,
                 life |-> IF index.life = 0 THEN Forever ELSE index.life]
    /\ Goto(r, "keep")
    /\ UNCHANGED <<live, csrf, account, past>>

Keep(r) ==
    /\ pc[r] = "keep"
    /\ index' = [index EXCEPT !.life = Expire(@)]
    /\ held' = held \cup job[r].sid
    /\ Done(r)
    /\ UNCHANGED <<live, csrf, account, drawn, reset>>
-----------------------------------------------------------------------------
\* refresh_with_request_context and refresh_access_token: the cookies of a session
\* with a proof, or both values in the body without one.

BeginRefresh(r) ==
    \E s \in held :
        /\ \/ \E p \in Proofs :
                Begin(r, "proof", [NoJob EXCEPT !.sid = {s}, !.proof = p])
           \/ Begin(r, "verify", [NoJob EXCEPT !.sid = {s}])
        /\ UNCHANGED <<redis, account, past>>

CheckProof(r) ==
    /\ pc[r] = "proof"
    /\ IF \E s \in job[r].sid : csrf[s].life > 0 /\ csrf[s].value = job[r].proof
       THEN Hold(r, "verify", [job[r] EXCEPT !.proof = NoProof])
       ELSE Done(r)
    /\ UNCHANGED <<redis, account, past>>

\* Defect: a session that is gone is not noticed.
ValidAlways(s) == TRUE

Valid(s) == live[s] > 0

\* get_refresh_session and verify_refresh_token read the same key.
Verify(r) ==
    /\ pc[r] = "verify"
    /\ IF \A s \in job[r].sid : Valid(s) THEN Goto(r, "user") ELSE Done(r)
    /\ UNCHANGED <<redis, account, past>>

\* Defect: the user is not looked up again.
ActiveAlways(r) == Goto(r, "setex")

\* get_auth_user_by_id
Active(r) == IF gone THEN Done(r) ELSE Goto(r, "setex")

FindUser(r) ==
    /\ pc[r] = "user"
    /\ Active(r)
    /\ UNCHANGED <<redis, account, past>>
-----------------------------------------------------------------------------
\* bootstrap_refresh_csrf and get_or_create_refresh_csrf.

BeginBootstrap(r) ==
    \E s \in held :
        /\ Begin(r, "known", [NoJob EXCEPT !.sid = {s}])
        /\ UNCHANGED <<redis, account, past>>

Known(r) ==
    /\ pc[r] = "known"
    /\ IF \A s \in job[r].sid : Valid(s) THEN Goto(r, "ttl") ELSE Done(r)
    /\ UNCHANGED <<redis, account, past>>

ReadTtl(r) ==
    \E s \in Sids :
        /\ pc[r] = "ttl" /\ About(r, s)
        /\ IF live[s] = 0
           THEN Done(r)
           ELSE Hold(r, "setnx", [job[r] EXCEPT !.ttl = live[s]])
        /\ UNCHANGED <<redis, account, past>>

\* Defect: SET without NX.
FreeAlways(s) == TRUE

Free(s) == csrf[s].life = 0

SetProof(r) ==
    \E s \in Sids :
        /\ pc[r] = "setnx" /\ About(r, s)
        /\ Free(s) => csrf[s].value < MaxProofs
        /\ csrf' = IF Free(s)
                   THEN [csrf EXCEPT ![s] = [life |-> job[r].ttl, value |-> @.value + 1]]
                   ELSE csrf
        /\ Hold(r, "fetch", [job[r] EXCEPT !.ttl = 0])
        /\ UNCHANGED <<live, index, account, past>>

\* The answer is the proof found now, or an error when it is gone again.
Fetch(r) ==
    /\ pc[r] = "fetch"
    /\ Done(r)
    /\ UNCHANGED <<redis, account, past>>
-----------------------------------------------------------------------------
\* logout, change_password, reset_password and delete_account: the order of the
\* credential's own write and of delete_refresh_token differs.

BeginLogout(r) ==
    /\ ~gone
    /\ Begin(r, "members", NoJob)
    /\ UNCHANGED <<redis, account, past>>

BeginChange(r) ==
    /\ ~gone
    /\ Begin(r, "hash", NoJob)
    /\ UNCHANGED <<redis, account, past>>

\* The hash is read before the emailed code is consumed; a wrong code ends the
\* request (Cancel).
ReadHash(r) ==
    /\ pc[r] = "hash"
    /\ IF gone
       THEN Done(r)
       ELSE Hold(r, "members", [NoJob EXCEPT !.ver = hash])
    /\ UNCHANGED <<redis, account, past>>

\* The link of the mail was consumed and named this user.
BeginReset(r) ==
    /\ Begin(r, "update", NoJob)
    /\ UNCHANGED <<redis, account, past>>

UpdateHash(r) ==
    /\ pc[r] = "update" /\ hash < MaxHash
    /\ IF gone
       THEN Done(r) /\ UNCHANGED <<hash, reset>>
       ELSE Goto(r, "members") /\ hash' = hash + 1 /\ reset' = hash + 1
    /\ UNCHANGED <<redis, gone, drawn, held>>

BeginDelete(r) ==
    /\ ~gone
    /\ Begin(r, "erase", NoJob)
    /\ UNCHANGED <<redis, account, past>>

Erase(r) ==
    /\ pc[r] = "erase"
    /\ IF gone THEN Done(r) ELSE Goto(r, "members")
    /\ gone' = TRUE
    /\ UNCHANGED <<redis, hash, past>>

\* SMEMBERS
Members(r) ==
    /\ pc[r] = "members"
    /\ Hold(r, IF index.members = {} THEN "unindex" ELSE "delete",
            [job[r] EXCEPT !.read = index.members])
    /\ UNCHANGED <<redis, account, past>>

\* One DEL of every session key and proof that was read.
Delete(r) ==
    /\ pc[r] = "delete"
    /\ live' = [s \in Sids |-> IF s \in job[r].read THEN 0 ELSE live[s]]
    /\ csrf' = [s \in Sids |->
                  IF s \in job[r].read THEN [csrf[s] EXCEPT !.life = 0] ELSE csrf[s]]
    /\ Hold(r, "unindex", [job[r] EXCEPT !.read = {}])
    /\ UNCHANGED <<index, account, past>>

\* DEL of the set, with whatever was added to it since.
Unindex(r) ==
    /\ pc[r] = "unindex"
    /\ index' = [members |-> {}, life |-> 0]
    /\ IF job[r].ver > 0 THEN Goto(r, "commit") ELSE Done(r)
    /\ UNCHANGED <<live, csrf, account, past>>

\* Defect: the hash is replaced whatever it is by now.
UnmovedOrNot(r) == ~gone

Unmoved(r) == ~gone /\ hash = job[r].ver

\* change_password_hash: compare and swap.
Commit(r) ==
    /\ pc[r] = "commit" /\ hash < MaxHash
    /\ hash' = IF Unmoved(r) THEN hash + 1 ELSE hash
    /\ Done(r)
    /\ UNCHANGED <<redis, gone, past>>
-----------------------------------------------------------------------------
\* An error, a cancelled request or a process that stops, before any command.
Cancel(r) ==
    /\ pc[r] # "idle"
    /\ Done(r)
    /\ UNCHANGED <<redis, account, past>>

Older(n) == IF n \in {0, Forever} THEN n ELSE n - 1

\* Time passes; a key whose life is used up is gone.
Tick ==
    /\ live' = [s \in Sids |-> Older(live[s])]
    /\ csrf' = [s \in Sids |-> [csrf[s] EXCEPT !.life = Older(@)]]
    /\ index' = [members |-> IF index.life = 1 THEN {} ELSE index.members,
                 life |-> Older(index.life)]
    /\ UNCHANGED <<account, pc, job, history>>

Next ==
    \/ \E r \in Requests :
        \/ BeginLogin(r) \/ Credential(r)
        \/ SetSession(r) \/ ExtendProof(r) \/ AddIndex(r) \/ Keep(r)
        \/ BeginRefresh(r) \/ CheckProof(r) \/ Verify(r) \/ FindUser(r)
        \/ BeginBootstrap(r) \/ Known(r) \/ ReadTtl(r) \/ SetProof(r) \/ Fetch(r)
        \/ BeginLogout(r) \/ BeginChange(r) \/ ReadHash(r)
        \/ BeginReset(r) \/ UpdateHash(r) \/ BeginDelete(r) \/ Erase(r)
        \/ Members(r) \/ Delete(r) \/ Unindex(r) \/ Commit(r)
        \/ Cancel(r)
    \/ Tick

Spec == Init /\ [][Next]_vars
-----------------------------------------------------------------------------
\* Properties.

\* Every variable has its type, and the index has members exactly while its key
\* exists.
TypeOK ==
    /\ live \in [Sids -> 0..Ttl]
    /\ csrf \in [Sids -> [life : 0..Ttl, value : Proofs]]
    /\ index \in [members : SUBSET Sids, life : 0..Forever]
    /\ index.life = 0 <=> index.members = {}
    /\ hash \in 1..MaxHash /\ gone \in BOOLEAN
    /\ pc \in [Requests -> PCs] /\ job \in [Requests -> Job]
    /\ \A r \in Requests : pc[r] = "add" => job[r].sid # {}
    /\ held \subseteq drawn /\ drawn \subseteq Sids
    /\ reset \in 1..MaxHash /\ alone \subseteq Requests

\* A request holds a valid copy of session s, or draws it, and is about to store it.
Storing(s) == \E r \in Requests : About(r, s) /\ pc[r] \in {"credential", "user", "setex"}

\* A session that has expired or was revoked, and that no request had verified
\* before it went, never comes back.
Ended(s) == s \in drawn /\ live[s] = 0 /\ ~Storing(s)

EndedStaysEnded == [][\A s \in Sids : Ended(s) => Ended(s)']_vars

\* notes/csrf.md: concurrent bootstraps of one session share one value, and a refresh
\* that extends the proof keeps it; the proof of a page never changes under it.
ProofStable ==
    [][\A s \in Sids :
          csrf[s].life > 0 /\ csrf'[s].life > 0 => csrf'[s].value = csrf[s].value]_vars

\* delete_account: once the principal is deleted, and the requests that had found it
\* before have ended, no session is stored or renewed.
Renews(r) == pc[r] = "setex"

Quiet == gone /\ \A r \in Requests : ~Renews(r)

DeletedStaysOut ==
    [][Quiet => Quiet' /\ \A s \in Sids : live'[s] <= live[s]]_vars

\* change_password_hash: a change that read the credential before a reset replaced it
\* never replaces the password of the reset, however long its code and its
\* revocation take.
ResetSticks ==
    [][\A r \in Requests : Commit(r) /\ hash' # hash => job[r].ver >= reset]_vars

\* contracts/README.md: "Logout invalidates all refresh sessions for that user";
\* asked only of a logout that no other request overlaps, and of the sessions whose
\* login was answered.
LogoutRevokesAll ==
    [][\A r \in alone : Unindex(r) => \A s \in held : live[s] = 0]_vars
=============================================================================
