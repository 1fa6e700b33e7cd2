----------------------------- MODULE Identities -----------------------------
(***************************************************************************)
(* How people become users (services/auth.py, models/user.py): sign-up     *)
(* with a verification mail, and OAuth callbacks that find, link or create *)
(* an account; and the welcome that follows.  Each database transaction    *)
(* and each Redis command is a step.                                       *)
(***************************************************************************)
EXTENDS Naturals, FiniteSets

CONSTANTS
    Requests,     \* concurrent requests
    Emails,       \* addresses
    Subjects,     \* accounts at OAuth providers
    EmailOf,      \* EmailOf[s]: the verified address of subject s
    ProviderOf,   \* ProviderOf[s]: its provider
    States,       \* OAuth states ever drawn
    MaxUsers      \* bound: users ever created

Ids == 1..MaxUsers

VARIABLES
    users,    \* users[u]: a row of users with its identities, or none
    tokens,   \* users with a verification token
    states,   \* states[s]: "new", "live" or "gone"
    pc, job,  \* pc[r]: the next step of request r; job[r]: what it works on
    welcomed, \* welcomed[u]: welcome mails queued
    missed    \* history: users whose welcome failed, or whose request stopped before it

vars == <<users, tokens, states, pc, job, welcomed, missed>>
-----------------------------------------------------------------------------
\* An address no user has.
NoEmail == "none"
NoJob == [user |-> 0, subject |-> {}, state |-> {}]
Unborn == [phase |-> "unborn", email |-> NoEmail, verified |-> FALSE, subjects |-> {}]

Init ==
    /\ users = [u \in Ids |-> Unborn]
    /\ tokens = {}
    /\ states = [s \in States |-> "new"]
    /\ pc = [r \in Requests |-> "idle"] /\ job = [r \in Requests |-> NoJob]
    /\ welcomed = [u \in Ids |-> 0] /\ missed = {}

Goto(r, step, j) == pc' = [pc EXCEPT ![r] = step] /\ job' = [job EXCEPT ![r] = j]
Done(r) == Goto(r, "idle", NoJob)

Live(u) == users[u].phase = "live"
WithEmail(e) == {u \in Ids : Live(u) /\ users[u].email = e}
WithSubject(s) == {u \in Ids : Live(u) /\ s \in users[u].subjects}

\* The id of the next row; ids are not used again.
NextId == Cardinality({u \in Ids : users[u].phase # "unborn"}) + 1

\* One insert and its unique keys; the inbox entry is in the same transaction.
Insert(e, verified, subjects) ==
    /\ NextId \in Ids
    /\ users' = [users EXCEPT ![NextId] =
          [phase |-> "live", email |-> e, verified |-> verified, subjects |-> subjects]]
-----------------------------------------------------------------------------
\* signup, resend_verification_email, verify_email

Signup(r, e) ==
    /\ pc[r] = "idle" /\ WithEmail(e) = {}
    /\ Insert(e, FALSE, {})
    /\ Goto(r, "token", [NoJob EXCEPT !.user = NextId])
    /\ UNCHANGED <<tokens, states, welcomed, missed>>

Resend(r, u) ==
    /\ pc[r] = "idle" /\ Live(u) /\ ~users[u].verified
    /\ Goto(r, "token", [NoJob EXCEPT !.user = u])
    /\ UNCHANGED <<users, tokens, states, welcomed, missed>>

\* store_email_verification_token: the token stored last is the one that counts.
StoreToken(r) ==
    /\ pc[r] = "token"
    /\ tokens' = tokens \cup {job[r].user}
    /\ Done(r)
    /\ UNCHANGED <<users, states, welcomed, missed>>

\* consume_email_verification_token, one Redis transaction
Verify(r, u) ==
    /\ pc[r] = "idle" /\ u \in tokens
    /\ tokens' = tokens \ {u}
    /\ Goto(r, "mark", [NoJob EXCEPT !.user = u])
    /\ UNCHANGED <<users, states, welcomed, missed>>

\* Defect: the update does not ask whether the user is verified already.
UnverifiedOrNot(u) == Live(u)

Unverified(u) == Live(u) /\ ~users[u].verified

\* mark_email_verified: only the update that changes the row returns it.
Mark(r) ==
    LET u == job[r].user IN
    /\ pc[r] = "mark"
    /\ IF Unverified(u)
       THEN users' = [users EXCEPT ![u].verified = TRUE] /\ Goto(r, "welcome", job[r])
       ELSE UNCHANGED users /\ Done(r)
    /\ UNCHANGED <<tokens, states, welcomed, missed>>

\* A failure is logged and answered like a success.
Welcome(r) ==
    LET u == job[r].user IN
    /\ pc[r] = "welcome"
    /\ \/ welcomed' = [welcomed EXCEPT ![u] = @ + 1] /\ UNCHANGED missed
       \/ missed' = missed \cup {u} /\ UNCHANGED welcomed
    /\ Done(r)
    /\ UNCHANGED <<users, tokens, states>>
-----------------------------------------------------------------------------
\* build_oauth_authorization_url, oauth_callback_login, _resolve_oauth_user

StartOAuth(s) ==
    /\ states[s] = "new"
    /\ states' = [states EXCEPT ![s] = "live"]
    /\ UNCHANGED <<users, tokens, pc, job, welcomed, missed>>

\* consume_oauth_state reads the state, and deletes it by a second command.
Callback(r, s, x) ==
    /\ pc[r] = "idle" /\ states[s] = "live"
    /\ Goto(r, "consume", [NoJob EXCEPT !.subject = {x}, !.state = {s}])
    /\ UNCHANGED <<users, tokens, states, welcomed, missed>>

Consume(r) ==
    /\ pc[r] = "consume"
    /\ states' = [s \in States |-> IF s \in job[r].state THEN "gone" ELSE states[s]]
    /\ Goto(r, "identity", [job[r] EXCEPT !.state = {}])
    /\ UNCHANGED <<users, tokens, welcomed, missed>>

\* After the provider has answered: get_auth_user_by_identity and
\* get_user_response_by_email, two queries.
Find(r) ==
    \E x \in job[r].subject :
        /\ \/ /\ pc[r] = "identity"
              /\ IF WithSubject(x) # {}
                 THEN \E u \in WithSubject(x) : Goto(r, "enter", [job[r] EXCEPT !.user = u])
                 ELSE Goto(r, "email", job[r])
           \/ /\ pc[r] = "email"
              /\ IF WithEmail(EmailOf[x]) # {}
                 THEN \E u \in WithEmail(EmailOf[x]) :
                        Goto(r, "link", [job[r] EXCEPT !.user = u])
                 ELSE Goto(r, "create", job[r])
        /\ UNCHANGED <<users, tokens, states, welcomed, missed>>

\* uq_auth_identities_provider_identifier and uq_auth_identities_user_provider
Linkable(u, x) ==
    /\ Live(u) /\ WithSubject(x) = {}
    /\ \A y \in users[u].subjects : ProviderOf[y] # ProviderOf[x]

Link(r) ==
    LET u == job[r].user IN
    \E x \in job[r].subject :
        /\ pc[r] = "link"
        /\ IF Linkable(u, x)
           THEN users' = [users EXCEPT ![u].subjects = @ \cup {x}] /\ Goto(r, "enter", job[r])
           ELSE UNCHANGED users /\ Done(r)
        /\ UNCHANGED <<tokens, states, welcomed, missed>>

\* create_oauth_user, and the lookup of the identity it inserted
Create(r) ==
    \E x \in job[r].subject :
        /\ pc[r] = "create"
        /\ IF WithEmail(EmailOf[x]) = {} /\ WithSubject(x) = {}
           THEN Insert(EmailOf[x], TRUE, {x})
                /\ Goto(r, "welcome", [job[r] EXCEPT !.user = NextId])
           ELSE UNCHANGED users /\ Done(r)
        /\ UNCHANGED <<tokens, states, welcomed, missed>>

\* update_login_metadata, and the tokens of the session
Enter(r) ==
    /\ pc[r] = "enter"
    /\ Done(r)
    /\ UNCHANGED <<users, tokens, states, welcomed, missed>>
-----------------------------------------------------------------------------
\* delete_account, and delete_account_tokens after it
Delete(u) ==
    /\ Live(u)
    /\ users' = [users EXCEPT ![u].phase = "gone"]
    /\ tokens' = tokens \ {u}
    /\ UNCHANGED <<states, pc, job, welcomed, missed>>

\* The process stops, or a store or the provider fails.
Stop(r) ==
    /\ pc[r] # "idle"
    /\ missed' = IF pc[r] = "welcome" THEN missed \cup {job[r].user} ELSE missed
    /\ Done(r)
    /\ UNCHANGED <<users, tokens, states, welcomed>>

Next ==
    \/ \E r \in Requests :
        \/ \E e \in Emails : Signup(r, e)
        \/ \E u \in Ids : Resend(r, u) \/ Verify(r, u)
        \/ StoreToken(r) \/ Mark(r) \/ Welcome(r)
        \/ \E s \in States, x \in Subjects : Callback(r, s, x)
        \/ Consume(r) \/ Find(r) \/ Link(r) \/ Create(r) \/ Enter(r)
        \/ Stop(r)
    \/ \E s \in States : StartOAuth(s)
    \/ \E u \in Ids : Delete(u)

Spec == Init /\ [][Next]_vars
-----------------------------------------------------------------------------
\* Properties.

TypeOK ==
    /\ users \in [Ids -> [phase : {"unborn", "live", "gone"}, email : Emails \cup {NoEmail},
                          verified : BOOLEAN, subjects : SUBSET Subjects]]
    /\ tokens \subseteq Ids /\ missed \subseteq Ids
    /\ states \in [States -> {"new", "live", "gone"}]
    /\ job \in [Requests -> [user : Ids \cup {0}, subject : SUBSET Subjects,
                             state : SUBSET States]]
    /\ welcomed \in [Ids -> Nat]

\* _send_welcome_email: a user is greeted by mail once, when the account becomes usable,
\* whichever of several verification links and callbacks does it; only a failure may
\* leave the greeting out.
WelcomeOnce ==
    \A u \in Ids :
        /\ welcomed[u] <= 1
        /\ users[u].verified =>
            welcomed[u] = 1 \/ u \in missed
              \/ \E r \in Requests : pc[r] = "welcome" /\ job[r].user = u
=============================================================================
