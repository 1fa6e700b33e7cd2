--------------------------- MODULE OneTimeTokens ---------------------------
(***************************************************************************)
(* The one-time links that verify an address or reset a password           *)
(* (utils/token.py), for one user: every token has an entry of its own,    *)
(* and one key per user points at the latest token.                        *)
(*                                                                         *)
(* Storing a token, consuming a reset token and deleting an account's      *)
(* tokens are sequences of Redis commands, each a step that other requests *)
(* may come between; consuming a verification token is a WATCH/MULTI/EXEC  *)
(* transaction.                                                            *)
(***************************************************************************)
EXTENDS Naturals

CONSTANTS
    Requests,   \* concurrent requests
    Purposes,   \* the prefixes of the keys, one of them per instance
    MaxTries,   \* attempts at one transaction before RuntimeError
    MaxTokens   \* bound: tokens ever created

ASSUME PurposesAssumption == Purposes \subseteq {"email_verify", "password_reset"}
ASSUME TokensAssumption == MaxTries \in Nat \ {0} /\ MaxTokens \in Nat

\* The n-th secret that token_urlsafe returns; 0 stands for no token, and for a
\* link that names none.
Tokens == 1..MaxTokens
NoToken == 0

VARIABLES
    purpose,  \* which of the two kinds of link this is; it never changes
    entry,    \* the tokens whose own key exists
    current,  \* the token in the user's key, or NoToken
    pc,       \* pc[r]: the next command of request r
    job,      \* job[r]: its token, the token it read, its tries
    created,  \* history: number of tokens created
    mailed,   \* history: tokens handed to the mail queue
    latest,   \* history: the last token the user's key was set to
    spent,    \* history: tokens expired, replaced, or being consumed
    uses,     \* history: uses[t] is how often t was accepted
    erased    \* the account is deleted

vars == <<purpose, entry, current, pc, job, created, mailed, latest, spent, uses, erased>>
redis == <<entry, current>>
history == <<created, mailed, latest, spent, uses, erased>>
-----------------------------------------------------------------------------
PCs == {"idle", "previous", "unlink", "put", "point", "mail",
        "lookup", "match", "exec", "drop", "clear",
        "find", "remove", "forget"}

\* late: the link was already replaced when the request arrived.
Job == [token : {NoToken} \cup Tokens, read : {NoToken} \cup Tokens,
        tries : 1..MaxTries, late : BOOLEAN]

NoJob == [token |-> NoToken, read |-> NoToken, tries |-> 1, late |-> FALSE]

Init ==
    /\ purpose \in Purposes
    /\ entry = {} /\ current = NoToken
    /\ pc = [r \in Requests |-> "idle"]
    /\ job = [r \in Requests |-> NoJob]
    /\ created = 0 /\ mailed = {} /\ latest = NoToken
    /\ spent = {} /\ uses = [t \in Tokens |-> 0]
    /\ erased = FALSE

Goto(r, step) == pc' = [pc EXCEPT ![r] = step] /\ UNCHANGED job

Done(r) ==
    /\ pc' = [pc EXCEPT ![r] = "idle"]
    /\ job' = [job EXCEPT ![r] = NoJob]
-----------------------------------------------------------------------------
\* store_email_verification_token and store_password_reset_token, then the mail.

BeginStore(r) ==
    /\ pc[r] = "idle" /\ ~erased
    /\ created < MaxTokens
    /\ created' = created + 1
    /\ job' = [job EXCEPT ![r] = [NoJob EXCEPT !.token = created + 1]]
    /\ pc' = [pc EXCEPT ![r] = "previous"]
    /\ UNCHANGED <<purpose, redis, mailed, latest, spent, uses, erased>>

\* GET of the user's key: the token found there is about to be replaced.
GetPrevious(r) ==
    /\ pc[r] = "previous"
    /\ job' = [job EXCEPT ![r].read = current]
    /\ pc' = [pc EXCEPT ![r] = IF current = NoToken THEN "put" ELSE "unlink"]
    /\ spent' = spent \cup ({current} \ {NoToken})
    /\ UNCHANGED <<purpose, redis, created, mailed, latest, uses, erased>>

Unlink(r) ==
    /\ pc[r] = "unlink"
    /\ entry' = entry \ {job[r].read}
    /\ Goto(r, "put")
    /\ UNCHANGED <<purpose, current, history>>

Put(r) ==
    /\ pc[r] = "put"
    /\ entry' = entry \cup {job[r].token}
    /\ Goto(r, "point")
    /\ UNCHANGED <<purpose, current, history>>

Point(r) ==
    /\ pc[r] = "point"
    /\ current' = job[r].token
    /\ latest' = job[r].token
    /\ Goto(r, "mail")
    /\ UNCHANGED <<purpose, entry, created, mailed, spent, uses, erased>>

Mail(r) ==
    /\ pc[r] = "mail"
    /\ mailed' = mailed \cup {job[r].token}
    /\ Done(r)
    /\ UNCHANGED <<purpose, redis, created, latest, spent, uses, erased>>
-----------------------------------------------------------------------------
\* consume_email_verification_token and consume_password_reset_token.

\* Somebody follows a link: a mailed one, or one that names no token.
BeginConsume(r) ==
    /\ pc[r] = "idle"
    /\ \E t \in mailed \cup {NoToken} :
        job' = [job EXCEPT ![r] = [NoJob EXCEPT !.token = t, !.late = (latest # t)]]
    /\ pc' = [pc EXCEPT ![r] = "lookup"]
    /\ UNCHANGED <<purpose, redis, history>>

\* Defect: an absent entry is not noticed.
KnownOrNot(t) == TRUE

Known(t) == t \in entry

\* GET (after WATCH) of the token's own key.
Lookup(r) ==
    /\ pc[r] = "lookup"
    /\ IF Known(job[r].token) THEN Goto(r, "match") ELSE Done(r)
    /\ UNCHANGED <<purpose, redis, history>>

\* Defect: an entry alone makes a token valid.
MatchesAny(t) == t \in entry

Matches(t) == current = t

\* GET (after WATCH) of the user's key.
Match(r) ==
    /\ pc[r] = "match"
    /\ IF Matches(job[r].token)
       THEN Goto(r, IF purpose = "email_verify" THEN "exec" ELSE "drop")
       ELSE Done(r)
    /\ UNCHANGED <<purpose, redis, history>>

Accept(r) == uses' = [uses EXCEPT ![job[r].token] = @ + 1]

\* Defect: only the token's own key is watched.
EntryUntouched(t) == t \in entry

\* Neither key was written, deleted or has expired since it was read: a token is
\* put only once, so the values that were read say so.
Untouched(t) == t \in entry /\ current = t

\* EXEC deletes both keys together.
ExecWon(r) ==
    /\ pc[r] = "exec"
    /\ Untouched(job[r].token)
    /\ entry' = entry \ {job[r].token}
    /\ current' = NoToken
    /\ spent' = spent \cup {job[r].token}
    /\ Accept(r)
    /\ Done(r)
    /\ UNCHANGED <<purpose, created, mailed, latest, erased>>

\* WatchError: another try, MaxTries times in all.
ExecLost(r) ==
    /\ pc[r] = "exec"
    /\ ~Untouched(job[r].token)
    /\ IF job[r].tries < MaxTries
       THEN /\ job' = [job EXCEPT ![r].tries = @ + 1]
            /\ pc' = [pc EXCEPT ![r] = "lookup"]
       ELSE Done(r)
    /\ UNCHANGED <<purpose, redis, history>>

\* A reset token's keys are deleted by separate commands.
Drop(r) ==
    /\ pc[r] = "drop"
    /\ entry' = entry \ {job[r].token}
    /\ spent' = spent \cup {job[r].token}
    /\ Goto(r, "clear")
    /\ UNCHANGED <<purpose, current, created, mailed, latest, uses, erased>>

Clear(r) ==
    /\ pc[r] = "clear"
    /\ current' = NoToken
    /\ Accept(r)
    /\ Done(r)
    /\ UNCHANGED <<purpose, entry, created, mailed, latest, spent, erased>>
-----------------------------------------------------------------------------
\* delete_account_tokens, after the account was deleted.

BeginErase(r) ==
    /\ pc[r] = "idle" /\ ~erased
    /\ erased' = TRUE
    /\ pc' = [pc EXCEPT ![r] = "find"]
    /\ UNCHANGED <<purpose, redis, job, created, mailed, latest, spent, uses>>

Find(r) ==
    /\ pc[r] = "find"
    /\ job' = [job EXCEPT ![r].read = current]
    /\ pc' = [pc EXCEPT ![r] = IF current = NoToken THEN "forget" ELSE "remove"]
    /\ UNCHANGED <<purpose, redis, history>>

Remove(r) ==
    /\ pc[r] = "remove"
    /\ entry' = entry \ {job[r].read}
    /\ Goto(r, "forget")
    /\ UNCHANGED <<purpose, current, history>>

Forget(r) ==
    /\ pc[r] = "forget"
    /\ current' = NoToken
    /\ Done(r)
    /\ UNCHANGED <<purpose, entry, history>>
-----------------------------------------------------------------------------
\* A request is cancelled, or Redis or its process fails, between two commands.
Cancel(r) ==
    /\ pc[r] # "idle"
    /\ Done(r)
    /\ UNCHANGED <<purpose, redis, history>>

\* A token's own key is set before the user's key, with the same life.
Expire ==
    \E t \in entry :
        /\ entry' = entry \ {t}
        /\ spent' = spent \cup {t}
        /\ UNCHANGED <<purpose, current, pc, job, created, mailed, latest, uses, erased>>

ExpireCurrent ==
    /\ current # NoToken /\ current \notin entry
    /\ current' = NoToken
    /\ UNCHANGED <<purpose, entry, pc, job, history>>

Next ==
    \/ \E r \in Requests :
        \/ BeginStore(r) \/ GetPrevious(r) \/ Unlink(r) \/ Put(r) \/ Point(r) \/ Mail(r)
        \/ BeginConsume(r) \/ Lookup(r) \/ Match(r)
        \/ ExecWon(r) \/ ExecLost(r) \/ Drop(r) \/ Clear(r)
        \/ BeginErase(r) \/ Find(r) \/ Remove(r) \/ Forget(r)
        \/ Cancel(r)
    \/ Expire \/ ExpireCurrent

Spec == Init /\ [][Next]_vars
-----------------------------------------------------------------------------
\* Properties.

\* Every variable has its type, and no request gets as far as accepting a link that
\* names no token.
TypeOK ==
    /\ purpose \in Purposes
    /\ entry \subseteq Tokens
    /\ current \in {NoToken} \cup Tokens
    /\ pc \in [Requests -> PCs]
    /\ job \in [Requests -> Job]
    /\ \A r \in Requests : pc[r] \in {"exec", "drop", "clear"} => job[r].token \in Tokens
    /\ created \in 0..MaxTokens
    /\ mailed \subseteq Tokens
    /\ latest \in {NoToken} \cup Tokens
    /\ spent \subseteq Tokens
    /\ uses \in [Tokens -> Nat]
    /\ erased \in BOOLEAN

Verifies == purpose = "email_verify"

\* BACKEND.md: concurrent consumers of a verification link cannot both succeed.
VerifiedOnce == Verifies => \A t \in Tokens : uses[t] <= 1

\* templates.py: "Reset your password with a secure one-time link."
ResetOnce == ~Verifies => \A t \in Tokens : uses[t] <= 1

\* consume_email_verification_token: what is accepted is the latest token at that
\* moment, even when a resend replaces it while it is being evaluated.
OnlyLatest ==
    [][Verifies => \A t \in Tokens : uses'[t] # uses[t] => t = latest]_vars

\* Both purposes: a link that was already replaced when the request arrived is
\* refused, although concurrent resends may leave its entry behind.
ReplacedIsRefused ==
    [][\A r \in Requests : ExecWon(r) \/ Clear(r) => ~job[r].late]_vars

\* consume_email_verification_token: what a request lost to once makes its next try
\* return, so contention never uses up the tries and never becomes an error.
NeverContends == \A r \in Requests : job[r].tries <= 2

\* store, consume: the verification token stored last works until it is used,
\* replaced or expires; no older request still under way takes it along.
NoTokenLost ==
    Verifies /\ ~erased /\ latest \notin spent \cup {NoToken} =>
        current = latest /\ latest \in entry
=============================================================================
