------------------------------ MODULE Services ------------------------------
(***************************************************************************)
(* The modules that share no variable with another, side by side: the part *)
(* chosen in the initial state runs, the others stay where they begin.     *)
(* The profile photo is the part this module extends; the constants of the *)
(* others are declared here with what the code says of their values.       *)
(***************************************************************************)
EXTENDS ProfilePhoto

CONSTANTS
    Parts,                            \* the parts that may run
    Clients, FailLimit,               \* LoginLimit; the clients of SingleFlight too
    Emails, Subjects, States,         \* Identities
    EmailOf, ProviderOf, MaxUsers,
    Threads, Replies, MaxMessages,    \* Inquiries
    Producers, DeliveryKeys, MaxId,   \* Inbox
    Uses, Changes, MaxCount,          \* ApiKeys
    Customers, Broken, BatchLimit,    \* Reconcile
    MaxVersion,
    Workers, MaxRetries, MaxFaults,   \* MailTask
    Processes,                        \* Lifespan
    N, Backend, Builders, Package,    \* VerifyRunner
    Jobs, Contents, Good,
    Releases, Fitting                 \* Rollout

ASSUME LoginsAssumption == FailLimit \in Nat \ {0} /\ IsFiniteSet(Clients)

ASSUME PeopleAssumption == MaxUsers \in Nat /\ EmailOf \in [Subjects -> Emails]

\* A thread is known by the request id of its first message, which is no reply.
ASSUME SupportAssumption == MaxMessages \in Nat /\ Threads \cap Replies = {}

ASSUME NoticesAssumption == MaxId \in Nat /\ "page" \notin Producers

ASSUME KeysAssumption == MaxCount \in Nat /\ Uses \cap Changes = {}

ASSUME SnapshotsAssumption ==
    /\ IsFiniteSet(Customers) /\ Broken \subseteq Customers
    /\ BatchLimit \in Nat /\ MaxVersion \in Nat

ASSUME MailsAssumption == MaxRetries \in Nat /\ MaxFaults \in Nat

\* The plan ends with the packaging, which the frontend lane contains, after the commands of the
\* lane that build what it packages.
ASSUME ChecksAssumption ==
    /\ N \in Nat /\ Package \in 1..N /\ \A i \in 1..N : i <= Package
    /\ Builders \subseteq (1..N) \ (Backend \cup {Package}) /\ Builders # {}
    /\ Package \notin Backend /\ Jobs \in Nat

\* 0 stands for no release.
ASSUME RolloutsAssumption == Releases \subseteq Nat \ {0} /\ Releases # {}

VARIABLES
    part,
    lFails, lExpiring, lPc, lCut,
    iUsers, iTokens, iStates, iPc, iJob, iWelcomed, iMissed,
    qMessages, qStatus, qTold, qHolder, qPc, qJob,
    nRows, nPc, nJob, nOpen, nEvent, nFetch, nSeen, nThrough, nMissed,
    aRow, aActive, aPc, aJob,
    rVersion, rSnap, rSynced, rBatch,
    mQueue, mHeld, mPc, mFresh, mValid, mTries, mSent, mArchived, mFaults,
    fCache, fSnap, fTask, fLoad, fCalls, fPc,
    bPc, bOpen, bServes, bSchema, bAccount, bFailed,
    vContent, vDist, vShipped, vReceipts, vSt, vKey, vTouched, vDoubtful,
    dCommand, dTodo, dMail, dTag, dOn, dUp, dSchema, dProven

Logins == INSTANCE LoginLimit WITH
    Requests <- Clients, Limit <- FailLimit,
    fails <- lFails, expiring <- lExpiring, pc <- lPc, cut <- lCut

People == INSTANCE Identities WITH
    users <- iUsers, tokens <- iTokens, states <- iStates, pc <- iPc, job <- iJob,
    welcomed <- iWelcomed, missed <- iMissed

Support == INSTANCE Inquiries WITH
    messages <- qMessages, status <- qStatus, told <- qTold, holder <- qHolder, pc <- qPc,
    job <- qJob

Notices == INSTANCE Inbox WITH
    rows <- nRows, pc <- nPc, job <- nJob, open <- nOpen, event <- nEvent, fetch <- nFetch,
    seen <- nSeen, through <- nThrough, missed <- nMissed

Credentials == INSTANCE ApiKeys WITH
    row <- aRow, active <- aActive, pc <- aPc, job <- aJob

Snapshots == INSTANCE Reconcile WITH
    Limit <- BatchLimit,
    version <- rVersion, snap <- rSnap, synced <- rSynced, batch <- rBatch

Mails == INSTANCE MailTask WITH
    queue <- mQueue, held <- mHeld, pc <- mPc, fresh <- mFresh, valid <- mValid, tries <- mTries,
    sent <- mSent, archived <- mArchived, faults <- mFaults

Probes == INSTANCE SingleFlight WITH
    Requests <- Clients,
    cache <- fCache, snap <- fSnap, task <- fTask, load <- fLoad, calls <- fCalls, pc <- fPc

Starts == INSTANCE Lifespan WITH
    pc <- bPc, open <- bOpen, serves <- bServes, schema <- bSchema, account <- bAccount,
    failed <- bFailed

Checks == INSTANCE VerifyRunner WITH
    content <- vContent, dist <- vDist, shipped <- vShipped, receipts <- vReceipts, st <- vSt,
    key <- vKey, touched <- vTouched, doubtful <- vDoubtful

Rollouts == INSTANCE Rollout WITH
    command <- dCommand, todo <- dTodo, mail <- dMail, tag <- dTag, on <- dOn, up <- dUp,
    schema <- dSchema, proven <- dProven

lVars == <<lFails, lExpiring, lPc, lCut>>
iVars == <<iUsers, iTokens, iStates, iPc, iJob, iWelcomed, iMissed>>
qVars == <<qMessages, qStatus, qTold, qHolder, qPc, qJob>>
nVars == <<nRows, nPc, nJob, nOpen, nEvent, nFetch, nSeen, nThrough, nMissed>>
aVars == <<aRow, aActive, aPc, aJob>>
rVars == <<rVersion, rSnap, rSynced, rBatch>>
mVars == <<mQueue, mHeld, mPc, mFresh, mValid, mTries, mSent, mArchived, mFaults>>
fVars == <<fCache, fSnap, fTask, fLoad, fCalls, fPc>>
bVars == <<bPc, bOpen, bServes, bSchema, bAccount, bFailed>>
vVars == <<vContent, vDist, vShipped, vReceipts, vSt, vKey, vTouched, vDoubtful>>
dVars == <<dCommand, dTodo, dMail, dTag, dOn, dUp, dSchema, dProven>>
allVars == <<part, lVars, iVars, qVars, nVars, aVars, vars, rVars, mVars, fVars, bVars, vVars, dVars>>

AllInit ==
    /\ part \in Parts
    /\ Logins!Init /\ People!Init /\ Support!Init /\ Notices!Init /\ Credentials!Init /\ Init
    /\ Snapshots!Init /\ Mails!Init /\ Probes!Init /\ Starts!Init /\ Checks!Init /\ Rollouts!Init
    \* The choices of the parts that do not run are fixed.
    /\ part # "mails" => mValid
    /\ part # "checks" => vContent = CHOOSE c \in Contents : TRUE
    /\ part # "rollouts" => ~dMail /\ dTag = CHOOSE t \in Releases : TRUE

AllNext ==
    /\ UNCHANGED part
    /\ \/ part = "logins" /\ Logins!Next
          /\ UNCHANGED <<iVars, qVars, nVars, aVars, vars, rVars, mVars, fVars, bVars, vVars, dVars>>
       \/ part = "people" /\ People!Next
          /\ UNCHANGED <<lVars, qVars, nVars, aVars, vars, rVars, mVars, fVars, bVars, vVars, dVars>>
       \/ part = "support" /\ Support!Next
          /\ UNCHANGED <<lVars, iVars, nVars, aVars, vars, rVars, mVars, fVars, bVars, vVars, dVars>>
       \/ part = "notices" /\ Notices!Next
          /\ UNCHANGED <<lVars, iVars, qVars, aVars, vars, rVars, mVars, fVars, bVars, vVars, dVars>>
       \/ part = "keys" /\ Credentials!Next
          /\ UNCHANGED <<lVars, iVars, qVars, nVars, vars, rVars, mVars, fVars, bVars, vVars, dVars>>
       \/ part = "photos" /\ Next
          /\ UNCHANGED <<lVars, iVars, qVars, nVars, aVars, rVars, mVars, fVars, bVars, vVars, dVars>>
       \/ part = "snapshots" /\ Snapshots!Next
          /\ UNCHANGED <<lVars, iVars, qVars, nVars, aVars, vars, mVars, fVars, bVars, vVars, dVars>>
       \/ part = "mails" /\ Mails!Next
          /\ UNCHANGED <<lVars, iVars, qVars, nVars, aVars, vars, rVars, fVars, bVars, vVars, dVars>>
       \/ part = "probes" /\ Probes!Next
          /\ UNCHANGED <<lVars, iVars, qVars, nVars, aVars, vars, rVars, mVars, bVars, vVars, dVars>>
       \/ part = "starts" /\ Starts!Next
          /\ UNCHANGED <<lVars, iVars, qVars, nVars, aVars, vars, rVars, mVars, fVars, vVars, dVars>>
       \/ part = "checks" /\ Checks!Next
          /\ UNCHANGED <<lVars, iVars, qVars, nVars, aVars, vars, rVars, mVars, fVars, bVars, dVars>>
       \/ part = "rollouts" /\ Rollouts!Next
          /\ UNCHANGED <<lVars, iVars, qVars, nVars, aVars, vars, rVars, mVars, fVars, bVars, vVars>>

\* The fairness of Reconcile and of MailTask, for the part that runs.
Fairness ==
    /\ WF_rVars(part = "snapshots" /\ Snapshots!Start)
    /\ \A c \in Customers : SF_rVars(part = "snapshots" /\ Snapshots!Sync(c))
    /\ WF_mVars(part = "mails" /\ \E w \in Workers : Mails!Work(w))
    /\ SF_mVars(part = "mails" /\ \E w \in Workers : Mails!Archive(w))

AllSpec == AllInit /\ [][AllNext]_allVars /\ Fairness

\* Every part's variables have their types.
AllTypeOK ==
    /\ Logins!TypeOK /\ People!TypeOK /\ Support!TypeOK /\ Notices!TypeOK /\ Credentials!TypeOK
    /\ TypeOK /\ Snapshots!TypeOK /\ Mails!TypeOK /\ Probes!TypeOK /\ Starts!TypeOK
    /\ Checks!TypeOK /\ Rollouts!TypeOK

\* Wrong passwords stay below the limit and one per concurrent login, and a lock ends (LoginLimit).
AddressGuarded == Logins!AddressGuarded

\* A user is greeted by mail once (Identities).
WelcomeOnce == People!WelcomeOnce

\* A retry is answered like the request it repeats; no reply to a closed or full thread (Inquiries).
RepliesSound == Support!RepliesSound

\* A notification is delivered once, deleted or not (Inbox).
DeliveredOnce == Notices!DeliveredOnce

\* A connected page shows what is stored (Inbox).
PageFresh == Notices!PageFresh

\* Bulk read leaves what the page has not listed (Inbox).
KeepsNewUnread == Notices!KeepsNewUnread

\* A key that stopped working is not usable again (ApiKeys).
StopsWorking == Credentials!StopsWorking

\* Snapshots that can be read from Stripe are read in the end (Reconcile).
Recovers == part = "snapshots" => Snapshots!Recovers

\* Attempts at SMTP stay within the rounds the broker repeats (MailTask).
SendsBounded == Mails!SendsBounded

\* A mail is sent or archived in the end (MailTask).
Settles == part = "mails" => Mails!Settles

\* One call to a provider at a time (SingleFlight).
OneProbe == Probes!OneProbe

\* A process leaves nothing open and promotes nobody (Lifespan).
StartsSafely == Starts!StartsSafely

\* What is reported as verified was verified (VerifyRunner).
VerifiedOnly == Checks!VerifiedOnly

\* The API moves to a release whose worker answers; data stays (Rollout).
RolloutSafe == Rollouts!RolloutSafe
=============================================================================
