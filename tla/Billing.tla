------------------------------- MODULE Billing -------------------------------
(***************************************************************************)
(* The billing modules side by side.  They share no variable: the part     *)
(* chosen in the initial state runs, the others stay where they begin.     *)
(* The Stripe customer is the part this module extends; the constants of   *)
(* the others are declared here with what the code says of their values.   *)
(***************************************************************************)
EXTENDS StripeCustomer

CONSTANTS
    Parts,                             \* the parts that may run
    Prices, Life, MinLeft,             \* Checkout
    MaxNow, MaxKeys,
    Plus, Pro, MaxPeriod, MaxScheds,   \* PlanChange
    Standings, Legacy, MaxEvents       \* BillingSync

\* The application gives a reservation up before Stripe forgets its key.
ASSUME AgesAssumption == GiveUp \in Nat /\ Prune \in Nat /\ GiveUp < Prune

ASSUME CheckoutAssumption ==
    Life \in Nat /\ MinLeft \in Nat /\ MaxNow \in Nat /\ MaxKeys \in Nat

\* No plan is named like the words a form may say instead of one.
ASSUME PlansAssumption ==
    /\ Plus # {} /\ Plus \cap Pro = {}
    /\ {"none", "free", "keep"} \cap (Plus \cup Pro) = {}
    /\ MaxPeriod \in Nat /\ MaxScheds \in Nat

ASSUME EventsAssumption == MaxEvents \in Nat

VARIABLES
    part,
    kNow, kRow, kSession, kSubs, kPc, kJob, kKeys,
    pSub, pScheds, pNear, pLate, pForm, pPc, pRead, pMade, pDone, pClosed, pForgotten,
    sPlans, sSnap, sGone, sInbox, sRows, sPc, sJob, sAcked, sVoid

Purchase == INSTANCE Checkout WITH
    now <- kNow, row <- kRow, session <- kSession, subs <- kSubs, pc <- kPc, job <- kJob,
    keys <- kKeys

Plan == INSTANCE PlanChange WITH
    Forms <- Requests,
    sub <- pSub, scheds <- pScheds, near <- pNear, late <- pLate, form <- pForm, pc <- pPc,
    read <- pRead, made <- pMade, done <- pDone, closed <- pClosed,
    forgotten <- pForgotten

Webhook == INSTANCE BillingSync WITH
    Workers <- Requests, Plans <- Standings,
    plans <- sPlans, snap <- sSnap, gone <- sGone, inbox <- sInbox, rows <- sRows,
    pc <- sPc, job <- sJob, acked <- sAcked, void <- sVoid

kVars == <<kNow, kRow, kSession, kSubs, kPc, kJob, kKeys>>
pVars == <<pSub, pScheds, pNear, pLate, pForm, pPc, pRead, pMade, pDone, pClosed,
           pForgotten>>
sVars == <<sPlans, sSnap, sGone, sInbox, sRows, sPc, sJob, sAcked, sVoid>>
allVars == <<part, vars, kVars, pVars, sVars>>

AllInit ==
    /\ part \in Parts
    /\ Init /\ Purchase!Init /\ Plan!Init /\ Webhook!Init

AllNext ==
    /\ UNCHANGED part
    /\ \/ /\ part = "customer" /\ Next
          /\ UNCHANGED <<kVars, pVars, sVars>>
       \/ /\ part = "purchase" /\ Purchase!Next
          /\ UNCHANGED <<vars, pVars, sVars>>
       \/ /\ part = "plan" /\ Plan!Next
          /\ UNCHANGED <<vars, kVars, sVars>>
       \/ /\ part = "webhook" /\ Webhook!Next
          /\ UNCHANGED <<vars, kVars, pVars>>

AllSpec == AllInit /\ [][AllNext]_allVars

\* Every part's variables have their types.
AllTypeOK == TypeOK /\ Purchase!TypeOK /\ Plan!TypeOK /\ Webhook!TypeOK

\* One subscription per user, whatever devices check out (Checkout).
OneSubscription == Purchase!OneSubscription

\* A schedule made by an operator is never touched, and a scheduled plan begins when
\* the period it was asked in ends (PlanChange).
SchedulesKept == Plan!SchedulesKept

\* A form sent again decides nothing after a later one, while Stripe remembers its calls
\* (PlanChange).
LaterDecisionStands == Plan!LaterDecisionStands

\* A schedule whose update failed is recovered by the same form (PlanChange).
RetryRecovers == Plan!RetryRecovers

\* The saved snapshot is no older than any acknowledged event (BillingSync).
SnapshotCovers == Webhook!SnapshotCovers

\* An acknowledged event has its mail or nothing to say (BillingSync).
AckedIsRecorded == Webhook!AckedIsRecorded
=============================================================================
