---------------------------- MODULE BillingProofs ----------------------------
(***************************************************************************)
(* Proofs about the billing modules for every number of requests, bound,   *)
(* plan and price: one inductive invariant for each part, which the steps  *)
(* of the other parts leave alone.                                         *)
(***************************************************************************)
EXTENDS Billing, Integers, Sequences, TLAPS
-----------------------------------------------------------------------------
\* The Stripe customer.

\* The types, with the facts about integers that the steps need.
CustomerShape ==
    /\ row \in [key : 0..1, age : Nat, bound : Nat]
    /\ stripe \in [customer : Nat, age : Nat]
    /\ made \in 0..1 /\ gone \in BOOLEAN
    /\ pc \in [Requests -> {"idle", "insert", "check", "create", "bind"}]
    /\ late \subseteq Requests
    /\ row.age <= Prune + 1 /\ row.bound <= made
    /\ stripe.age <= Prune /\ stripe.customer <= made

\* A request that is past its insert, and a customer at Stripe, have a reservation, until the
\* account is deleted.
Reserved ==
    /\ gone => row = NoRow
    /\ ~gone /\ made = 1 => row # NoRow
    /\ \A r \in Requests : ~gone /\ pc[r] \in {"check", "create", "bind"} => row # NoRow

\* Stripe's key belongs to the customer, and is no older than the reservation.
KeyOK ==
    /\ stripe # NoKey => made = 1
    /\ stripe # NoKey /\ row # NoRow => stripe.age <= row.age

\* A request that is about to create saw a reservation that was young, a tick ago at most.
Young ==
    \A r \in Requests : pc[r] = "create" /\ row # NoRow =>
        row.age < GiveUp \/ (r \in late /\ row.age <= GiveUp)

\* Once Stripe has forgotten the key, nobody creates: the reservation is too old by then.
Forgotten ==
    made = 1 /\ stripe = NoKey =>
        /\ gone \/ row.age >= Prune
        /\ \A r \in Requests : pc[r] # "create"

CustomerInv == CustomerShape /\ Reserved /\ KeyOK /\ Young /\ Forgotten

\* Goto, request by request.
LEMMA GotoDoes ==
    ASSUME CustomerShape, NEW r \in Requests, Goto(r, "idle") \/ Goto(r, "insert") \/ Goto(r, "check")
                                        \/ Goto(r, "create") \/ Goto(r, "bind")
    PROVE  /\ pc' \in [Requests -> {"idle", "insert", "check", "create", "bind"}]
           /\ late' \subseteq Requests
           /\ \A q \in Requests \ {r} : pc'[q] = pc[q] /\ (q \in late' <=> q \in late)
           /\ pc'[r] # "idle" => (r \in late' <=> r \in late)
BY DEF CustomerShape, Goto

\* A request that moves on without touching anything: only a young reservation lets it create.
LEMMA CustomerMoveKeeps ==
    ASSUME CustomerInv, NEW r \in Requests,
           NEW step \in {"idle", "insert", "check", "create"}, Goto(r, step),
           UNCHANGED <<row, stripe, made, gone>>,
           step = "check" => gone \/ row # NoRow,
           step = "create" => row # NoRow /\ row.age < GiveUp
    PROVE  CustomerInv'
<1> USE AgesAssumption DEF CustomerInv
<1>1. /\ pc' \in [Requests -> {"idle", "insert", "check", "create", "bind"}]
      /\ late' \subseteq Requests /\ pc'[r] = step
      /\ \A q \in Requests \ {r} : pc'[q] = pc[q] /\ (q \in late' <=> q \in late)
  BY GotoDoes DEF Goto, CustomerShape
<1>2. CustomerShape' BY <1>1 DEF CustomerShape
<1>3. Reserved' BY <1>1 DEF Reserved
<1>4. KeyOK' BY DEF KeyOK
<1>5. Young' BY <1>1 DEF Young
<1>6. Forgotten'
  <2>1. step = "create" => ~(made = 1 /\ stripe = NoKey) BY DEF Forgotten, Reserved, CustomerShape
  <2> QED BY <1>1, <2>1 DEF Forgotten
<1> QED BY <1>2, <1>3, <1>4, <1>5, <1>6

\* A reservation is made when there is none, and then there is no customer either.
LEMMA InsertKeeps ==
    ASSUME CustomerInv, NEW r \in Requests, Insert(r)
    PROVE  CustomerInv'
<1> USE AgesAssumption DEF CustomerInv
<1>1. CASE gone \/ row # NoRow
  <2>1. UNCHANGED <<row, stripe, made, gone>> BY <1>1 DEF Insert
  <2>2. gone => Goto(r, "idle") BY DEF Insert
  <2>3. ~gone => Goto(r, "check") BY DEF Insert
  <2>4. CASE gone BY <2>1, <2>2, <2>4, CustomerMoveKeeps
  <2>5. CASE ~gone BY <1>1, <2>1, <2>3, <2>5, CustomerMoveKeeps
  <2> QED BY <2>4, <2>5
<1>2. CASE ~gone /\ row = NoRow
  <2>1. /\ Goto(r, "check") /\ row' = [NoRow EXCEPT !.key = 1]
        /\ UNCHANGED <<stripe, made, gone>>
    BY <1>2 DEF Insert
  <2>2. /\ pc' \in [Requests -> {"idle", "insert", "check", "create", "bind"}]
        /\ late' \subseteq Requests /\ pc'[r] = "check"
        /\ \A q \in Requests \ {r} : pc'[q] = pc[q] /\ (q \in late' <=> q \in late)
    BY <2>1, GotoDoes DEF Goto, CustomerShape
  <2>3. /\ row' \in [key : 0..1, age : Nat, bound : Nat] /\ row'.age = 0 /\ row'.bound = 0
        /\ row' # NoRow
    BY <2>1 DEF NoRow
  <2>4. made = 0 /\ stripe = NoKey BY <1>2 DEF CustomerShape, Reserved, KeyOK
  <2>5. \A q \in Requests : pc[q] # "create" BY <1>2 DEF Reserved
  <2>6. CustomerShape' BY <2>1, <2>2, <2>3 DEF CustomerShape
  <2>7. Reserved' BY <1>2, <2>1, <2>3 DEF Reserved
  <2>8. KeyOK' BY <2>1, <2>4 DEF KeyOK
  <2>9. Young' BY <2>2, <2>5 DEF Young
  <2>10. Forgotten' BY <2>1, <2>4 DEF Forgotten
  <2> QED BY <2>6, <2>7, <2>8, <2>9, <2>10
<1> QED BY <1>1, <1>2

\* Stripe either remembers the key or has no customer yet.
LEMMA CreateKeeps ==
    ASSUME CustomerInv, NEW r \in Requests, Create(r)
    PROVE  CustomerInv'
<1> USE AgesAssumption DEF CustomerInv
<1>1. /\ Goto(r, "bind") /\ pc[r] = "create" /\ UNCHANGED <<row, gone>>
      /\ stripe = NoKey => made' = made + 1 /\ stripe' = [customer |-> made + 1, age |-> 0]
      /\ stripe # NoKey => made' = made /\ stripe' = stripe
  BY DEF Create
<1>2. /\ pc' \in [Requests -> {"idle", "insert", "check", "create", "bind"}]
      /\ late' \subseteq Requests /\ pc'[r] = "bind"
      /\ \A q \in Requests \ {r} : pc'[q] = pc[q] /\ (q \in late' <=> q \in late)
  BY <1>1, GotoDoes DEF Goto, CustomerShape
<1>3. stripe = NoKey => made = 0 BY <1>1 DEF CustomerShape, Forgotten
<1>4. made' = 1 /\ stripe' # NoKey BY <1>1, <1>3 DEF KeyOK, NoKey
<1>5. stripe' \in [customer : Nat, age : Nat] /\ stripe'.customer <= 1
      /\ (stripe' = stripe \/ stripe'.age = 0)
  BY <1>1, <1>3 DEF CustomerShape
<1>6. CustomerShape' BY <1>1, <1>2, <1>4, <1>5 DEF CustomerShape
<1>7. Reserved' BY <1>1, <1>2 DEF Reserved
<1>8. KeyOK' BY <1>1, <1>4, <1>5 DEF KeyOK, CustomerShape
<1>9. Young' BY <1>1, <1>2 DEF Young
<1>10. Forgotten' BY <1>4 DEF Forgotten
<1> QED BY <1>6, <1>7, <1>8, <1>9, <1>10

\* Binding keeps the reservation.
LEMMA BindKeeps ==
    ASSUME CustomerInv, NEW r \in Requests, Bind(r)
    PROVE  CustomerInv'
<1> USE AgesAssumption DEF CustomerInv
<1>1. /\ Goto(r, "idle") /\ UNCHANGED <<stripe, made, gone>>
      /\ \/ row' = row
         \/ row # NoRow /\ row.bound = 0 /\ row' = [row EXCEPT !.bound = stripe.customer]
  BY DEF Bind
<1>2. /\ pc' \in [Requests -> {"idle", "insert", "check", "create", "bind"}]
      /\ late' \subseteq Requests /\ pc'[r] = "idle"
      /\ \A q \in Requests \ {r} : pc'[q] = pc[q] /\ (q \in late' <=> q \in late)
  BY <1>1, GotoDoes DEF Goto, CustomerShape
<1>3. /\ row' \in [key : 0..1, age : Nat, bound : Nat] /\ row'.age = row.age
      /\ row'.bound <= made
  BY <1>1 DEF CustomerShape
<1>4. row' = NoRow <=> row = NoRow
  <2>1. CASE row' = row BY <2>1
  <2>2. CASE row # NoRow /\ row.bound = 0 /\ row' = [row EXCEPT !.bound = stripe.customer]
    <3>1. row'.bound = stripe.customer BY <2>2 DEF CustomerShape
    <3>2. CASE stripe.customer = 0
      <4>1. row' = row BY <2>2, <3>2 DEF CustomerShape
      <4> QED BY <4>1
    <3>3. CASE stripe.customer # 0
      <4>1. NoRow.bound = 0 BY DEF NoRow
      <4> QED BY <2>2, <3>1, <3>3, <4>1
    <3> QED BY <3>2, <3>3
  <2> QED BY <1>1, <2>1, <2>2
<1>5. CustomerShape' BY <1>1, <1>2, <1>3 DEF CustomerShape
<1>6. Reserved' BY <1>1, <1>2, <1>4 DEF Reserved
<1>7. KeyOK' BY <1>1, <1>3, <1>4 DEF KeyOK
<1>8. Young' BY <1>2, <1>3, <1>4 DEF Young
<1>9. Forgotten' BY <1>1, <1>2, <1>3 DEF Forgotten
<1> QED BY <1>5, <1>6, <1>7, <1>8, <1>9

\* The reservation goes with the account.
LEMMA DeleteKeeps ==
    ASSUME CustomerInv, DeleteAccount
    PROVE  CustomerInv'
<1> USE AgesAssumption DEF CustomerInv
<1>1. gone' = TRUE /\ row' = NoRow /\ UNCHANGED <<stripe, made, pc, late>> BY DEF DeleteAccount
<1>2. /\ NoRow \in [key : 0..1, age : Nat, bound : Nat] /\ NoRow.age = 0 /\ NoRow.bound = 0
  BY DEF NoRow
<1>3. CustomerShape' BY <1>1, <1>2 DEF CustomerShape
<1>4. Reserved' BY <1>1 DEF Reserved
<1>5. KeyOK' BY <1>1 DEF KeyOK
<1>6. Young' BY <1>1 DEF Young
<1>7. Forgotten' BY <1>1 DEF Forgotten
<1> QED BY <1>3, <1>4, <1>5, <1>6, <1>7

\* When Stripe forgets the key, no request is about to create: one that was would have seen a
\* reservation that the application had given up.
LEMMA TickKeeps ==
    ASSUME CustomerInv, Tick
    PROVE  CustomerInv'
<1> USE AgesAssumption DEF CustomerInv
<1>1. /\ late = {} /\ row # NoRow /\ row.age <= Prune
      /\ row' = [row EXCEPT !.age = @ + 1]
      /\ late' = {r \in Requests : pc[r] # "idle"} /\ UNCHANGED <<made, gone, pc>>
  BY DEF Tick
<1>2. /\ row' \in [key : 0..1, age : Nat, bound : Nat] /\ row'.age = row.age + 1
      /\ row'.bound = row.bound
  BY <1>1 DEF CustomerShape
<1>3. row' # NoRow
  <2>1. NoRow.age = 0 BY DEF NoRow
  <2> QED BY <1>2, <2>1 DEF CustomerShape
<1>4. \A r \in Requests : pc[r] = "create" => row.age < GiveUp BY <1>1 DEF Young
<1>5. \/ stripe = NoKey /\ stripe' = NoKey
      \/ stripe # NoKey /\ stripe' = NoKey /\ stripe.age + 1 >= Prune
      \/ /\ stripe # NoKey /\ stripe.age + 1 < Prune
         /\ stripe' = [stripe EXCEPT !.age = @ + 1]
  BY DEF Tick, CustomerShape
<1>6. /\ stripe' \in [customer : Nat, age : Nat] /\ stripe'.age <= Prune
      /\ stripe'.customer <= made
  BY <1>5 DEF CustomerShape, NoKey
<1>7. stripe' # NoKey => stripe # NoKey /\ stripe'.age = stripe.age + 1 BY <1>5 DEF CustomerShape
<1>8. CustomerShape' BY <1>1, <1>2, <1>6 DEF CustomerShape
<1>9. Reserved' BY <1>1, <1>3 DEF Reserved
<1>10. KeyOK' BY <1>1, <1>2, <1>7 DEF KeyOK, CustomerShape
<1>11. Young' BY <1>1, <1>2, <1>4 DEF Young, CustomerShape
<1>12. Forgotten'
  <2>1. ASSUME stripe # NoKey, stripe' = NoKey
        PROVE  row'.age >= Prune /\ \A r \in Requests : pc[r] # "create"
    <3>1. stripe.age + 1 >= Prune BY <1>5, <2>1 DEF CustomerShape, NoKey
    <3>2. stripe.age <= row.age BY <1>1, <2>1 DEF KeyOK
    <3> QED BY <1>2, <1>4, <3>1, <3>2 DEF CustomerShape
  <2>2. CASE stripe = NoKey BY <1>1, <1>2, <2>2 DEF Forgotten, CustomerShape
  <2> QED BY <1>1, <2>1, <2>2 DEF Forgotten
<1> QED BY <1>8, <1>9, <1>10, <1>11, <1>12

\* Every step keeps the invariant.
LEMMA CustomerStep == CustomerInv /\ [Next]_vars => CustomerInv'
<1> SUFFICES ASSUME CustomerInv, [Next]_vars PROVE CustomerInv' OBVIOUS
<1>1. ASSUME NEW r \in Requests, Begin(r) PROVE CustomerInv'
  <2>1. CASE row = NoRow BY <1>1, <2>1, CustomerMoveKeeps DEF Begin
  <2>2. CASE row # NoRow BY <1>1, <2>2, CustomerMoveKeeps DEF Begin
  <2> QED BY <2>1, <2>2
<1>2. ASSUME NEW r \in Requests, Check(r) PROVE CustomerInv'
  <2>1. CASE row = NoRow \/ row.bound # 0 \/ TooOld BY <1>2, <2>1, CustomerMoveKeeps DEF Check
  <2>2. CASE ~(row = NoRow \/ row.bound # 0 \/ TooOld)
    <3>1. row.age < GiveUp BY <2>2, AgesAssumption DEF TooOld, CustomerInv, CustomerShape
    <3> QED BY <1>2, <2>2, <3>1, CustomerMoveKeeps DEF Check
  <2> QED BY <2>1, <2>2
<1>3. ASSUME NEW r \in Requests, Fail(r) PROVE CustomerInv' BY <1>3, CustomerMoveKeeps DEF Fail
<1>4. CASE UNCHANGED vars
  BY <1>4 DEF vars, CustomerInv, CustomerShape, Reserved, KeyOK, Young, Forgotten
<1> QED
  BY <1>1, <1>2, <1>3, <1>4, InsertKeeps, CreateKeeps, BindKeeps, DeleteKeeps, TickKeeps
  DEF Next

LEMMA CustomerInit == Init => CustomerInv
<1> SUFFICES ASSUME Init PROVE CustomerInv OBVIOUS
<1> USE AgesAssumption DEF Init
<1>1. /\ row \in [key : 0..1, age : Nat, bound : Nat] /\ row.age = 0 /\ row.bound = 0
      /\ stripe \in [customer : Nat, age : Nat] /\ stripe.age = 0 /\ stripe.customer = 0
  BY DEF NoRow, NoKey
<1>2. pc \in [Requests -> {"idle", "insert", "check", "create", "bind"}] OBVIOUS
<1>3. late \subseteq Requests /\ made \in 0..1 OBVIOUS
<1>4. gone \in BOOLEAN BY Zenon
<1>5. CustomerShape BY <1>1, <1>2, <1>3, <1>4 DEF CustomerShape
<1>6. Reserved /\ KeyOK BY DEF Reserved, KeyOK
<1>7. Young /\ Forgotten BY DEF Young, Forgotten
<1> QED BY <1>5, <1>6, <1>7 DEF CustomerInv

\* The invariant holds in every state.
LEMMA CustomerInvariance == AllSpec => []CustomerInv
<1>1. AllInit => CustomerInv BY CustomerInit DEF AllInit
<1>2. CustomerInv /\ [AllNext]_allVars => CustomerInv'
  <2>1. [AllNext]_allVars => [Next]_vars BY DEF AllNext, allVars
  <2> QED BY <2>1, CustomerStep
<1> QED BY <1>1, <1>2, PTL DEF AllSpec

\* As long as the application gives up before Stripe forgets, no number of requests, lost
\* answers and stops leaves the user with a second customer.
THEOREM OneCustomerHolds == AllSpec => []OneCustomer
<1>1. CustomerInv => OneCustomer BY DEF CustomerInv, CustomerShape, OneCustomer
<1> QED BY <1>1, CustomerInvariance, PTL

-----------------------------------------------------------------------------
\* Checkout.

Steps == {"idle", "update", "read", "list", "create"}
Terms == [key : Nat, price : Prices \cup {"none"}, expires : Nat]
Buys == [price : Prices \cup {"none"}, at : 0..MaxNow, row : Terms]

\* The types of the purchase, with the one row's key the last one drawn.
PurchaseShape ==
    /\ kNow \in 0..MaxNow /\ kKeys \in 0..MaxKeys /\ kSubs \subseteq Purchase!Keys
    /\ kRow \in Terms /\ kRow.key = kKeys /\ kRow.expires \in 0..MaxNow + Life
    /\ kSession \in [Purchase!Keys ->
         [price : Prices \cup {"none"}, expires : Nat, status : {"none", "open", "complete"}]]
    /\ kPc \in [Requests -> Steps]
    /\ kJob \in [Requests -> Buys]
    /\ \A r \in Requests : kJob[r].at <= kNow

\* A request that has read the row holds the row of that time.
Holds(r) == kPc[r] \in {"list", "create"}

\* A reservation that was replaced has expired, with the requests that hold it and its session.
OldExpired ==
    /\ \A r \in Requests : Holds(r) =>
        /\ kJob[r].row.key \in 1..kKeys
        /\ kJob[r].row = kRow \/ (kJob[r].row.key < kKeys /\ kJob[r].row.expires <= kNow)
    /\ \A k \in Purchase!Keys : kSession[k].status # "none" =>
        /\ k <= kKeys
        /\ IF k = kKeys THEN kSession[k].expires = kRow.expires ELSE kSession[k].expires <= kNow

\* Whoever may open or pay a session of the present reservation found no other subscription.
NoOther ==
    /\ \E k \in Nat : kSubs \subseteq {k}
    /\ \A k \in Purchase!Keys : kSession[k].status # "none" /\ k = kKeys => kSubs \subseteq {k}
    /\ \A r \in Requests : kPc[r] = "create" /\ kJob[r].row.key = kKeys => kSubs \subseteq {kKeys}

PurchaseInv == PurchaseShape /\ OldExpired /\ NoOther

LEMMA PurchaseInit == Purchase!Init => PurchaseInv
<1> SUFFICES ASSUME Purchase!Init PROVE PurchaseInv OBVIOUS
<1> USE CheckoutAssumption DEF Purchase!Init, Purchase!NoRow, Purchase!NoSession, Purchase!NoJob,
        Purchase!NoPrice
<1>1. PurchaseShape BY DEF PurchaseShape, Steps, Terms, Buys
<1>2. OldExpired BY DEF OldExpired, Holds
<1>3. NoOther BY DEF NoOther
<1> QED BY <1>1, <1>2, <1>3 DEF PurchaseInv

LEMMA NoBuy == Purchase!NoJob \in Buys /\ Purchase!NoJob.at = 0
BY CheckoutAssumption DEF Buys, Terms, Purchase!NoJob, Purchase!NoRow, Purchase!NoPrice

\* A step of one request leaves what the others hold alone.
LEMMA PurchaseMoves ==
    ASSUME PurchaseShape, NEW r \in Requests, NEW step \in Steps,
           Purchase!Goto(r, step) \/ Purchase!Done(r)
    PROVE  /\ kPc' \in [Requests -> Steps]
           /\ kJob' \in [Requests -> Buys]
           /\ \A q \in Requests : kJob'[q].at <= kNow
           /\ \A q \in Requests \ {r} : kPc'[q] = kPc[q] /\ kJob'[q] = kJob[q]
           /\ kPc'[r] \in {step, "idle"}
           /\ kPc'[r] # "idle" => kJob'[r] = kJob[r]
<1>1. CASE Purchase!Goto(r, step) BY <1>1 DEF PurchaseShape, Steps, Purchase!Goto
<1>2. CASE Purchase!Done(r)
  <2>1. kPc' = [kPc EXCEPT ![r] = "idle"] /\ kJob' = [kJob EXCEPT ![r] = Purchase!NoJob]
    BY <1>2 DEF Purchase!Done
  <2>2. kJob'[r].at <= kNow BY <2>1, NoBuy DEF PurchaseShape
  <2> QED BY <2>1, <2>2, NoBuy DEF PurchaseShape, Steps
<1> QED BY <1>1, <1>2

\* A request that only moves on, or is over.
LEMMA PurchaseMoveKeeps ==
    ASSUME PurchaseInv, NEW r \in Requests, NEW step \in Steps,
           Purchase!Goto(r, step) \/ Purchase!Done(r),
           UNCHANGED <<kNow, kRow, kSession, kSubs, kKeys>>,
           step = "list" => Holds(r),
           step = "create" => Holds(r) /\ kSubs = {}
    PROVE  PurchaseInv'
<1> USE DEF PurchaseInv
<1>1. PurchaseShape' BY PurchaseMoves DEF PurchaseShape
<1>2. OldExpired' BY PurchaseMoves DEF OldExpired, Holds
<1>3. NoOther' BY PurchaseMoves DEF NoOther
<1> QED BY <1>1, <1>2, <1>3

LEMMA PurchaseBegin ==
    ASSUME PurchaseInv, NEW r \in Requests, Purchase!Begin(r)
    PROVE  PurchaseInv'
<1> USE DEF PurchaseInv, Purchase!Begin
<1>1. /\ \A q \in Requests \ {r} : kPc'[q] = kPc[q] /\ kJob'[q] = kJob[q]
      /\ kPc'[r] = "update" /\ kPc' \in [Requests -> Steps]
  BY DEF PurchaseShape, Steps
<1>2. kJob' \in [Requests -> Buys] /\ \A q \in Requests : kJob'[q].at <= kNow
  <2>1. PICK p \in Prices :
          kJob' = [kJob EXCEPT ![r] = [Purchase!NoJob EXCEPT !.price = p, !.at = kNow]]
    OBVIOUS
  <2> DEFINE j == [Purchase!NoJob EXCEPT !.price = p, !.at = kNow]
  <2>2. j \in Buys /\ j.at = kNow BY NoBuy, CheckoutAssumption DEF Buys, PurchaseShape
  <2>3. kJob' = [kJob EXCEPT ![r] = j] BY <2>1
  <2> HIDE DEF j
  <2> QED BY <2>2, <2>3 DEF PurchaseShape
<1>3. PurchaseShape' BY <1>1, <1>2 DEF PurchaseShape
<1>4. OldExpired' BY <1>1 DEF OldExpired, Holds
<1>5. NoOther' BY <1>1 DEF NoOther
<1> QED BY <1>3, <1>4, <1>5

\* A row that replaces another, or is the first, has no session and no request of its key.
LEMMA FreshRow ==
    ASSUME PurchaseInv, NEW r \in Requests, kKeys < MaxKeys,
           kRow.key = 0 \/ kRow.expires <= kNow,
           kRow' = Purchase!Fresh(r), kKeys' = kKeys + 1,
           UNCHANGED <<kNow, kSession, kSubs>>
    PROVE  /\ kKeys' \in 0..MaxKeys /\ kRow'.key = kKeys' /\ kRow'.expires \in 0..MaxNow + Life
           /\ kRow' \in Terms
           /\ \A q \in Requests : Holds(q) => /\ kJob[q].row.key \in 1..kKeys
                                              /\ kJob[q].row.expires <= kNow
           /\ \A k \in Purchase!Keys : kSession[k].status # "none" =>
                k <= kKeys /\ kSession[k].expires <= kNow
<1> USE CheckoutAssumption DEF PurchaseInv, PurchaseShape
<1>1. kRow' = [key |-> kKeys + 1, price |-> kJob[r].price, expires |-> kJob[r].at + Life]
  BY DEF Purchase!Fresh
<1>2. /\ kKeys' \in 0..MaxKeys /\ kRow'.key = kKeys' /\ kRow'.expires \in 0..MaxNow + Life
      /\ kRow' \in Terms
  BY <1>1 DEF Terms, Buys
<1>3. ASSUME NEW q \in Requests, Holds(q)
      PROVE  kJob[q].row.key \in 1..kKeys /\ kJob[q].row.expires <= kNow
  BY <1>3 DEF OldExpired
<1>4. ASSUME NEW k \in Purchase!Keys, kSession[k].status # "none"
      PROVE  k <= kKeys /\ kSession[k].expires <= kNow
  BY <1>4 DEF OldExpired, Purchase!Keys
<1> QED BY <1>2, <1>3, <1>4

\* After an update that found nothing to replace, the row is as it was.
LEMMA PurchaseRenew ==
    ASSUME PurchaseInv, NEW r \in Requests, Purchase!Renew(r)
    PROVE  PurchaseInv'
<1> USE DEF PurchaseInv
<1>1. Purchase!Goto(r, "read") /\ UNCHANGED <<kNow, kSession, kSubs>> BY DEF Purchase!Renew
<1>2. CASE UNCHANGED <<kRow, kKeys>> BY <1>1, <1>2, PurchaseMoveKeeps DEF Steps
<1>3. CASE kKeys < MaxKeys /\ Purchase!Lapsed(r) /\ kRow' = Purchase!Fresh(r)
           /\ kKeys' = kKeys + 1
  <2>1. kRow.expires <= kNow
    BY <1>3, CheckoutAssumption DEF Purchase!Lapsed, PurchaseShape, Buys, Terms
  <2>2. kPc'[r] # "create" /\ ~Holds(r)' BY <1>1, PurchaseMoves DEF Steps, Holds
  <2>3. PurchaseShape' BY <1>1, <1>3, <2>1, FreshRow, PurchaseMoves DEF PurchaseShape, Steps
  <2>4. OldExpired'
    BY <1>1, <1>3, <2>1, <2>2, FreshRow, PurchaseMoves
    DEF OldExpired, Holds, PurchaseShape, Steps, Purchase!Keys
  <2>5. ASSUME NEW q \in Requests, kPc'[q] = "create" PROVE kJob'[q].row.key # kKeys'
    BY <1>1, <1>3, <2>1, <2>2, <2>5, FreshRow, PurchaseMoves DEF Holds, PurchaseShape, Steps
  <2>6. ASSUME NEW k \in Purchase!Keys, kSession'[k].status # "none" PROVE k # kKeys'
    BY <1>1, <1>3, <2>1, <2>6, FreshRow DEF PurchaseShape, Purchase!Keys
  <2>7. NoOther' BY <1>1, <2>5, <2>6 DEF NoOther
  <2> QED BY <2>3, <2>4, <2>7
<1> QED BY <1>2, <1>3 DEF Purchase!Renew

LEMMA PurchaseRead ==
    ASSUME PurchaseInv, NEW r \in Requests, Purchase!Read(r)
    PROVE  PurchaseInv'
<1> USE DEF PurchaseInv
<1>1. /\ kJob' = [kJob EXCEPT ![r].row = kRow'] /\ kPc' = [kPc EXCEPT ![r] = "list"]
      /\ UNCHANGED <<kNow, kSession, kSubs>>
      /\ \/ kRow.key # 0 /\ UNCHANGED <<kRow, kKeys>>
         \/ kRow.key = 0 /\ kKeys < MaxKeys /\ kRow' = Purchase!Fresh(r) /\ kKeys' = kKeys + 1
  BY DEF Purchase!Read
<1>2. /\ kPc' \in [Requests -> Steps] /\ kPc'[r] = "list"
      /\ \A q \in Requests \ {r} : kPc'[q] = kPc[q] /\ kJob'[q] = kJob[q]
  BY <1>1 DEF PurchaseShape, Steps
<1>3. kRow' \in Terms => /\ kJob' \in [Requests -> Buys] /\ kJob'[r].row = kRow'
                         /\ \A q \in Requests : kJob'[q].at <= kNow
  BY <1>1 DEF PurchaseShape, Buys
<1>4. CASE kRow.key # 0 /\ UNCHANGED <<kRow, kKeys>>
  <2>1. PurchaseShape' BY <1>1, <1>2, <1>3, <1>4 DEF PurchaseShape
  <2>2. kRow.key \in 1..kKeys BY <1>4 DEF PurchaseShape, Terms
  <2>4. OldExpired'
    <3>1. kJob'[r].row = kRow' BY <1>3, <1>4 DEF PurchaseShape
    <3>2. ASSUME NEW q \in Requests \ {r}, Holds(q)' PROVE Holds(q) /\ kJob'[q] = kJob[q]
      BY <1>2, <3>2 DEF Holds
    <3> QED BY <1>1, <1>4, <2>2, <3>1, <3>2 DEF OldExpired, Holds
  <2>3. NoOther' BY <1>1, <1>2, <1>4 DEF NoOther
  <2> QED BY <2>1, <2>3, <2>4
<1>5. CASE kRow.key = 0 /\ kKeys < MaxKeys /\ kRow' = Purchase!Fresh(r) /\ kKeys' = kKeys + 1
  <2>1. PurchaseShape' BY <1>1, <1>2, <1>3, <1>5, FreshRow DEF PurchaseShape
  <2>4. kRow'.key \in 1..kKeys' /\ kJob'[r].row = kRow'
    BY <1>1, <1>3, <1>5, FreshRow DEF PurchaseShape
  <2>2. OldExpired'
    <3>1. ASSUME NEW q \in Requests \ {r}, Holds(q)'
          PROVE  kJob'[q].row.key \in 1..kKeys' /\ kJob'[q].row.key < kKeys'
                 /\ kJob'[q].row.expires <= kNow'
      BY <1>1, <1>2, <1>5, <3>1, FreshRow DEF Holds, PurchaseShape
    <3>2. ASSUME NEW k \in Purchase!Keys, kSession'[k].status # "none"
          PROVE  k <= kKeys' /\ k # kKeys' /\ kSession'[k].expires <= kNow'
      BY <1>1, <1>5, <3>2, FreshRow DEF PurchaseShape, Purchase!Keys
    <3> QED BY <2>4, <3>1, <3>2 DEF OldExpired, Holds
  <2>3. NoOther'
    BY <1>1, <1>2, <1>5, FreshRow DEF NoOther, Holds, PurchaseShape, Purchase!Keys
  <2> QED BY <2>1, <2>2, <2>3
<1> QED BY <1>1, <1>4, <1>5

\* The session of the present reservation opens only for a request that found no
\* subscription, and the session of an older one does not open any more.
LEMMA PurchaseCreate ==
    ASSUME PurchaseInv, NEW r \in Requests, Purchase!Create(r)
    PROVE  PurchaseInv'
<1> USE DEF PurchaseInv
<1> DEFINE k == kJob[r].row.key
<1>1. kPc[r] = "create" /\ Purchase!Done(r) /\ UNCHANGED <<kNow, kRow, kSubs, kKeys>>
  BY DEF Purchase!Create
<1>2. CASE UNCHANGED kSession BY <1>1, <1>2, PurchaseMoveKeeps DEF Steps
<1>3. CASE /\ kJob[r].row.expires > kNow
           /\ kSession' = [kSession EXCEPT ![k] =
                [price |-> kJob[r].price, expires |-> kJob[r].row.expires, status |-> "open"]]
  <2>1. kJob[r].row = kRow /\ k = kKeys /\ k \in Purchase!Keys
    BY <1>1, <1>3, CheckoutAssumption DEF OldExpired, Holds, PurchaseShape, Terms, Buys,
       Purchase!Keys
  <2>2. /\ kSession' \in [Purchase!Keys ->
              [price : Prices \cup {"none"}, expires : Nat, status : {"none", "open", "complete"}]]
        /\ \A i \in Purchase!Keys \ {k} : kSession'[i] = kSession[i]
        /\ kSession'[k].expires = kRow.expires
    BY <1>3, <2>1 DEF PurchaseShape, Buys, Terms
  <2>3. PurchaseShape' BY <1>1, <2>2, PurchaseMoves DEF PurchaseShape, Steps
  <2>4. OldExpired' BY <1>1, <2>1, <2>2, PurchaseMoves DEF OldExpired, Holds, Steps
  <2>5. NoOther' BY <1>1, <2>1, <2>2, PurchaseMoves DEF NoOther, Steps
  <2> QED BY <2>3, <2>4, <2>5
<1> QED BY <1>2, <1>3 DEF Purchase!Create

\* Only the session of the present reservation can still be paid.
LEMMA PurchasePay ==
    ASSUME PurchaseInv, Purchase!Pay
    PROVE  PurchaseInv'
<1> USE DEF PurchaseInv
<1>1. PICK k \in Purchase!Keys :
        /\ kSession[k].status = "open" /\ kSession[k].expires > kNow
        /\ kSession' = [kSession EXCEPT ![k].status = "complete"]
        /\ kSubs' = kSubs \cup {k}
        /\ UNCHANGED <<kNow, kRow, kPc, kJob, kKeys>>
  BY DEF Purchase!Pay
<1>2. k = kKeys BY <1>1, CheckoutAssumption DEF OldExpired, PurchaseShape, Purchase!Keys
<1>3. kSubs' = {k} BY <1>1, <1>2 DEF NoOther
<1>4. /\ kSession' \in [Purchase!Keys ->
            [price : Prices \cup {"none"}, expires : Nat, status : {"none", "open", "complete"}]]
      /\ \A i \in Purchase!Keys \ {k} : kSession'[i] = kSession[i]
      /\ kSession'[k].expires = kSession[k].expires
  BY <1>1 DEF PurchaseShape
<1>5. PurchaseShape' BY <1>1, <1>3, <1>4 DEF PurchaseShape
<1>6. OldExpired' BY <1>1, <1>2, <1>4 DEF OldExpired, Holds
<1>7. NoOther' BY <1>1, <1>2, <1>3, <1>4, CheckoutAssumption DEF NoOther, Purchase!Keys
<1> QED BY <1>5, <1>6, <1>7

LEMMA PurchaseEndTick ==
    ASSUME PurchaseInv, Purchase!End \/ Purchase!Tick
    PROVE  PurchaseInv'
<1> USE DEF PurchaseInv
<1>1. /\ UNCHANGED <<kRow, kSession, kPc, kJob, kKeys>> /\ kSubs' \subseteq kSubs
      /\ kNow' \in 0..MaxNow /\ kNow <= kNow'
  BY CheckoutAssumption DEF Purchase!End, Purchase!Tick, PurchaseShape
<1>2. PurchaseShape' BY <1>1, CheckoutAssumption DEF PurchaseShape, Buys
<1>3. OldExpired' BY <1>1, CheckoutAssumption DEF OldExpired, Holds, PurchaseShape, Buys, Terms
<1>4. NoOther' BY <1>1 DEF NoOther
<1> QED BY <1>2, <1>3, <1>4

LEMMA PurchaseStep == PurchaseInv /\ [Purchase!Next]_kVars => PurchaseInv'
<1> SUFFICES ASSUME PurchaseInv, [Purchase!Next]_kVars PROVE PurchaseInv' OBVIOUS
<1>1. ASSUME NEW r \in Requests, Purchase!List(r) PROVE PurchaseInv'
  BY <1>1, PurchaseMoveKeeps DEF Purchase!List, Holds, Steps
<1>2. ASSUME NEW r \in Requests, Purchase!Fail(r) PROVE PurchaseInv'
  BY <1>2, PurchaseMoveKeeps DEF Purchase!Fail, Steps
<1>3. CASE UNCHANGED kVars
  BY <1>3 DEF kVars, PurchaseInv, PurchaseShape, OldExpired, NoOther, Holds
<1> QED
  BY <1>1, <1>2, <1>3, PurchaseBegin, PurchaseRenew, PurchaseRead, PurchaseCreate, PurchasePay,
     PurchaseEndTick
  DEF Purchase!Next

LEMMA PurchaseInvariance == AllSpec => []PurchaseInv
<1>1. AllInit => PurchaseInv BY PurchaseInit DEF AllInit
<1>2. PurchaseInv /\ [AllNext]_allVars => PurchaseInv'
  <2>1. [AllNext]_allVars => [Purchase!Next]_kVars BY DEF AllNext, allVars, kVars
  <2> QED BY <2>1, PurchaseStep
<1> QED BY <1>1, <1>2, PTL DEF AllSpec

\* A user never holds two subscriptions.
THEOREM OneSubscriptionHolds == AllSpec => []OneSubscription
<1>1. PurchaseInv => OneSubscription
  BY DEF PurchaseInv, NoOther, OneSubscription, Purchase!OneSubscription
<1> QED BY <1>1, PurchaseInvariance, PTL

-----------------------------------------------------------------------------
\* Events and the snapshot.

Stages == {"idle", "owner", "lock", "fetch", "save", "confirm", "inbox", "mail"}
Tasks == [event : Nat, seen : Nat]

WebhookShape ==
    /\ sPlans \in Seq(Standings) /\ Webhook!Now <= MaxEvents
    /\ sSnap \in Webhook!Missing..Webhook!Now /\ sGone \in BOOLEAN
    /\ sInbox \subseteq Webhook!Events /\ sRows \subseteq Webhook!Events
    /\ sAcked \subseteq Webhook!Events
    /\ sPc \in [Requests -> Stages] /\ sJob \in [Requests -> Tasks]
    /\ \A w \in Requests :
        /\ sJob[w].event <= Webhook!Now /\ sJob[w].seen <= Webhook!Now
        /\ sPc[w] \in {"owner", "confirm", "inbox", "mail"} => sJob[w].event # 0

\* Between the lock and the commit a worker is alone.
Alone(w) == sPc[w] \in {"fetch", "save"}

OneLock == \A v, w \in Requests : Alone(v) /\ Alone(w) => v = w

\* What is about to be saved shows its event, and no less than what is there.
SaveGrows ==
    \A w \in Requests : sPc[w] = "save" =>
        sJob[w].event <= sJob[w].seen /\ Webhook!Snap <= sJob[w].seen

\* Past the sync, the snapshot shows the event, unless the user went.
Shown ==
    \A w \in Requests : sPc[w] \in {"confirm", "inbox", "mail"} =>
        sGone \/ sJob[w].event <= Webhook!Snap

WebhookInv ==
    WebhookShape /\ OneLock /\ SaveGrows /\ Shown /\ SnapshotCovers /\ AckedIsRecorded

LEMMA WebhookInit == Webhook!Init => WebhookInv
<1> SUFFICES ASSUME Webhook!Init PROVE WebhookInv OBVIOUS
<1> USE EventsAssumption DEF Webhook!Init, Webhook!NoJob, Webhook!Missing
<1>1. sPlans \in Seq(Standings) /\ Webhook!Now = 0 BY DEF Webhook!Now
<1>2. sGone \in BOOLEAN BY Zenon
<1>5. WebhookShape BY <1>1, <1>2 DEF WebhookShape, Stages, Tasks
<1>3. OneLock /\ SaveGrows /\ Shown BY DEF OneLock, Alone, SaveGrows, Shown
<1>4. SnapshotCovers /\ AckedIsRecorded
  BY DEF SnapshotCovers, Webhook!SnapshotCovers, AckedIsRecorded, Webhook!AckedIsRecorded
<1> QED BY <1>3, <1>4, <1>5 DEF WebhookInv

\* What a worker's move leaves of the others, and what it keeps of its own job.
LEMMA WebhookMoves ==
    ASSUME WebhookShape, NEW w \in Requests, NEW step \in Stages,
           \/ Webhook!Goto(w, step)
           \/ sPc' = [sPc EXCEPT ![w] = "idle"] /\ sJob' = [sJob EXCEPT ![w] = Webhook!NoJob]
    PROVE  /\ sPc' \in [Requests -> Stages] /\ sJob' \in [Requests -> Tasks]
           /\ \A v \in Requests \ {w} : sPc'[v] = sPc[v] /\ sJob'[v] = sJob[v]
           /\ \/ sPc'[w] = step /\ sJob'[w] = sJob[w]
              \/ sPc'[w] = "idle" /\ sJob'[w] = Webhook!NoJob
<1>1. Webhook!NoJob \in Tasks BY DEF Webhook!NoJob, Tasks
<1> QED BY <1>1 DEF WebhookShape, Stages, Webhook!Goto

\* A worker that moves on, or is over, and changes nothing at Stripe or in the snapshot: it
\* takes no lock that is taken, and passes the sync only where it may.
LEMMA WebhookMoveKeeps ==
    ASSUME WebhookInv, NEW w \in Requests, NEW step \in Stages \ {"save"},
           \/ Webhook!Goto(w, step)
           \/ sPc' = [sPc EXCEPT ![w] = "idle"] /\ sJob' = [sJob EXCEPT ![w] = Webhook!NoJob],
           UNCHANGED <<sPlans, sSnap, sGone>>,
           sInbox' \subseteq Webhook!Events, sRows' \subseteq Webhook!Events,
           sAcked' = sAcked \/ sAcked' = sAcked \cup ({sJob[w].event} \ {0}),
           sAcked' # sAcked => sGone \/ sJob[w].event <= Webhook!Snap,
           sAcked' \subseteq sRows' \cup Legacy \cup sVoid',
           step \in {"owner", "confirm", "inbox", "mail"} => sJob[w].event # 0,
           step = "fetch" => ~Webhook!Locked,
           step \in {"confirm", "inbox", "mail"} => sGone \/ sJob[w].event <= Webhook!Snap
    PROVE  WebhookInv'
<1> USE DEF WebhookInv
<1>1. /\ sPc' \in [Requests -> Stages] /\ sJob' \in [Requests -> Tasks]
      /\ \A v \in Requests \ {w} : sPc'[v] = sPc[v] /\ sJob'[v] = sJob[v]
      /\ \/ sPc'[w] = step /\ sJob'[w] = sJob[w]
         \/ sPc'[w] = "idle" /\ sJob'[w] = Webhook!NoJob
  BY WebhookMoves
<1>2. Webhook!Snap' = Webhook!Snap /\ Webhook!Now' = Webhook!Now
  BY DEF Webhook!Snap, Webhook!Now
<1>3. sAcked' \subseteq Webhook!Events
  BY EventsAssumption DEF WebhookShape, Webhook!Events, Webhook!Now, Tasks
<1>4. WebhookShape'
  <2>1. Webhook!NoJob.event = 0 /\ Webhook!NoJob.seen = 0 BY DEF Webhook!NoJob
  <2>2. Webhook!Now \in Nat BY DEF Webhook!Now, WebhookShape
  <2>3. ASSUME NEW v \in Requests
        PROVE  /\ sJob'[v].event <= Webhook!Now /\ sJob'[v].seen <= Webhook!Now
               /\ sPc'[v] \in {"owner", "confirm", "inbox", "mail"} => sJob'[v].event # 0
    BY <1>1, <2>1, <2>2 DEF WebhookShape
  <2> QED BY <1>1, <1>2, <1>3, <2>3 DEF WebhookShape, Webhook!Events, Webhook!Missing
<1>5. OneLock' BY <1>1 DEF OneLock, Alone, Webhook!Locked
<1>6. SaveGrows' BY <1>1, <1>2 DEF SaveGrows
<1>7. Shown' BY <1>1, <1>2 DEF Shown
<1>8. SnapshotCovers' BY <1>2 DEF SnapshotCovers, Webhook!SnapshotCovers
<1>9. AckedIsRecorded' BY DEF AckedIsRecorded, Webhook!AckedIsRecorded
<1> QED BY <1>4, <1>5, <1>6, <1>7, <1>8, <1>9

LEMMA WebhookBegin ==
    ASSUME WebhookInv, NEW w \in Requests, Webhook!Deliver(w) \/ Webhook!Load(w)
    PROVE  WebhookInv'
<1> USE DEF WebhookInv
<1>1. PICK step \in {"owner", "lock"}, e \in 0..Webhook!Now :
        Webhook!Begin(w, step, e) /\ (step = "owner" => e # 0)
  BY DEF Webhook!Deliver, Webhook!Load, Webhook!Now, WebhookShape
<1> DEFINE j == [Webhook!NoJob EXCEPT !.event = e]
<1>2. /\ sPc' = [sPc EXCEPT ![w] = step] /\ sJob' = [sJob EXCEPT ![w] = j]
      /\ UNCHANGED <<sPlans, sSnap, sGone, sInbox, sRows, sAcked, sVoid>>
  BY <1>1 DEF Webhook!Begin, Webhook!durable
<1>3. Webhook!Now \in Nat BY DEF Webhook!Now, WebhookShape
<1>4. j \in Tasks /\ j.event = e /\ j.seen = 0 BY <1>3 DEF Tasks, Webhook!NoJob
<1> HIDE DEF j
<1>5. Webhook!Snap' = Webhook!Snap /\ Webhook!Now' = Webhook!Now
  BY <1>2 DEF Webhook!Snap, Webhook!Now
<1>6. /\ sPc' \in [Requests -> Stages] /\ sJob' \in [Requests -> Tasks]
      /\ \A v \in Requests \ {w} : sPc'[v] = sPc[v] /\ sJob'[v] = sJob[v]
      /\ sPc'[w] = step /\ sJob'[w] = j
  BY <1>2, <1>4 DEF WebhookShape, Stages
<1>7. WebhookShape'
  BY <1>1, <1>2, <1>3, <1>4, <1>5, <1>6 DEF WebhookShape, Webhook!Events, Webhook!Missing
<1>8. OneLock' BY <1>6 DEF OneLock, Alone
<1>9. SaveGrows' BY <1>5, <1>6 DEF SaveGrows
<1>10. Shown' BY <1>2, <1>5, <1>6 DEF Shown
<1>11. SnapshotCovers' BY <1>2, <1>5 DEF SnapshotCovers, Webhook!SnapshotCovers
<1>12. AckedIsRecorded' BY <1>2 DEF AckedIsRecorded, Webhook!AckedIsRecorded
<1> QED BY <1>7, <1>8, <1>9, <1>10, <1>11, <1>12

\* What is read under the lock is the newest there is.
LEMMA WebhookFetch ==
    ASSUME WebhookInv, NEW w \in Requests, Webhook!Fetch(w)
    PROVE  WebhookInv'
<1> USE DEF WebhookInv
<1>1. /\ sPc[w] = "fetch" /\ sPc' = [sPc EXCEPT ![w] = "save"]
      /\ sJob' = [sJob EXCEPT ![w].seen = Webhook!Now]
      /\ UNCHANGED <<sPlans, sSnap, sGone, sInbox, sRows, sAcked, sVoid>>
  BY DEF Webhook!Fetch, Webhook!durable
<1>2. Webhook!Snap' = Webhook!Snap /\ Webhook!Now' = Webhook!Now
  BY <1>1 DEF Webhook!Snap, Webhook!Now
<1>3. Webhook!Now \in Nat BY DEF Webhook!Now, WebhookShape
<1>4. /\ sPc' \in [Requests -> Stages] /\ sJob' \in [Requests -> Tasks]
      /\ \A v \in Requests \ {w} : sPc'[v] = sPc[v] /\ sJob'[v] = sJob[v]
      /\ sPc'[w] = "save" /\ sJob'[w].event = sJob[w].event /\ sJob'[w].seen = Webhook!Now
  BY <1>1, <1>3 DEF WebhookShape, Stages, Tasks
<1>5. sJob[w].event <= Webhook!Now /\ Webhook!Snap <= Webhook!Now
  BY <1>3 DEF WebhookShape, Webhook!Snap, Webhook!Missing
<1>6. WebhookShape'
  BY <1>1, <1>2, <1>3, <1>4 DEF WebhookShape, Webhook!Events, Webhook!Missing
<1>7. OneLock' BY <1>1, <1>4 DEF OneLock, Alone
<1>8. SaveGrows' BY <1>2, <1>4, <1>5 DEF SaveGrows
<1>9. Shown' BY <1>1, <1>2, <1>4 DEF Shown
<1>10. SnapshotCovers' BY <1>1, <1>2 DEF SnapshotCovers, Webhook!SnapshotCovers
<1>11. AckedIsRecorded' BY <1>1 DEF AckedIsRecorded, Webhook!AckedIsRecorded
<1> QED BY <1>6, <1>7, <1>8, <1>9, <1>10, <1>11

\* The snapshot that is saved is no older than the one it replaces.
LEMMA WebhookSave ==
    ASSUME WebhookInv, NEW w \in Requests, Webhook!Save(w)
    PROVE  WebhookInv'
<1> USE DEF WebhookInv
<1>1. /\ sPc[w] = "save" /\ sSnap' = IF sGone THEN sSnap ELSE sJob[w].seen
      /\ UNCHANGED <<sPlans, sGone, sInbox, sRows, sAcked, sVoid>>
      /\ IF sJob[w].event = 0 THEN Webhook!Stop(w) ELSE Webhook!Goto(w, "confirm")
  BY DEF Webhook!Save, Webhook!Stop, Webhook!Goto
<1>2. Webhook!Now \in Nat /\ Webhook!Now' = Webhook!Now /\ sJob[w].seen \in Nat
  BY <1>1 DEF Webhook!Now, WebhookShape, Tasks
<1>3. ~sGone => /\ Webhook!Snap' = sJob[w].seen /\ Webhook!Snap <= Webhook!Snap'
                /\ Webhook!Snap \in Nat /\ sJob[w].event <= Webhook!Snap'
  BY <1>1, <1>2 DEF Webhook!Snap, Webhook!Missing, SaveGrows, WebhookShape
<1>4. /\ sPc' \in [Requests -> Stages] /\ sJob' \in [Requests -> Tasks]
      /\ \A v \in Requests \ {w} : sPc'[v] = sPc[v] /\ sJob'[v] = sJob[v]
      /\ \/ sPc'[w] = "confirm" /\ sJob'[w] = sJob[w] /\ sJob[w].event # 0
         \/ sPc'[w] = "idle" /\ sJob'[w] = Webhook!NoJob
  BY <1>1, WebhookMoves DEF Stages, Webhook!Stop, Webhook!Goto, WebhookShape
<1>5. WebhookShape'
  <2>1. sSnap' \in Webhook!Missing..Webhook!Now
    BY <1>1, <1>2 DEF WebhookShape, Webhook!Missing
  <2>2. Webhook!NoJob.event = 0 /\ Webhook!NoJob.seen = 0 BY DEF Webhook!NoJob
  <2>3. ASSUME NEW v \in Requests
        PROVE  /\ sJob'[v].event <= Webhook!Now /\ sJob'[v].seen <= Webhook!Now
               /\ sPc'[v] \in {"owner", "confirm", "inbox", "mail"} => sJob'[v].event # 0
    BY <1>2, <1>4, <2>2 DEF WebhookShape
  <2> QED BY <1>1, <1>2, <1>4, <2>1, <2>3 DEF WebhookShape, Webhook!Events, Webhook!Missing
<1>6. OneLock' BY <1>4 DEF OneLock, Alone
<1>7. SaveGrows' BY <1>1, <1>4 DEF SaveGrows, OneLock, Alone
<1>8. Shown'
  <2>1. ASSUME NEW v \in Requests, sPc'[v] \in {"confirm", "inbox", "mail"}, ~sGone
        PROVE  sJob'[v].event <= Webhook!Snap'
    <3>1. CASE v = w BY <1>3, <1>4, <2>1, <3>1
    <3>2. CASE v # w BY <1>3, <1>4, <2>1, <3>2 DEF Shown, WebhookShape, Tasks
    <3> QED BY <3>1, <3>2
  <2> QED BY <1>1, <2>1 DEF Shown
<1>9. SnapshotCovers'
  BY <1>1, <1>3 DEF SnapshotCovers, Webhook!SnapshotCovers, WebhookShape, Webhook!Events
<1>10. AckedIsRecorded' BY <1>1 DEF AckedIsRecorded, Webhook!AckedIsRecorded
<1> QED BY <1>5, <1>6, <1>7, <1>8, <1>9, <1>10

LEMMA WebhookChange ==
    ASSUME WebhookInv, Webhook!Change
    PROVE  WebhookInv'
<1> USE DEF WebhookInv
<1>1. PICK p \in Standings : sPlans' = Append(sPlans, p) BY DEF Webhook!Change
<1>2. /\ Webhook!Now < MaxEvents
      /\ UNCHANGED <<sSnap, sGone, sInbox, sRows, sPc, sJob, sAcked, sVoid>>
  BY DEF Webhook!Change, Webhook!durable
<1>3. /\ sPlans' \in Seq(Standings) /\ Webhook!Now \in Nat /\ Webhook!Now' = Webhook!Now + 1
      /\ Webhook!Snap' = Webhook!Snap
  BY <1>1, <1>2 DEF Webhook!Now, Webhook!Snap, WebhookShape
<1>4. WebhookShape'
  BY <1>2, <1>3, EventsAssumption DEF WebhookShape, Tasks, Webhook!Events, Webhook!Missing
<1>5. OneLock' /\ SaveGrows' /\ Shown' BY <1>2, <1>3 DEF OneLock, Alone, SaveGrows, Shown
<1>6. SnapshotCovers' /\ AckedIsRecorded'
  BY <1>2, <1>3
  DEF SnapshotCovers, Webhook!SnapshotCovers, AckedIsRecorded, Webhook!AckedIsRecorded
<1> QED BY <1>4, <1>5, <1>6

LEMMA WebhookDelete ==
    ASSUME WebhookInv, Webhook!DeleteAccount
    PROVE  WebhookInv'
<1> USE DEF WebhookInv
<1>1. /\ sGone' = TRUE /\ sSnap' = Webhook!Missing /\ sInbox' = {}
      /\ UNCHANGED <<sPlans, sRows, sPc, sJob, sAcked, sVoid>>
  BY DEF Webhook!DeleteAccount
<1>2. Webhook!Now \in Nat /\ Webhook!Now' = Webhook!Now BY <1>1 DEF Webhook!Now, WebhookShape
<1>3. WebhookShape' BY <1>1, <1>2 DEF WebhookShape, Webhook!Events, Webhook!Missing
<1>4. OneLock' BY <1>1 DEF OneLock, Alone
<1>5. SaveGrows'
  BY <1>1 DEF SaveGrows, Webhook!Snap, WebhookShape, Tasks
<1>6. Shown' /\ SnapshotCovers' /\ AckedIsRecorded'
  BY <1>1 DEF Shown, SnapshotCovers, Webhook!SnapshotCovers, AckedIsRecorded,
              Webhook!AckedIsRecorded
<1> QED BY <1>3, <1>4, <1>5, <1>6

\* The steps of a delivery that only read, and those that write in the inbox and the outbox.
LEMMA WebhookOnward ==
    ASSUME WebhookInv, NEW w \in Requests,
           \/ Webhook!Owner(w) \/ Webhook!Lock(w) \/ Webhook!Confirm(w)
           \/ Webhook!Tell(w) \/ Webhook!Queue(w) \/ Webhook!Fail(w)
    PROVE  WebhookInv'
<1> USE DEF WebhookInv, Webhook!Stop, Webhook!Ack
<1>1. AckedIsRecorded BY DEF WebhookInv
<1>2. CASE Webhook!Owner(w)
  <2>1. sPc[w] = "owner" /\ sJob[w].event # 0 BY <1>2 DEF Webhook!Owner, WebhookShape
  <2>2. CASE sGone
    BY <1>1, <1>2, <2>1, <2>2, WebhookMoveKeeps
    DEF Webhook!Owner, Webhook!durable, WebhookShape, Stages, AckedIsRecorded,
        Webhook!AckedIsRecorded
  <2>3. CASE ~sGone
    BY <1>1, <1>2, <2>1, <2>3, WebhookMoveKeeps
    DEF Webhook!Owner, Webhook!durable, WebhookShape, Stages, Webhook!Goto, AckedIsRecorded,
        Webhook!AckedIsRecorded
  <2> QED BY <2>2, <2>3
<1>3. CASE Webhook!Lock(w)
  <2>1. ~Webhook!Locked /\ UNCHANGED <<sPlans, sSnap, sGone, sInbox, sRows, sAcked, sVoid>>
    BY <1>3 DEF Webhook!Lock, Webhook!durable, Webhook!Goto
  <2>2. \/ Webhook!Goto(w, "fetch")
        \/ sPc' = [sPc EXCEPT ![w] = "idle"] /\ sJob' = [sJob EXCEPT ![w] = Webhook!NoJob]
        \/ Webhook!Goto(w, "confirm") /\ sJob[w].event # 0 /\ sGone
    BY <1>3 DEF Webhook!Lock
  <2> QED
    BY <1>1, <2>1, <2>2, WebhookMoveKeeps
    DEF WebhookShape, Stages, AckedIsRecorded, Webhook!AckedIsRecorded
<1>4. CASE Webhook!Confirm(w)
  <2>1. /\ sPc[w] = "confirm" /\ sJob[w].event # 0
        /\ sGone \/ sJob[w].event <= Webhook!Snap
        /\ UNCHANGED <<sPlans, sSnap, sGone, sInbox, sRows>>
    BY <1>4 DEF Webhook!Confirm, Webhook!durable, WebhookShape, Shown
  <2>2. CASE Webhook!Goto(w, "inbox")
    BY <1>1, <2>1, <2>2, WebhookMoveKeeps
    DEF WebhookShape, Stages, Webhook!Goto, AckedIsRecorded, Webhook!AckedIsRecorded
  <2>3. CASE Webhook!Ack(w) /\ sVoid' = sVoid \cup {sJob[w].event}
    BY <1>1, <2>1, <2>3, WebhookMoveKeeps
    DEF WebhookShape, Stages, AckedIsRecorded, Webhook!AckedIsRecorded
  <2> QED BY <1>4, <2>2, <2>3 DEF Webhook!Confirm
<1>5. CASE Webhook!Tell(w)
  <2>1. /\ sPc[w] = "inbox" /\ sJob[w].event # 0 /\ sJob[w].event \in Webhook!Events
        /\ sGone \/ sJob[w].event <= Webhook!Snap
        /\ UNCHANGED <<sPlans, sSnap, sGone, sRows, sAcked, sVoid>>
        /\ sInbox' = sInbox \/ sInbox' = sInbox \cup {sJob[w].event}
    BY <1>5, EventsAssumption
    DEF Webhook!Tell, Webhook!Onward, Webhook!Goto, WebhookShape, Shown, Webhook!Events, Tasks,
        Webhook!Now
  <2>2. \/ Webhook!Goto(w, "mail")
        \/ sPc' = [sPc EXCEPT ![w] = "idle"] /\ sJob' = [sJob EXCEPT ![w] = Webhook!NoJob]
    BY <1>5 DEF Webhook!Tell, Webhook!Onward
  <2> QED
    BY <1>1, <2>1, <2>2, WebhookMoveKeeps
    DEF WebhookShape, Stages, AckedIsRecorded, Webhook!AckedIsRecorded
<1>6. CASE Webhook!Queue(w)
  <2>1. /\ sPc[w] = "mail" /\ sJob[w].event \in Webhook!Events
        /\ sGone \/ sJob[w].event <= Webhook!Snap
    BY <1>6, EventsAssumption
    DEF Webhook!Queue, WebhookShape, Shown, Webhook!Events, Tasks, Webhook!Now
  <2>2. /\ sRows' = IF sJob[w].event \in Legacy THEN sRows ELSE sRows \cup {sJob[w].event}
        /\ UNCHANGED <<sPlans, sSnap, sGone, sInbox, sVoid>> /\ Webhook!Ack(w)
    BY <1>6 DEF Webhook!Queue
  <2>3. sAcked' \subseteq sRows' \cup Legacy \cup sVoid'
    BY <1>1, <2>2 DEF AckedIsRecorded, Webhook!AckedIsRecorded
  <2> QED BY <2>1, <2>2, <2>3, WebhookMoveKeeps DEF WebhookShape, Stages
<1>7. CASE Webhook!Fail(w)
  <2>1. /\ sPc' = [sPc EXCEPT ![w] = "idle"] /\ sJob' = [sJob EXCEPT ![w] = Webhook!NoJob]
        /\ UNCHANGED <<sPlans, sSnap, sGone, sInbox, sRows, sAcked, sVoid>>
    BY <1>7 DEF Webhook!Fail, Webhook!durable
  <2>2. "idle" \in Stages \ {"save"} BY DEF Stages
  <2> QED
    BY <1>1, <2>1, <2>2, WebhookMoveKeeps
    DEF WebhookShape, AckedIsRecorded, Webhook!AckedIsRecorded
<1> QED BY <1>2, <1>3, <1>4, <1>5, <1>6, <1>7

LEMMA WebhookStep == WebhookInv /\ [Webhook!Next]_sVars => WebhookInv'
<1> SUFFICES ASSUME WebhookInv, [Webhook!Next]_sVars PROVE WebhookInv' OBVIOUS
<1>1. CASE UNCHANGED sVars
  BY <1>1 DEF sVars, WebhookInv, WebhookShape, OneLock, Alone, SaveGrows, Shown, SnapshotCovers,
     Webhook!SnapshotCovers, AckedIsRecorded, Webhook!AckedIsRecorded, Webhook!Now, Webhook!Snap
<1> QED
  BY <1>1, WebhookBegin, WebhookOnward, WebhookFetch, WebhookSave, WebhookChange, WebhookDelete
  DEF Webhook!Next

\* Both hold in every state.
LEMMA WebhookInvariance == AllSpec => []WebhookInv
<1>1. AllInit => WebhookInv BY WebhookInit DEF AllInit
<1>2. WebhookInv /\ [AllNext]_allVars => WebhookInv'
  <2>1. [AllNext]_allVars => [Webhook!Next]_sVars BY DEF AllNext, allVars, sVars
  <2> QED BY <2>1, WebhookStep
<1> QED BY <1>1, <1>2, PTL DEF AllSpec

\* Deliveries in any order, at once and again never leave the snapshot behind an event that
\* was acknowledged.
THEOREM SnapshotCoversHolds == AllSpec => []SnapshotCovers
<1>1. WebhookInv => SnapshotCovers BY DEF WebhookInv
<1> QED BY <1>1, WebhookInvariance, PTL

\* An acknowledged event is not lost: it has its mail or had nothing to say.
THEOREM AckedIsRecordedHolds == AllSpec => []AckedIsRecorded
<1>1. WebhookInv => AckedIsRecorded BY DEF WebhookInv
<1> QED BY <1>1, WebhookInvariance, PTL

-----------------------------------------------------------------------------
\* Changes of a plan.

Offers == Plus \cup Pro
Subs == [plan : Offers \cup {"none"}, cancel : BOOLEAN, sched : 0..MaxScheds, period : Nat,
         pending : Offers \cup {"none"}]
Schedules == [maker : {"none", "key", "ours", "other"}, active : BOOLEAN,
              plan : Offers \cup {"none"}, start : Nat]
Versions == {<<>>} \cup (Subs \X ({<<>>} \cup ((Offers \cup {"none"}) \X Nat)))
Calls == {"release", "cancel", "release-upgrade", "upgrade", "resume", "create", "update"}
Moments == {"idle", "state", "recover", "recovered", "check", "save"} \cup Calls

\* What Stripe and the clock keep.
StripeShape ==
    /\ pSub \in Subs /\ pSub.plan \in Offers /\ pSub.period <= MaxPeriod
    /\ pScheds \in [Plan!Ids -> Schedules]
    /\ pMade \in [Requests -> 0..MaxScheds]
    /\ pNear \in BOOLEAN /\ (pNear => pSub.period < MaxPeriod)

\* What the forms keep; whoever is not idle has the lock and a form.
FormShape ==
    /\ pForm \in [Requests -> [plan : Offers \cup {"free", "keep", "none"}, ver : Versions]]
    /\ pPc \in [Requests -> Moments]
    /\ pRead \in [sub : Subs, sched : Schedules]
    /\ pClosed \subseteq Requests
    /\ \A f, g \in Requests : pPc[f] # "idle" /\ pPc[g] # "idle" => f = g
    /\ pLate \subseteq {f \in Requests : pPc[f] # "idle"}
    /\ \A f \in Requests : pForm[f] # Plan!NoForm =>
         pForm[f].plan # "none" /\ pForm[f].ver # <<>> /\ pForm[f].ver[1] \in Subs
    /\ \A f \in Requests : pPc[f] # "idle" => pForm[f] # Plan!NoForm

\* Only the schedule of the subscription is active, and a plan it holds is still to begin.
SchedsOK ==
    /\ \A i \in Plan!Ids : pScheds[i].active <=> pSub.sched = i
    /\ \A i \in Plan!Ids : pScheds[i].maker = "none" <=> pScheds[i] = Plan!NoSched
    /\ \A f \in Requests : pMade[f] # 0 =>
         pMade[f] \in Plan!Ids /\ pScheds[pMade[f]].maker \in {"key", "ours"}
    /\ Plan!ScheduledInPeriod

\* What a form asks for, judged by the state its page showed.
Shows(f) == pForm[f].ver[1]
Aim(f) == IF pForm[f].plan = Shows(f).plan THEN "keep" ELSE pForm[f].plan
Ends(f) == Aim(f) \in {"free", "keep"}
Rises(f) == ~Ends(f) /\ Aim(f) \in Pro /\ Shows(f).plan \in Plus
Defers(f) == ~Ends(f) /\ ~(Aim(f) \in Pro /\ Shows(f).plan \in Plus)

\* The schedule that was read is still the one that is there, but for being active and for
\* a plan that has begun.
Unmoved(i) ==
    /\ pRead.sched.maker # "none"
    /\ pRead.sched.maker = pScheds[i].maker /\ pScheds[i].plan \in {pRead.sched.plan, "none"}

\* What was read is what the form's page showed, whether directly or without the schedule
\* that the form itself made.
Agreed(f) ==
    /\ pRead.sub.plan = Shows(f).plan /\ pRead.sub.cancel = Shows(f).cancel
    /\ pRead.sub.period = Shows(f).period
    /\ Shows(f).sched # 0 => pRead.sub.sched = Shows(f).sched
    /\ pRead.sub.sched # 0 => pScheds[pRead.sub.sched].maker \in {"key", "ours"}

\* A call that was done, unless Stripe has forgotten a call of the form.
Past(f, step) == <<f, step>> \in pDone \/ f \in pForgotten

\* The calls of a form follow from what its page showed, the earlier ones are done.
Route(f) ==
    /\ pPc[f] \in {"release", "cancel"} => Ends(f)
    /\ pPc[f] \in {"release-upgrade", "upgrade"} => Rises(f)
    /\ pPc[f] \in {"resume", "create", "update"} => Defers(f)
    /\ pPc[f] = "resume" => Shows(f).cancel
    /\ pPc[f] = "create" => pRead.sub.sched = 0
    /\ pPc[f] \in {"release", "release-upgrade"} /\ Shows(f).sched = 0 /\ pRead.sub.sched # 0 =>
         pScheds[pRead.sub.sched].plan = "none"
    /\ pPc[f] = "cancel" /\ Shows(f).sched # 0 => Past(f, "release")
    /\ pPc[f] = "upgrade" /\ Shows(f).sched # 0 => Past(f, "release-upgrade")
    /\ pPc[f] \in {"create", "update"} /\ Shows(f).cancel => Past(f, "resume")

\* The plan that is about to be scheduled was asked for in this period, which does not end
\* before the form is answered.
InPeriod(f) ==
    pPc[f] \in {"resume", "create", "update"} =>
        pRead.sub.period = pSub.period /\ (pNear => f \in pLate)

HolderOK(f) ==
    /\ pRead.sub.plan \in Offers
    /\ pPc[f] = "state" /\ pRead.sub.sched # 0 => pScheds[pRead.sub.sched].maker # "none"
    /\ pPc[f] \in {"recover", "check"} =>
         IF pRead.sub.sched = 0 THEN pRead.sched = Plan!NoSched ELSE Unmoved(pRead.sub.sched)
    /\ pPc[f] \in {"recovered"} \cup Calls => Agreed(f)
    /\ pPc[f] = "recovered" /\ pRead.sub.sched # 0 => pScheds[pRead.sub.sched].plan = "none"
    /\ Route(f) /\ InPeriod(f)

\* Stripe remembers all the calls of a form, one that decided among them.
Decided(f) == f \notin pForgotten /\ pDone \cap Plan!Deciding(f) # {}

\* What has been decided for a form is what it asks for, after the calls that come before.
DoneOK ==
    /\ \A call \in pDone : call[1] \in Requests
    /\ \A f \in Requests :
        /\ <<f, "cancel">> \in pDone =>
             pForm[f] # Plan!NoForm /\ Ends(f) /\ (Shows(f).sched # 0 => Past(f, "release"))
        /\ <<f, "upgrade">> \in pDone =>
             /\ pForm[f] # Plan!NoForm /\ Rises(f)
             /\ Shows(f).sched # 0 => Past(f, "release-upgrade")
        /\ <<f, "update">> \in pDone =>
             pForm[f] # Plan!NoForm /\ Defers(f) /\ (Shows(f).cancel => Past(f, "resume"))
    /\ \A f \in pClosed : Decided(f)

PlanInv ==
    /\ StripeShape /\ FormShape /\ SchedsOK /\ DoneOK
    /\ \A f \in Requests : pPc[f] # "idle" => HolderOK(f)

LEMMA PlanBounds == MaxPeriod \in Nat /\ MaxScheds \in Nat
BY PlansAssumption

LEMMA NoReadType ==
    /\ Plan!NoRead \in [sub : Subs, sched : Schedules]
    /\ Plan!NoSched \in Schedules /\ Plan!NoSched.maker = "none" /\ Plan!NoSched.plan = "none"
    /\ ~Plan!NoSched.active
BY PlansAssumption DEF Plan!NoRead, Plan!NoSched, Plan!None, Subs, Schedules

LEMMA PlanInit == Plan!Init => PlanInv
<1> SUFFICES ASSUME Plan!Init PROVE PlanInv OBVIOUS
<1> USE PlansAssumption DEF Plan!Init, Plan!None
<1>1. (CHOOSE p \in Plus : TRUE) \in Plus OBVIOUS
<1>0. PICK i \in {0, 1} \cap (0..MaxScheds) :
        /\ pSub = [plan |-> CHOOSE p \in Plus : TRUE, cancel |-> FALSE, sched |-> i,
                   period |-> 0, pending |-> "none"]
        /\ pScheds = [j \in Plan!Ids |-> IF j = i THEN Plan!Begun ELSE Plan!NoSched]
  OBVIOUS
<1>2. pSub \in Subs /\ pSub.plan \in Offers /\ pSub.sched = i /\ pSub.period = 0
  BY <1>0, <1>1 DEF Subs, Offers
<1>3. pNear \in BOOLEAN /\ ~pNear OBVIOUS
<1>9. /\ Plan!Begun \in Schedules /\ Plan!Begun.maker = "ours" /\ Plan!Begun.plan = "none"
      /\ Plan!Begun.active /\ Plan!Begun # Plan!NoSched
  BY DEF Plan!Begun, Plan!NoSched, Schedules
<1>4. StripeShape BY <1>0, <1>2, <1>3, <1>9, NoReadType DEF StripeShape, Plan!Ids
<1>5. Plan!NoForm \in [plan : Offers \cup {"free", "keep", "none"}, ver : Versions]
  BY DEF Plan!NoForm, Versions
<1>6. FormShape BY <1>5, NoReadType DEF FormShape, Moments
<1>7. SchedsOK
  BY <1>0, <1>2, <1>9, NoReadType DEF SchedsOK, Plan!ScheduledInPeriod, Plan!Ids
<1>8. DoneOK BY DEF DoneOK
<1> QED BY <1>4, <1>6, <1>7, <1>8 DEF PlanInv

\* The lock is released: nobody is under way.
LEMMA LeaveKeeps ==
    ASSUME PlanInv, NEW f \in Requests, pPc[f] # "idle", Plan!Leave(f),
           StripeShape', SchedsOK', DoneOK', pClosed' \subseteq Requests
    PROVE  PlanInv'
<1> USE DEF PlanInv
<1>1. /\ pPc' = [pPc EXCEPT ![f] = "idle"] /\ pRead' = Plan!NoRead /\ pLate' = pLate \ {f}
      /\ pForm' = pForm
  BY DEF Plan!Leave
<1>2. \A g \in Requests : pPc'[g] = "idle" BY <1>1 DEF FormShape
<1>3. pLate' = {} BY <1>1 DEF FormShape
<1>4. FormShape' BY <1>1, <1>2, <1>3, NoReadType DEF FormShape, Moments
<1> QED BY <1>2, <1>4

\* The one who has the lock goes on.
LEMMA GotoKeeps ==
    ASSUME PlanInv, NEW f \in Requests, \A g \in Requests \ {f} : pPc[g] = "idle",
           pForm[f] # Plan!NoForm, NEW step \in Moments \ {"idle"},
           pPc' = [pPc EXCEPT ![f] = step], pRead' \in [sub : Subs, sched : Schedules],
           UNCHANGED <<pForm, pLate, pClosed, pForgotten>>,
           StripeShape', SchedsOK', DoneOK', HolderOK(f)'
    PROVE  PlanInv'
<1> USE DEF PlanInv
<1>1. /\ pPc' \in [Requests -> Moments] /\ pPc'[f] = step
      /\ \A g \in Requests \ {f} : pPc'[g] = "idle"
  BY DEF FormShape
<1>2. FormShape' BY <1>1 DEF FormShape
<1> QED BY <1>1, <1>2

\* Stripe and its dashboard, while a form may be under way: what has a maker keeps it, and
\* the plan with it until that begins.
LEMMA OutsideKeeps ==
    ASSUME PlanInv, Plan!Outside, StripeShape', SchedsOK',
           pLate' \subseteq {f \in Requests : pPc[f] # "idle"},
           \A i \in Plan!Ids : pScheds[i].maker # "none" =>
             pScheds'[i].maker = pScheds[i].maker /\ pScheds'[i].plan \in {pScheds[i].plan, "none"},
           \A f \in Requests : pPc[f] \in {"resume", "create", "update"} => InPeriod(f)'
    PROVE  PlanInv'
<1> USE DEF PlanInv
<1>1. UNCHANGED <<pForm, pPc, pRead, pMade, pDone, pClosed, pForgotten>> BY DEF Plan!Outside
<1>2. FormShape' BY <1>1 DEF FormShape
<1>3. DoneOK' BY <1>1 DEF DoneOK, Decided, Ends, Rises, Defers, Aim, Shows, Past, Plan!Deciding
<1>4. ASSUME NEW f \in Requests, pPc[f] # "idle" PROVE HolderOK(f)'
  <2>1. HolderOK(f) BY <1>4
  <2>2. pRead.sub.sched # 0 => pRead.sub.sched \in Plan!Ids
    BY PlansAssumption DEF FormShape, Subs, Plan!Ids
  <2>3. pPc[f] \in {"recover", "check"} /\ pRead.sub.sched # 0 => Unmoved(pRead.sub.sched)'
    BY <1>1, <2>1, <2>2 DEF HolderOK, Unmoved
  <2>4. pPc[f] \in {"recovered"} \cup Calls => Agreed(f)'
    BY <1>1, <2>1, <2>2 DEF HolderOK, Agreed, Shows
  <2>5. Route(f)'
    BY <1>1, <2>1, <2>2 DEF HolderOK, Agreed, Route, Shows, Aim, Ends, Rises, Defers, Past, Calls
  <2>6. InPeriod(f)' BY <1>1 DEF InPeriod
  <2>7. pPc[f] = "recovered" /\ pRead.sub.sched # 0 => pScheds'[pRead.sub.sched].plan = "none"
    BY <1>1, <2>1, <2>2 DEF HolderOK, Agreed
  <2> QED BY <1>1, <2>1, <2>2, <2>3, <2>4, <2>5, <2>6, <2>7 DEF HolderOK
<1> QED BY <1>1, <1>2, <1>3, <1>4

\* A schedule that is taken off its subscription keeps its maker and its plan.
LEMMA TakenOff ==
    ASSUME StripeShape, SchedsOK, pSub.sched # 0, pMade' = pMade, pSub'.sched = 0,
           pScheds' = [pScheds EXCEPT ![pSub.sched].active = FALSE]
    PROVE  /\ pSub.sched \in Plan!Ids /\ pScheds' \in [Plan!Ids -> Schedules] /\ SchedsOK'
           /\ \A j \in Plan!Ids :
                pScheds'[j].maker = pScheds[j].maker /\ pScheds'[j].plan = pScheds[j].plan
<1> DEFINE i == pSub.sched
<1>1. i \in Plan!Ids BY PlansAssumption DEF StripeShape, Subs, Plan!Ids
<1>2. /\ pScheds' \in [Plan!Ids -> Schedules]
      /\ pScheds'[i].maker = pScheds[i].maker /\ pScheds'[i].plan = pScheds[i].plan
      /\ ~pScheds'[i].active
      /\ \A j \in Plan!Ids \ {i} : pScheds'[j] = pScheds[j]
  BY <1>1 DEF StripeShape, Schedules
<1>3. \A j \in Plan!Ids : ~pScheds'[j].active BY <1>2 DEF SchedsOK
<1>4. \A j \in Plan!Ids : pScheds'[j].active <=> pSub'.sched = j
  BY <1>3 DEF Plan!Ids
<1>5. pScheds[i].maker # "none" BY <1>1, NoReadType DEF SchedsOK
<1>6. \A j \in Plan!Ids : pScheds'[j].maker = "none" <=> pScheds'[j] = Plan!NoSched
  BY <1>2, <1>5, NoReadType DEF SchedsOK
<1>7. \A f \in Requests : pMade'[f] # 0 =>
         pMade'[f] \in Plan!Ids /\ pScheds'[pMade'[f]].maker \in {"key", "ours"}
  BY <1>2 DEF SchedsOK
<1>8. Plan!ScheduledInPeriod' BY <1>3 DEF Plan!ScheduledInPeriod
<1> QED BY <1>1, <1>2, <1>4, <1>6, <1>7, <1>8 DEF SchedsOK

LEMMA ClockKeeps ==
    ASSUME PlanInv, Plan!Approach \/ Plan!Settle \/ Plan!Lapse
    PROVE  PlanInv'
<1> USE DEF PlanInv
<1>1. CASE Plan!Approach
  <2>1. /\ pSub.period < MaxPeriod /\ pNear' = TRUE /\ ~pNear
        /\ pLate' = {f \in Requests : pPc[f] # "idle"}
        /\ UNCHANGED <<pSub, pScheds>> /\ Plan!Outside
    BY <1>1 DEF Plan!Approach
  <2>2. StripeShape' BY <2>1 DEF StripeShape, Plan!Outside
  <2>3. SchedsOK' BY <2>1 DEF SchedsOK, Plan!ScheduledInPeriod, Plan!Outside
  <2>4. \A f \in Requests : pPc[f] \in {"resume", "create", "update"} => InPeriod(f)'
    BY <2>1 DEF InPeriod, HolderOK, Plan!Outside
  <2> QED BY <2>1, <2>2, <2>3, <2>4, OutsideKeeps
<1>2. CASE Plan!Settle \/ Plan!Lapse
  <2>1. /\ pSub' \in Subs /\ pSub'.plan \in Offers
        /\ pSub'.period = pSub.period /\ pSub'.sched = pSub.sched
        /\ UNCHANGED <<pScheds, pNear, pLate>> /\ Plan!Outside
    BY <1>2 DEF Plan!Settle, Plan!Lapse, StripeShape, Subs, Plan!None
  <2>2. StripeShape' BY <2>1 DEF StripeShape, Plan!Outside
  <2>3. SchedsOK' BY <2>1 DEF SchedsOK, Plan!ScheduledInPeriod, Plan!Outside
  <2>4. \A f \in Requests : pPc[f] \in {"resume", "create", "update"} => InPeriod(f)'
    BY <2>1 DEF InPeriod, HolderOK, Plan!Outside
  <2>5. pLate' \subseteq {f \in Requests : pPc[f] # "idle"} BY <2>1 DEF FormShape
  <2> QED BY <2>1, <2>2, <2>3, <2>4, <2>5, OutsideKeeps
<1> QED BY <1>1, <1>2

\* An operator attaches a schedule without a plan, or takes one off.
LEMMA OperatorKeeps ==
    ASSUME PlanInv, Plan!Attach \/ Plan!Detach
    PROVE  PlanInv'
<1> USE DEF PlanInv
<1>1. /\ UNCHANGED <<pNear, pLate>> /\ Plan!Outside
  BY DEF Plan!Attach, Plan!Detach
<1>2. pLate' \subseteq {f \in Requests : pPc[f] # "idle"} BY <1>1 DEF FormShape
<1>3. CASE Plan!Attach
  <2>1. PICK i \in Plan!Ids :
          /\ pScheds[i] = Plan!NoSched
          /\ pScheds' = [pScheds EXCEPT ![i] =
                           [Plan!NoSched EXCEPT !.maker = "other", !.active = TRUE]]
          /\ pSub' = [pSub EXCEPT !.sched = i] /\ pSub.sched = 0
    BY <1>3 DEF Plan!Attach
  <2> DEFINE s == [Plan!NoSched EXCEPT !.maker = "other", !.active = TRUE]
  <2>2. /\ s \in Schedules /\ s.maker = "other" /\ s.active /\ s.plan = "none"
        /\ s # Plan!NoSched
    BY DEF Plan!NoSched, Plan!None, Schedules
  <2>3. pScheds' = [pScheds EXCEPT ![i] = s] BY <2>1
  <2> HIDE DEF s
  <2>4. /\ pScheds' \in [Plan!Ids -> Schedules] /\ pScheds'[i] = s
        /\ \A j \in Plan!Ids \ {i} : pScheds'[j] = pScheds[j]
    BY <2>2, <2>3 DEF StripeShape
  <2>5. /\ pSub' \in Subs /\ pSub'.plan = pSub.plan /\ pSub'.period = pSub.period
        /\ pSub'.sched = i
    BY <2>1, PlansAssumption DEF StripeShape, Subs, Plan!Ids
  <2>6. StripeShape' BY <1>1, <2>4, <2>5 DEF StripeShape, Plan!Outside
  <2>7. i # 0 BY PlansAssumption DEF Plan!Ids
  <2>8. SchedsOK'
    <3>1. \A j \in Plan!Ids : pScheds'[j].active <=> pSub'.sched = j
      BY <2>1, <2>2, <2>4, <2>5, <2>7 DEF SchedsOK, Plan!Ids
    <3>2. \A j \in Plan!Ids : pScheds'[j].maker = "none" <=> pScheds'[j] = Plan!NoSched
      BY <2>2, <2>4 DEF SchedsOK
    <3>3. \A f \in Requests : pMade'[f] # 0 =>
             pMade'[f] \in Plan!Ids /\ pScheds'[pMade'[f]].maker \in {"key", "ours"}
      BY <1>1, <2>1, <2>4, NoReadType DEF SchedsOK, Plan!Outside
    <3>4. Plan!ScheduledInPeriod'
      BY <2>2, <2>4, <2>5 DEF SchedsOK, Plan!ScheduledInPeriod, Plan!None
    <3> QED BY <3>1, <3>2, <3>3, <3>4 DEF SchedsOK
  <2>9. \A j \in Plan!Ids : pScheds[j].maker # "none" =>
           pScheds'[j].maker = pScheds[j].maker /\ pScheds'[j].plan = pScheds[j].plan
    BY <2>1, <2>4, NoReadType
  <2>10. \A f \in Requests : pPc[f] \in {"resume", "create", "update"} => InPeriod(f)'
    BY <1>1, <2>5 DEF InPeriod, HolderOK, Plan!Outside
  <2> QED BY <1>1, <1>2, <2>6, <2>8, <2>9, <2>10, OutsideKeeps
<1>4. CASE Plan!Detach
  <2>1. /\ pSub' = [pSub EXCEPT !.sched = 0] /\ pSub.sched # 0 /\ pMade' = pMade
        /\ pScheds' = [pScheds EXCEPT ![pSub.sched].active = FALSE]
    BY <1>1, <1>4 DEF Plan!Detach, Plan!Outside
  <2>2. /\ pSub' \in Subs /\ pSub'.plan = pSub.plan /\ pSub'.period = pSub.period
        /\ pSub'.sched = 0
    BY <2>1, PlansAssumption DEF StripeShape, Subs
  <2>3. StripeShape' BY <1>1, <2>1, <2>2, TakenOff DEF StripeShape
  <2>4. \A f \in Requests : pPc[f] \in {"resume", "create", "update"} => InPeriod(f)'
    BY <1>1, <2>2 DEF InPeriod, HolderOK, Plan!Outside
  <2> QED BY <1>1, <1>2, <2>1, <2>2, <2>3, <2>4, TakenOff, OutsideKeeps
<1> QED BY <1>3, <1>4

\* A period ends only when no form is under way that counts on it.
LEMMA RenewKeeps ==
    ASSUME PlanInv, Plan!Renew
    PROVE  PlanInv'
<1> USE DEF PlanInv
<1> DEFINE i == pSub.sched
           s == Plan!SchedOf(i)
           due == s.plan # "none" /\ s.start = pSub.period + 1
           over == s.maker = "ours" /\ s.plan = "none"
<1>1. /\ pNear /\ pLate = {} /\ pNear' = FALSE /\ pLate' = pLate /\ Plan!Outside
      /\ pSub' = [pSub EXCEPT !.period = @ + 1, !.plan = IF due THEN s.plan ELSE @,
                              !.sched = IF over THEN 0 ELSE @]
      /\ pScheds' = IF due THEN [pScheds EXCEPT ![i].plan = "none", ![i].start = 0]
                    ELSE IF over THEN [pScheds EXCEPT ![i].active = FALSE] ELSE pScheds
  BY DEF Plan!Renew, Plan!None
<1>2. \A f \in Requests : ~(pPc[f] \in {"resume", "create", "update"})
  BY <1>1 DEF HolderOK, InPeriod
<1>3. pMade' = pMade /\ pLate' \subseteq {f \in Requests : pPc[f] # "idle"}
  BY <1>1 DEF Plan!Outside
<1>4. /\ due \/ over => i # 0
      /\ i # 0 => i \in Plan!Ids /\ s = pScheds[i] /\ s \in Schedules
  BY NoReadType, PlanBounds DEF Plan!SchedOf, StripeShape, Subs, Plan!Ids
<1>5. /\ pSub' \in Subs /\ pSub'.plan \in Offers /\ pSub'.period = pSub.period + 1
      /\ pSub'.sched = IF over THEN 0 ELSE i
  <2>1. pSub \in Subs /\ pSub.plan \in Offers BY DEF StripeShape
  <2>2. pSub.period + 1 \in Nat /\ 0 \in 0..MaxScheds BY <2>1, PlanBounds DEF Subs
  <2>3. PICK p \in Offers, k \in 0..MaxScheds :
          /\ pSub' = [pSub EXCEPT !.period = pSub.period + 1, !.plan = p, !.sched = k]
          /\ k = IF over THEN 0 ELSE i
    <3>1. due => s.plan \in Offers BY <1>4 DEF Schedules
    <3> HIDE DEF due, over, s
    <3> QED BY <1>1, <2>1, <2>2, <3>1 DEF Subs
  <2> HIDE DEF over
  <2> QED BY <2>1, <2>2, <2>3 DEF Subs
<1>6. pSub'.period <= MaxPeriod BY <1>1, <1>5, PlanBounds DEF StripeShape, Subs
<1>7. CASE due
  <2>1. /\ pScheds' = [pScheds EXCEPT ![i].plan = "none", ![i].start = 0] /\ ~over
        /\ i \in Plan!Ids /\ i # 0 /\ s = pScheds[i] /\ s \in Schedules /\ pSub'.sched = i
    BY <1>1, <1>4, <1>5, <1>7
  <2>2. /\ pScheds' \in [Plan!Ids -> Schedules]
        /\ pScheds'[i].maker = pScheds[i].maker /\ pScheds'[i].plan = "none"
        /\ pScheds'[i].active = pScheds[i].active
        /\ \A j \in Plan!Ids \ {i} : pScheds'[j] = pScheds[j]
    BY <2>1 DEF StripeShape, Schedules
  <2>3. pScheds[i].maker # "none" BY <1>7, <2>1, NoReadType DEF SchedsOK
  <2>4. StripeShape' BY <1>1, <1>3, <1>5, <1>6, <2>2 DEF StripeShape
  <2>5. SchedsOK'
    <3>1. \A j \in Plan!Ids : pScheds'[j].active <=> pSub'.sched = j
      BY <2>1, <2>2 DEF SchedsOK
    <3>2. \A j \in Plan!Ids : pScheds'[j].maker = "none" <=> pScheds'[j] = Plan!NoSched
      BY <2>2, <2>3, NoReadType DEF SchedsOK
    <3>3. \A f \in Requests : pMade'[f] # 0 =>
             pMade'[f] \in Plan!Ids /\ pScheds'[pMade'[f]].maker \in {"key", "ours"}
      BY <1>3, <2>2 DEF SchedsOK
    <3>4. \A j \in Plan!Ids \ {i} : ~pScheds'[j].active BY <2>1, <3>1
    <3>5. Plan!ScheduledInPeriod' BY <2>2, <3>4 DEF Plan!ScheduledInPeriod, Plan!None
    <3> QED BY <3>1, <3>2, <3>3, <3>5 DEF SchedsOK
  <2>6. \A j \in Plan!Ids : pScheds[j].maker # "none" =>
           pScheds'[j].maker = pScheds[j].maker /\ pScheds'[j].plan \in {pScheds[j].plan, "none"}
    BY <2>2
  <2> QED BY <1>1, <1>2, <1>3, <2>4, <2>5, <2>6, OutsideKeeps
<1>8. CASE over
  <2>1. /\ pScheds' = [pScheds EXCEPT ![i].active = FALSE] /\ pSub'.sched = 0 /\ i # 0
    BY <1>1, <1>4, <1>5, <1>8
  <2>2. StripeShape' BY <1>1, <1>3, <1>5, <1>6, <2>1, TakenOff DEF StripeShape
  <2> QED BY <1>1, <1>2, <1>3, <2>1, <2>2, TakenOff, OutsideKeeps
<1>9. CASE ~due /\ ~over
  <2>1. pScheds' = pScheds /\ pSub'.sched = pSub.sched /\ pSub'.period = pSub.period + 1
    BY <1>1, <1>5, <1>9
  <2>2. StripeShape' BY <1>1, <1>3, <1>5, <1>6, <2>1 DEF StripeShape
  <2>3. ASSUME NEW j \in Plan!Ids, pScheds[j].active, pScheds[j].plan # "none"
        PROVE  pScheds[j].start > pSub.period + 1
    <3>1. pScheds[j].start > pSub.period /\ pSub.sched = j /\ j # 0
      BY <2>3, PlansAssumption DEF SchedsOK, Plan!ScheduledInPeriod, Plan!None, Plan!Ids
    <3>2. pScheds[j].start # pSub.period + 1 BY <1>9, <2>3, <3>1 DEF Plan!SchedOf
    <3> QED BY <3>1, <3>2 DEF StripeShape, Schedules, Subs
  <2>4. Plan!ScheduledInPeriod' BY <2>1, <2>3 DEF Plan!ScheduledInPeriod, Plan!None
  <2>5. SchedsOK' BY <1>3, <2>1, <2>4 DEF SchedsOK
  <2> QED BY <1>1, <1>2, <1>3, <2>1, <2>2, <2>5, OutsideKeeps
<1> QED BY <1>7, <1>8, <1>9

\* A call that is forgotten takes nothing back.
LEMMA ForgetKeeps ==
    ASSUME PlanInv, Plan!Forget
    PROVE  PlanInv'
<1> USE DEF PlanInv
<1>1. PICK f \in Requests :
        /\ pForgotten' = pForgotten \cup {f} /\ pClosed' = pClosed \ {f}
        /\ pDone' \subseteq pDone /\ \A c \in pDone \ pDone' : c[1] = f
        /\ \A g \in Requests : pMade'[g] \in {pMade[g], 0}
        /\ pMade' \in [Requests -> 0..MaxScheds]
        /\ UNCHANGED <<pSub, pScheds, pNear, pLate, pForm, pPc, pRead>>
  <2>1. UNCHANGED <<pSub, pScheds, pNear, pLate, pForm, pPc, pRead>>
    BY DEF Plan!Forget, Plan!clock
  <2>2. CASE \E call \in pDone :
               pDone' = pDone \ {call} /\ Plan!Lost(call[1]) /\ UNCHANGED pMade
    <3>1. PICK call \in pDone :
            pDone' = pDone \ {call} /\ Plan!Lost(call[1]) /\ UNCHANGED pMade
      BY <2>2
    <3>2. call[1] \in Requests BY DEF DoneOK
    <3> QED BY <2>1, <3>1, <3>2 DEF Plan!Lost, StripeShape
  <2>3. CASE \E f \in Requests :
               /\ pMade[f] # 0 /\ pMade' = [pMade EXCEPT ![f] = 0] /\ Plan!Lost(f)
               /\ UNCHANGED pDone
    BY <2>1, <2>3, PlanBounds DEF Plan!Lost, StripeShape
  <2> QED BY <2>2, <2>3 DEF Plan!Forget
<1>2. StripeShape' BY <1>1 DEF StripeShape
<1>3. SchedsOK' BY <1>1, PlanBounds DEF SchedsOK, Plan!ScheduledInPeriod, StripeShape
<1>4. FormShape' BY <1>1 DEF FormShape
<1>5. \A g \in Requests :
        /\ Ends(g)' <=> Ends(g)
        /\ Rises(g)' <=> Rises(g)
        /\ Defers(g)' <=> Defers(g)
        /\ Shows(g)' = Shows(g)
  BY <1>1 DEF Ends, Rises, Defers, Aim, Shows
<1>6. ASSUME NEW g \in Requests, NEW c, Past(g, c)
      PROVE  <<g, c>> \in pDone' \/ g \in pForgotten'
  BY <1>1, <1>6 DEF Past
<1>7. DoneOK'
  <2>1. \A g \in pClosed' : Decided(g)'
    <3> SUFFICES ASSUME NEW g \in pClosed' PROVE Decided(g)' OBVIOUS
    <3>1. g \in pClosed /\ g # f /\ Decided(g) BY <1>1 DEF DoneOK
    <3>2. pDone \cap Plan!Deciding(g) \subseteq pDone'
      BY <1>1, <3>1 DEF Plan!Deciding
    <3> QED BY <1>1, <3>1, <3>2 DEF Decided, Plan!Deciding
  <2>2. ASSUME NEW g \in Requests
        PROVE  /\ <<g, "cancel">> \in pDone' =>
                    pForm'[g] # Plan!NoForm /\ Ends(g)' /\
                    (Shows(g)'.sched # 0 => <<g, "release">> \in pDone' \/ g \in pForgotten')
               /\ <<g, "upgrade">> \in pDone' =>
                    /\ pForm'[g] # Plan!NoForm /\ Rises(g)'
                    /\ Shows(g)'.sched # 0 =>
                         <<g, "release-upgrade">> \in pDone' \/ g \in pForgotten'
               /\ <<g, "update">> \in pDone' =>
                    pForm'[g] # Plan!NoForm /\ Defers(g)' /\
                    (Shows(g)'.cancel => <<g, "resume">> \in pDone' \/ g \in pForgotten')
    <3>1. /\ <<g, "cancel">> \in pDone' => <<g, "cancel">> \in pDone
          /\ <<g, "upgrade">> \in pDone' => <<g, "upgrade">> \in pDone
          /\ <<g, "update">> \in pDone' => <<g, "update">> \in pDone
      BY <1>1
    <3> QED BY <1>1, <1>5, <1>6, <3>1 DEF DoneOK
  <2>3. \A call \in pDone' : call[1] \in Requests BY <1>1 DEF DoneOK
  <2> QED BY <2>1, <2>2, <2>3 DEF DoneOK, Past
<1>8. ASSUME NEW g \in Requests, pPc'[g] # "idle" PROVE HolderOK(g)'
  <2>1. HolderOK(g) /\ pPc'[g] = pPc[g] BY <1>1, <1>8
  <2>2. Route(g)' BY <1>1, <1>5, <1>6, <2>1 DEF HolderOK, Route, Past
  <2> QED BY <1>1, <2>1, <2>2 DEF HolderOK, Unmoved, Agreed, Shows, InPeriod
<1> QED BY <1>2, <1>3, <1>4, <1>7, <1>8

\* A page is filled in.
LEMMA FillKeeps ==
    ASSUME PlanInv, NEW f \in Requests, Plan!Fill(f)
    PROVE  PlanInv'
<1> USE DEF PlanInv
<1> DEFINE v == Plan!Version(Plan!Current)
<1>1. PICK p \in Offers \cup {"free", "keep"} :
        pForm' = [pForm EXCEPT ![f] = [plan |-> p, ver |-> v]]
  BY DEF Plan!Fill, Plan!Plans, Offers
<1>2. /\ pForm[f] = Plan!NoForm /\ pPc[f] = "idle"
      /\ UNCHANGED <<pSub, pScheds, pMade, pDone, pNear, pLate, pPc, pRead, pClosed, pForgotten>>
  BY DEF Plan!Fill, Plan!stripe, Plan!clock, FormShape
<1>3. v \in Versions /\ v # <<>> /\ v[1] \in Subs
  <2>1. Plan!SchedOf(pSub.sched) \in Schedules
    BY NoReadType, PlansAssumption DEF Plan!SchedOf, StripeShape, Subs, Plan!Ids
  <2>2. v = <<pSub, IF Plan!Owned(Plan!SchedOf(pSub.sched))
                   THEN <<Plan!SchedOf(pSub.sched).plan, Plan!SchedOf(pSub.sched).start>>
                   ELSE <<>>>>
    BY DEF Plan!Version, Plan!Current
  <2>3. pSub \in Subs BY DEF StripeShape
  <2> HIDE DEF v
  <2> QED BY <2>1, <2>2, <2>3 DEF Versions, Schedules
<1> HIDE DEF v
<1>4. /\ pForm' \in [Requests -> [plan : Offers \cup {"free", "keep", "none"}, ver : Versions]]
      /\ pForm'[f].plan = p /\ pForm'[f].ver = v
      /\ \A g \in Requests \ {f} : pForm'[g] = pForm[g]
  BY <1>1, <1>3 DEF FormShape
<1>5. p # "none" BY PlansAssumption DEF Offers
<1>6. FormShape' BY <1>2, <1>3, <1>4, <1>5 DEF FormShape
<1>7. StripeShape' /\ SchedsOK'
  BY <1>2 DEF StripeShape, SchedsOK, Plan!ScheduledInPeriod
<1>8. DoneOK'
  BY <1>2, <1>4 DEF DoneOK, Decided, Ends, Rises, Defers, Aim, Shows, Past, Plan!Deciding
<1>9. ASSUME NEW g \in Requests, pPc'[g] # "idle" PROVE HolderOK(g)'
  <2>1. g # f /\ HolderOK(g) /\ pForm'[g] = pForm[g] BY <1>2, <1>4, <1>9
  <2> QED
    BY <1>2, <2>1
    DEF HolderOK, Unmoved, Agreed, Route, InPeriod, Ends, Rises, Defers, Aim, Shows, Past
<1> QED BY <1>6, <1>7, <1>8, <1>9

\* The one who has the lock is alone, and has sent a form.
LEMMA Holder ==
    ASSUME PlanInv, NEW f \in Requests, pPc[f] # "idle"
    PROVE  /\ HolderOK(f) /\ pForm[f] # Plan!NoForm
           /\ \A g \in Requests \ {f} : pPc[g] = "idle"
BY DEF PlanInv, FormShape

\* Nothing at Stripe changes.
LEMMA SameStripe ==
    ASSUME PlanInv, UNCHANGED <<pSub, pScheds, pMade, pDone, pNear, pForm, pClosed, pForgotten>>
    PROVE  StripeShape' /\ SchedsOK' /\ DoneOK'
BY DEF PlanInv, StripeShape, SchedsOK, Plan!ScheduledInPeriod, DoneOK, Decided, Ends, Rises,
   Defers, Aim, Shows, Past, Plan!Deciding

LEMMA BeginKeeps ==
    ASSUME PlanInv, NEW f \in Requests, Plan!Begin(f), pForgotten' = pForgotten
    PROVE  PlanInv'
<1> USE DEF PlanInv
<1> DEFINE x == [Plan!NoRead EXCEPT !.sub = pSub]
<1>1. /\ pForm[f] # Plan!NoForm /\ \A g \in Requests : pPc[g] = "idle"
      /\ pPc' = [pPc EXCEPT ![f] = "state"] /\ pRead' = x
      /\ UNCHANGED <<pSub, pScheds, pMade, pDone, pNear, pLate, pForm, pClosed, pForgotten>>
  BY DEF Plan!Begin, Plan!Unlocked, Plan!stripe, Plan!clock
<1>2. x \in [sub : Subs, sched : Schedules] /\ x.sub = pSub
  BY NoReadType DEF StripeShape
<1>3. pPc'[f] = "state" BY <1>1 DEF FormShape
<1>4. pSub.sched # 0 => pSub.sched \in Plan!Ids /\ pScheds[pSub.sched].maker # "none"
  BY NoReadType, PlanBounds DEF SchedsOK, StripeShape, Subs, Plan!Ids
<1> HIDE DEF x
<1>5. HolderOK(f)'
  BY <1>1, <1>2, <1>3, <1>4 DEF HolderOK, Route, InPeriod, Calls, StripeShape
<1> QED BY <1>1, <1>2, <1>5, SameStripe, GotoKeeps DEF Moments

LEMMA StateKeeps ==
    ASSUME PlanInv, NEW f \in Requests, Plan!State(f), pForgotten' = pForgotten
    PROVE  PlanInv'
<1> USE DEF PlanInv
<1> DEFINE i == pRead.sub.sched
           x == [pRead EXCEPT !.sched = Plan!SchedOf(i)]
<1>1. PICK step \in {"recover", "check"} :
        /\ pPc' = [pPc EXCEPT ![f] = step] /\ pRead' = x /\ pPc[f] = "state"
        /\ UNCHANGED <<pSub, pScheds, pMade, pDone, pNear, pLate, pForm, pClosed, pForgotten>>
  BY DEF Plan!State, Plan!stripe, Plan!clock
<1>2. i # 0 => i \in Plan!Ids /\ pScheds[i] \in Schedules
  BY PlanBounds DEF FormShape, StripeShape, Subs, Plan!Ids
<1>3. Plan!SchedOf(i) \in Schedules BY <1>2, NoReadType DEF Plan!SchedOf
<1>4. x \in [sub : Subs, sched : Schedules] /\ x.sub = pRead.sub /\ x.sched = Plan!SchedOf(i)
  BY <1>3 DEF FormShape
<1>5. pPc'[f] = step BY <1>1 DEF FormShape
<1> HIDE DEF x
<1>6. HolderOK(f) BY <1>1
<1>7. IF i = 0 THEN x.sched = Plan!NoSched ELSE x.sched = pScheds[i] /\ x.sched.maker # "none"
  BY <1>1, <1>4, <1>6 DEF HolderOK, Plan!SchedOf
<1>8. HolderOK(f)'
  BY <1>1, <1>4, <1>5, <1>6, <1>7 DEF HolderOK, Route, InPeriod, Calls, Unmoved
<1> QED BY <1>1, <1>4, <1>8, Holder, SameStripe, GotoKeeps DEF Moments

\* Saving, failing, or giving up.
LEMMA GiveUpKeeps ==
    ASSUME PlanInv, NEW f \in Requests, pPc[f] # "idle", Plan!Leave(f),
           UNCHANGED <<pSub, pScheds, pMade, pDone, pForgotten>>,
           pClosed' \subseteq Requests, \A g \in pClosed' : Decided(g)
    PROVE  PlanInv'
<1>1. UNCHANGED <<pForm, pNear>> BY DEF Plan!Leave
<1>2. StripeShape' /\ SchedsOK'
  BY <1>1 DEF PlanInv, StripeShape, SchedsOK, Plan!ScheduledInPeriod
<1>3. DoneOK'
  BY <1>1 DEF PlanInv, DoneOK, Decided, Ends, Rises, Defers, Aim, Shows, Past, Plan!Deciding
<1> QED BY <1>2, <1>3, LeaveKeeps

LEMMA SaveFailKeeps ==
    ASSUME PlanInv, NEW f \in Requests, Plan!Save(f) \/ Plan!Fail(f), pForgotten' = pForgotten
    PROVE  PlanInv'
<1>1. pPc[f] # "idle" /\ Plan!Leave(f) /\ UNCHANGED <<pSub, pScheds, pMade, pDone>>
  BY DEF Plan!Save, Plan!Fail, Plan!stripe
<1>2. \/ pClosed' = pClosed
      \/ pClosed' = pClosed \cup {g \in Requests \ ({f} \cup pForgotten) :
                                   pDone \cap Plan!Deciding(g) # {}}
  BY DEF Plan!Save, Plan!Fail
<1>3. pClosed' \subseteq Requests /\ \A g \in pClosed' : Decided(g)
  BY <1>2 DEF PlanInv, FormShape, DoneOK, Decided
<1> QED BY <1>1, <1>3, GiveUpKeeps

\* The first call of a form that was accepted.
LEMMA CheckKeeps ==
    ASSUME PlanInv, NEW f \in Requests, Plan!Check(f), pForgotten' = pForgotten
    PROVE  PlanInv'
<1> USE DEF PlanInv
<1>1. /\ pPc[f] \in {"check", "recovered"} /\ HolderOK(f) /\ pForm[f] # Plan!NoForm
      /\ UNCHANGED <<pSub, pScheds, pMade, pDone, pClosed, pForgotten>>
  BY Holder DEF Plan!Check, Plan!stripe
<1>2. CASE Plan!Leave(f)
  <2>1. pClosed' \subseteq Requests /\ \A g \in pClosed' : Decided(g)
    BY <1>1 DEF FormShape, DoneOK
  <2> QED BY <1>1, <1>2, <2>1, GiveUpKeeps
<1>3. CASE /\ Plan!Fits(f) /\ Plan!InTime(f) /\ Plan!Goto(f, Plan!First(f))
           /\ UNCHANGED <<pNear, pLate>>
  <2> DEFINE step == Plan!First(f)
  <2>1. /\ pPc' = [pPc EXCEPT ![f] = step] /\ UNCHANGED <<pForm, pRead, pNear, pLate>>
    BY <1>3 DEF Plan!Goto
  <2>2. Agreed(f)
    <3>1. CASE pPc[f] = "recovered" BY <1>1, <3>1 DEF HolderOK
    <3>2. CASE pPc[f] = "check"
      <4>1. Plan!Owned(pRead.sched) /\ Plan!Version(pRead) = pForm[f].ver
        BY <1>3, <3>2 DEF Plan!Fits, Plan!Managed
      <4>2. Shows(f) = pRead.sub BY <4>1 DEF Shows, Plan!Version
      <4>3. pRead.sub.sched # 0 => pScheds[pRead.sub.sched].maker \in {"key", "ours"}
        BY <1>1, <3>2, <4>1, NoReadType DEF HolderOK, Unmoved, Plan!Owned
      <4> QED BY <4>2, <4>3 DEF Agreed
    <3> QED BY <1>1, <3>1, <3>2
  <2>3. Plan!Target(f) = Aim(f) /\ (Plan!Upgrade(f) <=> Aim(f) \in Pro /\ Shows(f).plan \in Plus)
    BY <2>2 DEF Plan!Target, Plan!Upgrade, Aim, Agreed
  <2>4. /\ step \in Calls
        /\ step \in {"release", "cancel"} => Ends(f)
        /\ step \in {"release-upgrade", "upgrade"} => Rises(f)
        /\ step \in {"resume", "create", "update"} => Defers(f)
        /\ step = "resume" => pRead.sub.cancel
        /\ step \in {"create", "update"} => ~pRead.sub.cancel
        /\ step \in {"release", "release-upgrade", "update"} => pRead.sub.sched # 0
        /\ step \in {"cancel", "upgrade", "create"} => pRead.sub.sched = 0
    BY <2>3 DEF Plan!First, Ends, Rises, Defers, Calls
  <2>5. step \in {"resume", "create", "update"} =>
          ~pNear /\ pRead.sub.period = pSub.period
    <3>1. ASSUME Defers(f) PROVE pForm[f].plan \in Offers
      BY <1>1, <3>1 DEF Defers, Ends, Aim, FormShape
    <3> QED BY <1>3, <2>4, <3>1 DEF Plan!InTime, Plan!Plans, Offers
  <2>6. pPc[f] = "check" /\ pRead.sub.sched # 0 => Shows(f).sched # 0
    BY <1>3 DEF Plan!Fits, Plan!Version, Shows
  <2> HIDE DEF step
  <2>7. pPc'[f] = step BY <2>1, <2>4 DEF FormShape, Moments
  <2>8. Agreed(f)' BY <1>1, <2>1, <2>2 DEF Agreed, Shows
  <2>9. Route(f)'
    BY <1>1, <2>1, <2>2, <2>4, <2>6, <2>7
    DEF Route, Agreed, HolderOK, Shows, Aim, Ends, Rises, Defers, Past, Calls
  <2>10. InPeriod(f)' BY <1>1, <2>1, <2>5, <2>7 DEF InPeriod
  <2>11. HolderOK(f)' BY <1>1, <2>1, <2>4, <2>7, <2>8, <2>9, <2>10 DEF HolderOK, Calls
  <2>12. pRead' \in [sub : Subs, sched : Schedules] BY <2>1 DEF FormShape
  <2> QED
    BY <1>1, <2>1, <2>4, <2>11, <2>12, Holder, SameStripe, GotoKeeps DEF Moments, Calls
<1> QED BY <1>2, <1>3 DEF Plan!Check, Plan!clock

\* A creation makes a schedule without a plan, or answers with the one the form made before.
LEMMA PutDoes ==
    ASSUME PlanInv, NEW f \in Requests, NEW i \in Plan!Created(f), Plan!Put(f, i), pNear' = pNear
    PROVE  /\ i \in Plan!Ids /\ StripeShape' /\ SchedsOK'
           /\ pScheds'[i].maker \in {"key", "ours"}
           /\ pSub'.plan = pSub.plan /\ pSub'.period = pSub.period
           /\ pSub'.cancel = pSub.cancel /\ pSub'.pending = pSub.pending
           /\ \A j \in Plan!Ids \ {i} : pScheds'[j] = pScheds[j]
           /\ \/ UNCHANGED <<pSub, pScheds, pMade>>
              \/ pScheds[i] = Plan!NoSched /\ pScheds'[i].plan = "none"
<1> USE DEF PlanInv
<1>1. CASE pMade[f] # 0
  <2>1. i = pMade[f] /\ UNCHANGED <<pSub, pScheds, pMade>>
    BY <1>1 DEF Plan!Created, Plan!Put
  <2>2. StripeShape' /\ SchedsOK'
    BY <2>1 DEF StripeShape, SchedsOK, Plan!ScheduledInPeriod
  <2> QED BY <1>1, <2>1, <2>2 DEF SchedsOK
<1>2. CASE pMade[f] = 0
  <2> DEFINE s == [Plan!NoSched EXCEPT !.maker = "key", !.active = TRUE]
  <2>1. /\ i \in Plan!Ids /\ pScheds[i] = Plan!NoSched /\ pSub.sched = 0
        /\ pMade' = [pMade EXCEPT ![f] = i] /\ pScheds' = [pScheds EXCEPT ![i] = s]
        /\ pSub' = [pSub EXCEPT !.sched = i]
    BY <1>2 DEF Plan!Created, Plan!Put
  <2>2. s \in Schedules /\ s.maker = "key" /\ s.active /\ s.plan = "none" /\ s # Plan!NoSched
    BY DEF Plan!NoSched, Plan!None, Schedules
  <2> HIDE DEF s
  <2>3. /\ pScheds' \in [Plan!Ids -> Schedules] /\ pScheds'[i] = s
        /\ \A j \in Plan!Ids \ {i} : pScheds'[j] = pScheds[j]
    BY <2>1, <2>2 DEF StripeShape
  <2>4. /\ pSub' \in Subs /\ pSub'.plan = pSub.plan /\ pSub'.period = pSub.period
        /\ pSub'.cancel = pSub.cancel /\ pSub'.pending = pSub.pending /\ pSub'.sched = i
    <3>1. i \in 0..MaxScheds BY <2>1, PlanBounds DEF Plan!Ids
    <3>2. pSub \in Subs BY DEF StripeShape
    <3> QED BY <2>1, <3>1, <3>2 DEF Subs
  <2>5. /\ pMade' \in [Requests -> 0..MaxScheds]
        /\ pMade'[f] = i /\ \A g \in Requests \ {f} : pMade'[g] = pMade[g]
    BY <2>1, PlanBounds DEF StripeShape, Plan!Ids
  <2>6. StripeShape' BY <2>3, <2>4, <2>5 DEF StripeShape
  <2>7. \A j \in Plan!Ids : pScheds'[j].active <=> pSub'.sched = j
    BY <2>1, <2>2, <2>3, <2>4 DEF SchedsOK, Plan!Ids
  <2>8. \A j \in Plan!Ids : pScheds'[j].maker = "none" <=> pScheds'[j] = Plan!NoSched
    BY <2>2, <2>3 DEF SchedsOK
  <2>9. \A g \in Requests : pMade'[g] # 0 =>
           pMade'[g] \in Plan!Ids /\ pScheds'[pMade'[g]].maker \in {"key", "ours"}
    BY <2>1, <2>2, <2>3, <2>5, NoReadType DEF SchedsOK
  <2>10. Plan!ScheduledInPeriod'
    BY <2>2, <2>3, <2>4 DEF SchedsOK, Plan!ScheduledInPeriod, Plan!None
  <2> QED BY <2>1, <2>2, <2>3, <2>4, <2>6, <2>7, <2>8, <2>9, <2>10 DEF SchedsOK
<1> QED BY <1>1, <1>2 DEF StripeShape

\* What is decided does not depend on the steps that change no call.
LEMMA SameDone ==
    ASSUME PlanInv, UNCHANGED <<pDone, pForm, pClosed, pForgotten>>
    PROVE  DoneOK'
BY DEF PlanInv, DoneOK, Decided, Ends, Rises, Defers, Aim, Shows, Past, Plan!Deciding

LEMMA RecoverKeeps ==
    ASSUME PlanInv, NEW f \in Requests, Plan!Recover(f), pForgotten' = pForgotten
    PROVE  PlanInv'
<1> USE DEF PlanInv
<1>1. /\ pPc[f] = "recover" /\ HolderOK(f) /\ pForm[f] # Plan!NoForm
      /\ UNCHANGED <<pDone, pClosed, pForgotten>>
  BY Holder DEF Plan!Recover
<1>2. pClosed' \subseteq Requests /\ \A g \in pClosed' : Decided(g)
  BY <1>1 DEF FormShape, DoneOK
<1>3. CASE Plan!Leave(f) /\ UNCHANGED <<pSub, pScheds, pMade>>
  BY <1>1, <1>2, <1>3, GiveUpKeeps
<1>4. ASSUME /\ Plan!Untouched(pRead.sched) /\ Plan!Version(Plan!Original(pRead)) = pForm[f].ver,
             NEW i \in Plan!Created(f), Plan!Put(f, i),
             \/ Plan!Same(f, i) /\ Plan!Goto(f, "recovered") /\ UNCHANGED <<pNear, pLate>>
             \/ Plan!Leave(f)
      PROVE  PlanInv'
  <2>1. pNear' = pNear /\ pForm' = pForm BY <1>4 DEF Plan!Leave, Plan!Goto
  <2>2. /\ i \in Plan!Ids /\ StripeShape' /\ SchedsOK' /\ pScheds'[i].maker \in {"key", "ours"}
        /\ \/ UNCHANGED <<pSub, pScheds, pMade>>
           \/ pScheds[i] = Plan!NoSched /\ pScheds'[i].plan = "none"
    BY <1>4, <2>1, PutDoes
  <2>3. DoneOK' BY <1>1, <2>1, SameDone
  <2>4. CASE Plan!Leave(f) BY <1>1, <1>2, <2>2, <2>3, <2>4, LeaveKeeps
  <2>5. CASE Plan!Same(f, i) /\ Plan!Goto(f, "recovered") /\ UNCHANGED <<pNear, pLate>>
    <3>1. /\ pPc' = [pPc EXCEPT ![f] = "recovered"] /\ UNCHANGED <<pForm, pRead, pLate>>
          /\ pRead.sub.sched = i
      BY <2>5 DEF Plan!Goto, Plan!Same
    <3>2. pPc'[f] = "recovered" BY <3>1 DEF FormShape
    <3>3. Shows(f) = [pRead.sub EXCEPT !.sched = 0]
      BY <1>4 DEF Shows, Plan!Version, Plan!Original
    <3>4. /\ Shows(f).plan = pRead.sub.plan /\ Shows(f).cancel = pRead.sub.cancel
          /\ Shows(f).period = pRead.sub.period /\ Shows(f).sched = 0
      BY <3>3 DEF FormShape, Subs
    <3>5. Agreed(f)' BY <2>2, <3>1, <3>4 DEF Agreed, Shows
    <3>6. i # 0 BY <2>2, PlanBounds DEF Plan!Ids
    <3>7. pScheds'[i].plan = "none"
      BY <1>1, <1>4, <2>2, <3>1, <3>6
      DEF HolderOK, Unmoved, Plan!Untouched, Plan!None
    <3>8. HolderOK(f)' BY <1>1, <3>1, <3>2, <3>5, <3>7 DEF HolderOK, Route, InPeriod, Calls
    <3>9. pRead' \in [sub : Subs, sched : Schedules] BY <3>1 DEF FormShape
    <3> QED BY <1>1, <2>2, <2>3, <3>1, <3>8, <3>9, Holder, GotoKeeps DEF Moments
  <2> QED BY <1>4, <2>4, <2>5
<1> QED BY <1>3, <1>4 DEF Plan!Recover, Plan!clock

LEMMA CreateSchedKeeps ==
    ASSUME PlanInv, NEW f \in Requests, Plan!Create(f), pForgotten' = pForgotten
    PROVE  PlanInv'
<1> USE DEF PlanInv
<1>1. /\ pPc[f] = "create" /\ HolderOK(f) /\ pForm[f] # Plan!NoForm
      /\ pPc' = [pPc EXCEPT ![f] = "update"]
      /\ UNCHANGED <<pDone, pNear, pLate, pForm, pClosed, pForgotten>>
  BY Holder DEF Plan!Create, Plan!clock
<1>2. PICK i \in Plan!Created(f) : Plan!Put(f, i) /\ pRead' = [pRead EXCEPT !.sub.sched = i]
  BY DEF Plan!Create
<1>3. /\ i \in Plan!Ids /\ StripeShape' /\ SchedsOK' /\ pScheds'[i].maker \in {"key", "ours"}
      /\ pSub'.period = pSub.period
  BY <1>1, <1>2, PutDoes
<1>4. /\ pRead' \in [sub : Subs, sched : Schedules]
      /\ pRead'.sub.sched = i /\ pRead'.sub.plan = pRead.sub.plan
      /\ pRead'.sub.cancel = pRead.sub.cancel /\ pRead'.sub.period = pRead.sub.period
  <2>1. pRead \in [sub : Subs, sched : Schedules] /\ pRead' = [pRead EXCEPT !.sub.sched = i]
    BY <1>2 DEF FormShape
  <2>2. i \in 0..MaxScheds BY <1>3, PlanBounds DEF Plan!Ids
  <2> QED BY <2>1, <2>2 DEF Subs
<1>5. pPc'[f] = "update" BY <1>1 DEF FormShape
<1>6. Shows(f).sched = 0 BY <1>1, <1>3 DEF HolderOK, Agreed, Route, Calls
<1>7. Agreed(f)' BY <1>1, <1>3, <1>4, <1>6 DEF HolderOK, Agreed, Shows, Calls
<1>8. Route(f)' BY <1>1, <1>5 DEF HolderOK, Route, Shows, Aim, Ends, Rises, Defers, Past
<1>9. InPeriod(f)' BY <1>1, <1>3, <1>4 DEF HolderOK, InPeriod
<1>10. HolderOK(f)' BY <1>1, <1>4, <1>5, <1>7, <1>8, <1>9 DEF HolderOK
<1>11. DoneOK' BY <1>1, SameDone
<1> QED BY <1>1, <1>3, <1>4, <1>10, <1>11, Holder, GotoKeeps DEF Moments, Calls

-----------------------------------------------------------------------------
\* A call that Stripe remembers, refuses or carries out.

\* What comes after each call.
After(f, step, next) ==
    \/ step = "release" /\ next = "cancel"
    \/ step = "release-upgrade" /\ next = "upgrade"
    \/ step \in {"cancel", "upgrade", "update"} /\ next = "save"
    \/ step = "resume" /\ next = IF pRead.sub.sched # 0 THEN "update" ELSE "create"

\* The form goes on; its call is done, now or before.
Onward(f, step, next) ==
    /\ pPc[f] = step /\ pPc' = [pPc EXCEPT ![f] = next] /\ <<f, step>> \in pDone'
    /\ pDone' = pDone \/ pDone' = pDone \cup {<<f, step>>}
    /\ UNCHANGED <<pForm, pRead, pMade, pNear, pLate, pClosed, pForgotten>>

LEMMA CallDoes ==
    ASSUME PlanInv, NEW f \in Requests, NEW step \in Calls, NEW allowed, NEW s, NEW t, NEW next,
           Plan!Call(f, step, allowed, s, t, next), pForgotten' = pForgotten
    PROVE  \/ PlanInv' /\ UNCHANGED <<pSub, pScheds>>
           \/ /\ Onward(f, step, next)
              /\ \/ UNCHANGED <<pSub, pScheds, pDone>>
                 \/ <<f, step>> \notin pDone /\ allowed /\ pSub' = s /\ pScheds' = t
<1>1. pPc[f] = step /\ pPc[f] # "idle" /\ pClosed' = pClosed BY DEF Plan!Call, Calls
<1>2. CASE Plan!Leave(f) /\ UNCHANGED <<pSub, pScheds, pMade, pDone>>
  <2>1. pClosed' \subseteq Requests /\ \A g \in pClosed' : Decided(g)
    BY <1>1 DEF PlanInv, FormShape, DoneOK
  <2> QED BY <1>1, <1>2, <2>1, GiveUpKeeps
<1>3. CASE ~(Plan!Leave(f) /\ UNCHANGED <<pSub, pScheds, pMade, pDone>>)
  BY <1>1, <1>3 DEF Plan!Call, Plan!Replayed, Plan!Goto, Plan!stripe, Plan!clock, Onward
<1> QED BY <1>2, <1>3

\* What is done stays in order.
LEMMA OnwardDone ==
    ASSUME PlanInv, NEW f \in Requests, NEW step \in Calls, NEW next, Onward(f, step, next)
    PROVE  DoneOK'
<1>1. HolderOK(f) /\ pForm[f] # Plan!NoForm /\ pPc[f] = step BY Holder DEF Onward, Calls
<1>2. Route(f) BY <1>1 DEF HolderOK
<1>3. UNCHANGED <<pForm, pClosed, pForgotten>> /\ pDone \subseteq pDone' BY DEF Onward
<1>4. \A g \in Requests :
        /\ Ends(g)' <=> Ends(g)
        /\ Rises(g)' <=> Rises(g)
        /\ Defers(g)' <=> Defers(g)
        /\ Shows(g)' = Shows(g)
  BY <1>3 DEF Ends, Rises, Defers, Aim, Shows
<1>5. \A g \in pClosed' : Decided(g)'
  BY <1>3 DEF PlanInv, DoneOK, Decided, Plan!Deciding
<1>6. ASSUME NEW g \in Requests, NEW c \in Calls, <<g, c>> \in pDone', <<g, c>> \notin pDone
      PROVE  g = f /\ c = step
  BY <1>6 DEF Onward
<1>7. ASSUME NEW g \in Requests
      PROVE  /\ <<g, "cancel">> \in pDone' =>
                  pForm'[g] # Plan!NoForm /\ Ends(g)' /\
                  (Shows(g)'.sched # 0 => Past(g, "release")')
             /\ <<g, "upgrade">> \in pDone' =>
                  /\ pForm'[g] # Plan!NoForm /\ Rises(g)'
                  /\ Shows(g)'.sched # 0 => Past(g, "release-upgrade")'
             /\ <<g, "update">> \in pDone' =>
                  pForm'[g] # Plan!NoForm /\ Defers(g)' /\
                  (Shows(g)'.cancel => Past(g, "resume")')
  <2>1. CASE <<g, "cancel">> \in pDone' /\ <<g, "cancel">> \notin pDone
    BY <1>1, <1>2, <1>3, <1>4, <1>6, <2>1 DEF Route, Calls, PlanInv, DoneOK, Past
  <2>2. CASE <<g, "upgrade">> \in pDone' /\ <<g, "upgrade">> \notin pDone
    BY <1>1, <1>2, <1>3, <1>4, <1>6, <2>2 DEF Route, Calls, PlanInv, DoneOK, Past
  <2>3. CASE <<g, "update">> \in pDone' /\ <<g, "update">> \notin pDone
    BY <1>1, <1>2, <1>3, <1>4, <1>6, <2>3 DEF Route, Calls, PlanInv, DoneOK, Past
  <2>4. CASE /\ <<g, "cancel">> \in pDone' => <<g, "cancel">> \in pDone
             /\ <<g, "upgrade">> \in pDone' => <<g, "upgrade">> \in pDone
             /\ <<g, "update">> \in pDone' => <<g, "update">> \in pDone
    BY <1>3, <1>4, <2>4 DEF PlanInv, DoneOK, Past
  <2> QED BY <2>1, <2>2, <2>3, <2>4
<1>8. \A call \in pDone' : call[1] \in Requests BY DEF Onward, PlanInv, DoneOK
<1> QED BY <1>5, <1>7, <1>8 DEF DoneOK

\* The form goes on with the next of its calls.
LEMMA OnwardKeeps ==
    ASSUME PlanInv, NEW f \in Requests, NEW step \in Calls, NEW next,
           Onward(f, step, next), After(f, step, next), StripeShape', SchedsOK',
           pSub'.period = pSub.period,
           pRead.sub.sched # 0 => pScheds'[pRead.sub.sched].maker \in {"key", "ours"}
    PROVE  PlanInv'
<1> USE DEF PlanInv
<1>1. /\ HolderOK(f) /\ pForm[f] # Plan!NoForm /\ pPc[f] = step
      /\ \A g \in Requests \ {f} : pPc[g] = "idle"
  BY Holder DEF Onward, Calls
<1>2. Agreed(f) /\ Route(f) /\ InPeriod(f) BY <1>1 DEF HolderOK
<1>3. next \in (Calls \cup {"save"}) \ {"release", "release-upgrade", "resume"}
  BY DEF After, Calls
<1>4. /\ pPc'[f] = next /\ UNCHANGED <<pForm, pRead, pMade, pNear, pLate, pClosed, pForgotten>>
      /\ <<f, step>> \in pDone' /\ pDone \subseteq pDone'
      /\ pPc' = [pPc EXCEPT ![f] = next]
  BY <1>3 DEF Onward, FormShape, Moments
<1>5. Agreed(f)' BY <1>2, <1>4 DEF Agreed, Shows
<1>6. /\ Ends(f)' <=> Ends(f)
      /\ Rises(f)' <=> Rises(f)
      /\ Defers(f)' <=> Defers(f)
      /\ Shows(f)' = Shows(f)
  BY <1>4 DEF Ends, Rises, Defers, Aim, Shows
<1>7. Route(f)' BY <1>1, <1>2, <1>3, <1>4, <1>6 DEF Route, After, Past
<1>8. InPeriod(f)' BY <1>1, <1>2, <1>3, <1>4 DEF InPeriod, After
<1>9. HolderOK(f)' BY <1>1, <1>3, <1>4, <1>5, <1>7, <1>8 DEF HolderOK, Calls
<1>10. pRead' \in [sub : Subs, sched : Schedules] BY <1>4 DEF FormShape
<1> QED BY <1>1, <1>3, <1>4, <1>9, <1>10, OnwardDone, GotoKeeps DEF Moments, Calls

\* Where a form goes on, it agreed with what its page showed.
LEMMA OnwardAgreed ==
    ASSUME PlanInv, NEW f \in Requests, NEW step \in Calls, NEW next, Onward(f, step, next)
    PROVE  /\ Agreed(f) /\ Route(f) /\ InPeriod(f) /\ pForm[f] # Plan!NoForm
           /\ pMade' = pMade /\ pNear' = pNear
           /\ pRead.sub.sched # 0 => pRead.sub.sched \in Plan!Ids
BY Holder, PlanBounds DEF PlanInv, HolderOK, Onward, Calls, FormShape, Subs, Plan!Ids

\* A schedule that is still active is the subscription's.
LEMMA ActiveIs ==
    ASSUME PlanInv, Plan!SchedOf(pRead.sub.sched).active
    PROVE  pRead.sub.sched = pSub.sched /\ pSub.sched # 0
BY NoReadType, PlanBounds DEF PlanInv, Plan!SchedOf, SchedsOK, FormShape, Subs, Plan!Ids

LEMMA ReleaseKeeps ==
    ASSUME PlanInv, NEW f \in Requests, Plan!Release(f), pForgotten' = pForgotten
    PROVE  PlanInv'
<1> USE DEF PlanInv
<1> DEFINE s == [pSub EXCEPT !.sched = 0]
           t == [pScheds EXCEPT ![pRead.sub.sched].active = FALSE]
           allowed == Plan!SchedOf(pRead.sub.sched).active
<1> HIDE DEF s, t, allowed
<1>0. PICK p \in {<<"release", "cancel">>, <<"release-upgrade", "upgrade">>} :
        Plan!Call(f, p[1], allowed, s, t, p[2])
  BY DEF Plan!Release, s, t, allowed
<1> DEFINE step == p[1]
           next == p[2]
<1>1. /\ (step = "release" /\ next = "cancel") \/ (step = "release-upgrade" /\ next = "upgrade")
      /\ Plan!Call(f, step, allowed, s, t, next)
  BY <1>0
<1> HIDE DEF step, next
<1>2. step \in Calls BY <1>1 DEF Calls
<1>3. CASE PlanInv' BY <1>3
<1>4. CASE Onward(f, step, next) /\ UNCHANGED <<pSub, pScheds, pDone>>
  <2>1. StripeShape' /\ SchedsOK'
    BY <1>2, <1>4, OnwardAgreed DEF StripeShape, SchedsOK, Plan!ScheduledInPeriod
  <2> QED BY <1>1, <1>2, <1>4, <2>1, OnwardAgreed, OnwardKeeps DEF After, Agreed
<1>5. CASE Onward(f, step, next) /\ allowed /\ pSub' = s /\ pScheds' = t
  <2>1. pRead.sub.sched = pSub.sched /\ pSub.sched # 0 BY <1>5, ActiveIs DEF allowed
  <2>2. pSub' = [pSub EXCEPT !.sched = 0] BY <1>5 DEF s
  <2>3. pScheds' = [pScheds EXCEPT ![pSub.sched].active = FALSE] BY <1>5, <2>1 DEF t
  <2>4. /\ pSub' \in Subs /\ pSub'.plan = pSub.plan /\ pSub'.period = pSub.period
        /\ pSub'.sched = 0
    BY <2>2, PlanBounds DEF StripeShape, Subs
  <2>5. pMade' = pMade /\ pNear' = pNear BY <1>2, <1>5, OnwardAgreed
  <2>6. StripeShape' BY <2>1, <2>3, <2>4, <2>5, TakenOff DEF StripeShape
  <2>7. pRead.sub.sched # 0 => pScheds'[pRead.sub.sched].maker \in {"key", "ours"}
    BY <1>2, <1>5, <2>1, <2>3, <2>4, <2>5, OnwardAgreed, TakenOff DEF Agreed
  <2> QED
    BY <1>1, <1>2, <1>5, <2>1, <2>3, <2>4, <2>5, <2>6, <2>7, TakenOff, OnwardKeeps DEF After
<1>6. \/ PlanInv'
      \/ Onward(f, step, next) /\ UNCHANGED <<pSub, pScheds, pDone>>
      \/ Onward(f, step, next) /\ allowed /\ pSub' = s /\ pScheds' = t
  <2> HIDE DEF PlanInv
  <2> QED BY <1>1, <1>2, CallDoes
<1> QED BY <1>3, <1>4, <1>5, <1>6

\* The calls that change the subscription itself.
LEMMA SubCallKeeps ==
    ASSUME PlanInv, NEW f \in Requests, NEW step \in Calls, NEW allowed, NEW s, NEW next,
           Plan!Call(f, step, allowed, s, pScheds, next), After(f, step, next),
           pForgotten' = pForgotten,
           s \in Subs, s.plan \in Offers, s.period = pSub.period, s.sched = pSub.sched
    PROVE  PlanInv'
<1> USE DEF PlanInv
<1>1. CASE Onward(f, step, next) /\ UNCHANGED pScheds /\ (pSub' = pSub \/ pSub' = s)
  <2>1. StripeShape' /\ SchedsOK' /\ pSub'.period = pSub.period
    BY <1>1, OnwardAgreed DEF StripeShape, SchedsOK, Plan!ScheduledInPeriod
  <2> QED BY <1>1, <2>1, OnwardAgreed, OnwardKeeps DEF Agreed
<1> QED BY <1>1, CallDoes

LEMMA TargetType ==
    ASSUME PlanInv, NEW f \in Requests, Agreed(f), Rises(f) \/ Defers(f), pForm[f] # Plan!NoForm
    PROVE  Plan!Target(f) \in Offers
<1>1. Plan!Target(f) = Aim(f) /\ Aim(f) = pForm[f].plan
  BY DEF Plan!Target, Aim, Agreed, Rises, Defers, Ends
<1> QED BY <1>1 DEF PlanInv, FormShape, Rises, Defers, Ends

LEMMA CancelKeeps ==
    ASSUME PlanInv, NEW f \in Requests, pForgotten' = pForgotten,
           Plan!Cancel(f) \/ Plan!Resume(f) \/ Plan!UpgradeNow(f)
    PROVE  PlanInv'
<1> USE DEF PlanInv
<1>1. CASE Plan!Cancel(f)
  <2> DEFINE c == Plan!Target(f) = "free"
             s == [pSub EXCEPT !.cancel = c]
  <2>1. c \in BOOLEAN OBVIOUS
  <2>2. Plan!Call(f, "cancel", pSub.sched = 0, s, pScheds, "save") BY <1>1 DEF Plan!Cancel
  <2> HIDE DEF c
  <2>3. s \in Subs /\ s.plan \in Offers /\ s.period = pSub.period /\ s.sched = pSub.sched
    BY <2>1 DEF StripeShape, Subs
  <2> QED BY <2>2, <2>3, SubCallKeeps DEF After, Calls
<1>2. CASE Plan!Resume(f)
  <2> DEFINE s == [pSub EXCEPT !.cancel = FALSE]
             next == IF pRead.sub.sched # 0 THEN "update" ELSE "create"
  <2>1. Plan!Call(f, "resume", pSub.sched = 0, s, pScheds, next) BY <1>2 DEF Plan!Resume
  <2>2. s \in Subs /\ s.plan \in Offers /\ s.period = pSub.period /\ s.sched = pSub.sched
    BY DEF StripeShape, Subs
  <2> QED BY <2>1, <2>2, SubCallKeeps DEF After, Calls
<1>3. CASE Plan!UpgradeNow(f)
  <2>1. PICK s \in {[pSub EXCEPT !.plan = Plan!Target(f), !.cancel = FALSE],
                    [pSub EXCEPT !.pending = Plan!Target(f)]} :
          Plan!Call(f, "upgrade", pSub.sched = 0, s, pScheds, "save")
    BY <1>3 DEF Plan!UpgradeNow
  <2>2. pPc[f] = "upgrade" BY <2>1 DEF Plan!Call
  <2>3. HolderOK(f) /\ pForm[f] # Plan!NoForm BY <2>2, Holder
  <2>4. Plan!Target(f) \in Offers
    BY <2>2, <2>3, TargetType DEF HolderOK, Route, Calls
  <2>5. s \in Subs /\ s.plan \in Offers /\ s.period = pSub.period /\ s.sched = pSub.sched
    BY <2>1, <2>4 DEF StripeShape, Subs
  <2> QED BY <2>1, <2>5, SubCallKeeps DEF After, Calls
<1> QED BY <1>1, <1>2, <1>3

\* The plan begins at the end of the period it was asked in, which is the present one.
LEMMA UpdateKeeps ==
    ASSUME PlanInv, NEW f \in Requests, Plan!Update(f), pForgotten' = pForgotten
    PROVE  PlanInv'
<1> USE DEF PlanInv
<1> DEFINE i == pRead.sub.sched
           s == [maker |-> "ours", active |-> TRUE, plan |-> Plan!Target(f),
                 start |-> pRead.sub.period + 1]
           t == [pScheds EXCEPT ![i] = s]
           allowed == Plan!SchedOf(i).active
<1>1. Plan!Call(f, "update", allowed, pSub, t, "save") BY DEF Plan!Update
<1>2. pPc[f] = "update" BY <1>1 DEF Plan!Call
<1>3. HolderOK(f) /\ pForm[f] # Plan!NoForm BY <1>2, Holder
<1>4. /\ s \in Schedules /\ s # Plan!NoSched /\ s.maker = "ours" /\ s.active
      /\ s.start = pRead.sub.period + 1
  <2>1. Plan!Target(f) \in Offers BY <1>2, <1>3, TargetType DEF HolderOK, Route, Calls
  <2>2. pRead.sub.period + 1 \in Nat BY DEF FormShape, Subs
  <2> QED BY <2>1, <2>2 DEF Schedules, Plan!NoSched, Plan!None
<1> HIDE DEF s
<1>5. CASE PlanInv' BY <1>5
<1>6. CASE Onward(f, "update", "save") /\ UNCHANGED <<pSub, pScheds, pDone>>
  <2>1. StripeShape' /\ SchedsOK'
    BY <1>6, OnwardAgreed DEF StripeShape, SchedsOK, Plan!ScheduledInPeriod, Calls
  <2> QED BY <1>6, <2>1, OnwardAgreed, OnwardKeeps DEF After, Agreed, Calls
<1>7. CASE /\ Onward(f, "update", "save") /\ allowed /\ pSub' = pSub
           /\ pScheds' = t
  <2>1. i = pSub.sched /\ i # 0 /\ i \in Plan!Ids
    BY <1>7, ActiveIs, PlanBounds DEF StripeShape, Subs, Plan!Ids
  <2>2. /\ pScheds' \in [Plan!Ids -> Schedules] /\ pScheds'[i] = s
        /\ \A j \in Plan!Ids \ {i} : pScheds'[j] = pScheds[j]
    BY <1>4, <1>7, <2>1 DEF StripeShape
  <2>3. pMade' = pMade /\ pNear' = pNear BY <1>7, OnwardAgreed DEF Calls
  <2>4. StripeShape' BY <1>7, <2>2, <2>3 DEF StripeShape
  <2>5. pRead.sub.period = pSub.period BY <1>2, <1>3 DEF HolderOK, InPeriod
  <2>6. SchedsOK'
    <3>1. \A j \in Plan!Ids : pScheds'[j].active <=> pSub'.sched = j
      BY <1>4, <1>7, <2>1, <2>2 DEF SchedsOK
    <3>2. \A j \in Plan!Ids : pScheds'[j].maker = "none" <=> pScheds'[j] = Plan!NoSched
      BY <1>4, <2>2 DEF SchedsOK
    <3>3. \A g \in Requests : pMade'[g] # 0 =>
             pMade'[g] \in Plan!Ids /\ pScheds'[pMade'[g]].maker \in {"key", "ours"}
      BY <1>4, <2>2, <2>3 DEF SchedsOK
    <3>4. s.start > pSub.period BY <1>4, <2>5 DEF StripeShape, Subs
    <3>5. Plan!ScheduledInPeriod'
      BY <1>7, <2>2, <3>4 DEF SchedsOK, Plan!ScheduledInPeriod
    <3> QED BY <3>1, <3>2, <3>3, <3>5 DEF SchedsOK
  <2> QED BY <1>4, <1>7, <2>1, <2>2, <2>4, <2>6, OnwardKeeps DEF After, Calls
<1>8. \/ PlanInv'
      \/ Onward(f, "update", "save") /\ UNCHANGED <<pSub, pScheds, pDone>>
      \/ /\ Onward(f, "update", "save") /\ allowed /\ pSub' = pSub
         /\ pScheds' = t
  <2>1. "update" \in Calls BY DEF Calls
  <2> HIDE DEF PlanInv, t, allowed
  <2> QED BY <1>1, <2>1, CallDoes
<1> QED BY <1>5, <1>6, <1>7, <1>8

LEMMA PlanStep == PlanInv /\ [Plan!Next]_pVars => PlanInv'
<1> SUFFICES ASSUME PlanInv, [Plan!Next]_pVars PROVE PlanInv' OBVIOUS
<1>1. CASE UNCHANGED pVars
  <2>1. UNCHANGED <<pSub, pScheds, pNear, pLate, pForm, pPc, pRead, pMade, pDone, pClosed,
                    pForgotten>>
    BY <1>1 DEF pVars
  <2>2. StripeShape' /\ SchedsOK' /\ DoneOK' BY <2>1, SameStripe
  <2>3. FormShape' BY <2>1 DEF PlanInv, FormShape
  <2>4. \A f \in Requests : pPc'[f] # "idle" => HolderOK(f)'
    BY <2>1
    DEF PlanInv, HolderOK, Unmoved, Agreed, Route, InPeriod, Ends, Rises, Defers, Aim, Shows,
        Past
  <2> QED BY <2>2, <2>3, <2>4 DEF PlanInv
<1>2. ASSUME NEW f \in Requests, Plan!Step(f) PROVE PlanInv'
  BY <1>2, BeginKeeps, StateKeeps, RecoverKeeps, CheckKeeps, ReleaseKeeps, CancelKeeps,
     CreateSchedKeeps, UpdateKeeps, SaveFailKeeps
  DEF Plan!Step
<1> QED BY <1>1, <1>2, FillKeeps, ClockKeeps, RenewKeeps, OperatorKeeps, ForgetKeeps DEF Plan!Next

LEMMA PlanInvariance == AllSpec => []PlanInv
<1>1. AllInit => PlanInv BY PlanInit DEF AllInit
<1>2. PlanInv /\ [AllNext]_allVars => PlanInv'
  <2>1. [AllNext]_allVars => [Plan!Next]_pVars BY DEF AllNext, allVars, pVars
  <2> QED BY <2>1, PlanStep
<1> QED BY <1>1, <1>2, PTL DEF AllSpec

\* A form that has decided only repeats calls that are done, but for taking off a schedule
\* without a plan.
LEMMA ClosedDone ==
    ASSUME PlanInv, NEW f \in pClosed, NEW step \in Calls \ {"create"}, NEW next,
           Onward(f, step, next), <<f, step>> \notin pDone
    PROVE  step \in {"release", "release-upgrade"} /\ Shows(f).sched = 0
<1>1. Agreed(f) /\ Route(f) /\ pPc[f] = step /\ f \in Requests
  BY OnwardAgreed DEF PlanInv, FormShape, Onward
<1>2. PICK c \in {"cancel", "upgrade", "update"} : <<f, c>> \in pDone
  BY DEF PlanInv, DoneOK, Decided, Plan!Deciding
<1>3. f \notin pForgotten BY DEF PlanInv, DoneOK, Decided
<1> QED BY <1>1, <1>2, <1>3 DEF PlanInv, DoneOK, Past, Route, Calls, Rises, Defers

\* What the calls do to the schedules and to what is decided.
LEMMA StepKeeps ==
    ASSUME PlanInv, NEW f \in Requests, Plan!Step(f)
    PROVE  /\ \A i \in Plan!Ids : pScheds[i].maker = "other" => pScheds'[i] = pScheds[i]
           /\ Plan!Decision' # Plan!Decision => Plan!Shown(f) /\ f \notin pClosed
<1> USE DEF PlanInv
<1> DEFINE Kept == \A i \in Plan!Ids : pScheds[i].maker = "other" => pScheds'[i] = pScheds[i]
           Stands == Plan!Decision' # Plan!Decision => Plan!Shown(f) /\ f \notin pClosed
<1>1. ASSUME UNCHANGED <<pSub, pScheds>> PROVE Kept /\ Stands
  BY <1>1 DEF Plan!Decision
<1>2. ASSUME NEW i \in Plan!Created(f), Plan!Put(f, i), pNear' = pNear PROVE Kept /\ Stands
  <2>1. /\ pSub'.plan = pSub.plan /\ pSub'.cancel = pSub.cancel /\ pSub'.pending = pSub.pending
        /\ \A j \in Plan!Ids \ {i} : pScheds'[j] = pScheds[j]
        /\ \/ UNCHANGED <<pSub, pScheds>>
           \/ pScheds[i] = Plan!NoSched /\ pScheds'[i].plan = "none"
    BY <1>2, PutDoes
  <2>2. CASE UNCHANGED <<pSub, pScheds>> BY <1>1, <2>2
  <2>3. CASE pScheds[i] = Plan!NoSched /\ pScheds'[i].plan = "none"
    <3>1. Kept BY <2>1, <2>3, NoReadType
    <3> DEFINE due == {j \in Plan!Ids : pScheds[j].active /\ pScheds[j].plan # "none"}
               then == {j \in Plan!Ids : pScheds'[j].active /\ pScheds'[j].plan # "none"}
    <3>2. then = due /\ \A j \in due : pScheds'[j] = pScheds[j]
      BY <2>1, <2>3, NoReadType
    <3>3. {pScheds'[j] : j \in then} = {pScheds[j] : j \in due} BY <3>2
    <3>4. Stands BY <2>1, <3>3 DEF Plan!Decision, Plan!None
    <3> QED BY <3>1, <3>4
  <2> QED BY <2>1, <2>2, <2>3
<1>0. pForgotten' = pForgotten BY DEF Plan!Step
<1>3. ASSUME NEW step \in Calls, NEW allowed, NEW s, NEW t, NEW next,
             Plan!Call(f, step, allowed, s, t, next)
      PROVE  \/ Kept /\ Stands
             \/ /\ Onward(f, step, next) /\ <<f, step>> \notin pDone /\ allowed
                /\ pSub' = s /\ pScheds' = t /\ Plan!Shown(f)
  <2>1. Onward(f, step, next) => Plan!Shown(f)
    BY OnwardAgreed DEF Agreed, Shows, Plan!Shown
  <2> QED BY <1>0, <1>1, <1>3, <2>1, CallDoes
<1> HIDE DEF PlanInv
<1>4. CASE Plan!Begin(f) \/ Plan!State(f) \/ Plan!Check(f) \/ Plan!Save(f) \/ Plan!Fail(f)
  BY <1>1, <1>4 DEF Plan!Begin, Plan!State, Plan!Check, Plan!Save, Plan!Fail, Plan!stripe
<1>5. CASE Plan!Recover(f)
  BY <1>1, <1>2, <1>5 DEF Plan!Recover, Plan!Leave, Plan!clock
<1>6. CASE Plan!Create(f)
  BY <1>2, <1>6 DEF Plan!Create, Plan!clock
<1>7. CASE Plan!Release(f)
  <2> DEFINE s == [pSub EXCEPT !.sched = 0]
             t == [pScheds EXCEPT ![pRead.sub.sched].active = FALSE]
             allowed == Plan!SchedOf(pRead.sub.sched).active
  <2> HIDE DEF s, t, allowed
  <2>1. PICK p \in {<<"release", "cancel">>, <<"release-upgrade", "upgrade">>} :
          Plan!Call(f, p[1], allowed, s, t, p[2])
    BY <1>7 DEF Plan!Release, s, t, allowed
  <2> DEFINE step == p[1]
             next == p[2]
  <2>2. Plan!Call(f, step, allowed, s, t, next) /\ step \in {"release", "release-upgrade"}
    BY <2>1
  <2> HIDE DEF step, next
  <2>3. step \in Calls \ {"create"} BY <2>2 DEF Calls
  <2>4. CASE /\ Onward(f, step, next) /\ <<f, step>> \notin pDone /\ allowed
             /\ pSub' = s /\ pScheds' = t /\ Plan!Shown(f)
    <3> DEFINE i == pRead.sub.sched
    <3>1. i = pSub.sched /\ i # 0 BY <2>4, ActiveIs DEF allowed
    <3>2. i \in Plan!Ids /\ Agreed(f) /\ Route(f) /\ pPc[f] = step
      BY <2>3, <2>4, <3>1, OnwardAgreed DEF Onward
    <3>3. pScheds[i].maker \in {"key", "ours"} BY <3>1, <3>2 DEF Agreed
    <3>4. /\ pSub'.plan = pSub.plan /\ pSub'.cancel = pSub.cancel /\ pSub'.pending = pSub.pending
      BY <2>4 DEF s, PlanInv, StripeShape, Subs
    <3>5. /\ ~pScheds'[i].active /\ \A j \in Plan!Ids \ {i} : pScheds'[j] = pScheds[j]
      BY <2>4, <3>2 DEF t, PlanInv, StripeShape, Schedules
    <3>6. Kept BY <3>3, <3>5
    <3>7. ASSUME f \in pClosed PROVE Plan!Decision' = Plan!Decision
      <4>1. pScheds[i].plan = "none" BY <2>2, <2>3, <2>4, <3>1, <3>2, <3>7, ClosedDone DEF Route
      <4>2. {j \in Plan!Ids : pScheds'[j].active /\ pScheds'[j].plan # "none"}
              = {j \in Plan!Ids : pScheds[j].active /\ pScheds[j].plan # "none"}
        BY <3>5, <4>1
      <4>3. {pScheds'[j] :
                j \in {k \in Plan!Ids : pScheds'[k].active /\ pScheds'[k].plan # "none"}}
              = {pScheds[j] :
                    j \in {k \in Plan!Ids : pScheds[k].active /\ pScheds[k].plan # "none"}}
        BY <3>5, <4>1, <4>2
      <4> QED BY <3>4, <4>3 DEF Plan!Decision, Plan!None
    <3> QED BY <2>4, <3>6, <3>7
  <2> QED BY <1>3, <2>2, <2>3, <2>4
<1>8. CASE Plan!Cancel(f) \/ Plan!Resume(f) \/ Plan!UpgradeNow(f)
  <2> DEFINE allowed == pSub.sched = 0
  <2>1. PICK step, s, next :
          step \in {"cancel", "resume", "upgrade"} /\ Plan!Call(f, step, allowed, s, pScheds, next)
    BY <1>8 DEF Plan!Cancel, Plan!Resume, Plan!UpgradeNow
  <2> HIDE DEF allowed
  <2>2. Plan!Call(f, step, allowed, s, pScheds, next) BY <2>1
  <2>3. /\ step \in Calls \ {"create"} /\ step \in Calls
        /\ step \notin {"release", "release-upgrade"}
    BY <2>1 DEF Calls
  <2>4. CASE /\ Onward(f, step, next) /\ <<f, step>> \notin pDone /\ pScheds' = pScheds
             /\ Plan!Shown(f)
    <3>1. f \notin pClosed BY <2>3, <2>4, ClosedDone
    <3> QED BY <2>4, <3>1
  <2> QED BY <1>3, <2>2, <2>3, <2>4
<1>9. CASE Plan!Update(f)
  <2> DEFINE i == pRead.sub.sched
             s == [maker |-> "ours", active |-> TRUE, plan |-> Plan!Target(f),
                   start |-> pRead.sub.period + 1]
             t == [pScheds EXCEPT ![i] = s]
             allowed == Plan!SchedOf(i).active
  <2> HIDE DEF s, t, allowed
  <2>1. Plan!Call(f, "update", allowed, pSub, t, "save") BY <1>9 DEF Plan!Update, s, t, allowed
  <2>2. "update" \in Calls \ {"create"} BY DEF Calls
  <2>3. CASE /\ Onward(f, "update", "save") /\ <<f, "update">> \notin pDone /\ allowed
             /\ pScheds' = t /\ Plan!Shown(f)
    <3>1. f \notin pClosed BY <2>2, <2>3, ClosedDone
    <3>2. i \in Plan!Ids /\ Agreed(f) /\ i # 0 BY <2>2, <2>3, OnwardAgreed, ActiveIs DEF allowed
    <3>3. pScheds[i].maker \in {"key", "ours"} BY <3>2 DEF Agreed
    <3>4. \A j \in Plan!Ids \ {i} : pScheds'[j] = pScheds[j]
      BY <2>3, <3>2 DEF t, PlanInv, StripeShape
    <3> QED BY <2>3, <3>1, <3>3, <3>4
  <2> QED BY <1>3, <2>1, <2>2, <2>3
<1> QED BY <1>4, <1>5, <1>6, <1>7, <1>8, <1>9 DEF Plan!Step

\* A schedule that an operator made is kept, and what is scheduled is in time.
THEOREM SchedulesKeptHolds == AllSpec => SchedulesKept
<1> DEFINE Kept == \A i \in Plan!Ids : pScheds[i].maker = "other" /\ pScheds'[i] # pScheds[i] =>
                     ~ \E f \in Requests : Plan!Step(f)
<1>1. PlanInv /\ [AllNext]_allVars => [Kept]_pVars
  <2> SUFFICES ASSUME PlanInv, NEW f \in Requests, Plan!Step(f)
               PROVE  \A i \in Plan!Ids : pScheds[i].maker = "other" => pScheds'[i] = pScheds[i]
    OBVIOUS
  <2> QED BY StepKeeps
<1>2. PlanInv => Plan!ScheduledInPeriod BY DEF PlanInv, SchedsOK
<1>3. AllSpec => [][Kept]_pVars BY <1>1, PlanInvariance, PTL DEF AllSpec
<1>4. AllSpec => []Plan!ScheduledInPeriod BY <1>2, PlanInvariance, PTL
<1>5. AllSpec => Plan!ForeignScheduleKept BY <1>3 DEF Plan!ForeignScheduleKept, pVars, Plan!vars
<1> QED BY <1>4, <1>5 DEF SchedulesKept, Plan!SchedulesKept

\* No form decides anything but of a subscription that its page showed as it was read, and one
\* that is sent again after a later one was answered decides nothing, while Stripe remembers
\* its calls.
THEOREM LaterDecisionStandsHolds == AllSpec => LaterDecisionStands
<1> DEFINE Stands == Plan!Decision' # Plan!Decision =>
                       \A f \in Requests : Plan!Step(f) => Plan!Shown(f) /\ f \notin pClosed
<1>1. PlanInv /\ [AllNext]_allVars => [Stands]_pVars
  <2> SUFFICES ASSUME PlanInv, NEW f \in Requests, Plan!Step(f)
               PROVE  Plan!Decision' # Plan!Decision => Plan!Shown(f) /\ f \notin pClosed
    OBVIOUS
  <2> QED BY StepKeeps
<1>2. AllSpec => [][Stands]_pVars BY <1>1, PlanInvariance, PTL DEF AllSpec
<1> QED BY <1>2 DEF LaterDecisionStands, Plan!LaterDecisionStands, pVars, Plan!vars

-----------------------------------------------------------------------------
\* The types of all the parts follow from their invariants.
THEOREM AllTypeCorrect == AllSpec => []AllTypeOK
<1>1. CustomerInv => TypeOK
  <2> SUFFICES ASSUME CustomerInv PROVE TypeOK OBVIOUS
  <2>1. row \in [key : 0..1, age : 0..Prune + 1, bound : 0..made]
    BY AgesAssumption DEF CustomerInv, CustomerShape
  <2>2. stripe \in [customer : 0..made, age : 0..Prune]
    BY AgesAssumption DEF CustomerInv, CustomerShape
  <2> QED BY <2>1, <2>2 DEF CustomerInv, CustomerShape, TypeOK
<1>2. PurchaseInv => Purchase!TypeOK
  <2> SUFFICES ASSUME PurchaseInv PROVE Purchase!TypeOK OBVIOUS
  <2> USE DEF PurchaseInv
  <2>1. kRow.key \in 0..kKeys BY DEF PurchaseShape
  <2>2. \A r \in Requests : kPc[r] \in {"list", "create"} => kJob[r].row.key \in 1..kKeys
    BY DEF OldExpired, Holds
  <2> QED BY <2>1, <2>2 DEF PurchaseShape, Steps, Purchase!TypeOK
<1>3. PlanInv => Plan!TypeOK
  <2> SUFFICES ASSUME PlanInv PROVE Plan!TypeOK OBVIOUS
  <2> USE PlansAssumption DEF PlanInv
  <2>1. /\ pSub.plan \in Plan!Plans /\ pSub.sched \in {0} \cup Plan!Ids
        /\ pSub.period \in 0..MaxPeriod
    BY DEF StripeShape, Subs, Offers, Plan!Plans, Plan!Ids
  <2>2. \A i \in Plan!Ids : pScheds[i].plan \in Plan!Plans \cup {"none"}
    BY DEF StripeShape, Schedules, Offers, Plan!Plans
  <2>3. \A i \in Plan!Ids : pScheds[i].active <=> pSub.sched = i BY DEF SchedsOK
  <2>4. \A f \in Requests : pForm[f].plan \in Plan!Plans \cup {"free", "keep", "none"}
    BY DEF FormShape, Offers, Plan!Plans
  <2> QED BY <2>1, <2>2, <2>3, <2>4 DEF FormShape, Plan!TypeOK, Plan!None
<1>4. WebhookInv => Webhook!TypeOK
  <2> SUFFICES ASSUME WebhookInv PROVE Webhook!TypeOK OBVIOUS
  <2>1. Webhook!Now \in Nat BY DEF WebhookInv, WebhookShape, Webhook!Now
  <2>2. \A w \in Requests : sJob[w].event \in 0..Webhook!Now /\ sJob[w].seen \in 0..Webhook!Now
    BY <2>1 DEF WebhookInv, WebhookShape, Tasks
  <2> QED BY <2>2 DEF WebhookInv, WebhookShape, Stages, Webhook!TypeOK
<1> QED
  BY <1>1, <1>2, <1>3, <1>4, CustomerInvariance, PurchaseInvariance, PlanInvariance,
     WebhookInvariance, PTL
  DEF AllTypeOK
=============================================================================
