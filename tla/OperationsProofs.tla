-------------------------- MODULE OperationsProofs --------------------------
(***************************************************************************)
(* Proofs about the modules of Services that stand for what runs around    *)
(* the API: the attempts of a mail task, the shared checks of an           *)
(* integration, the processes' start and end, the verification of a        *)
(* checkout, the deployment of a host and the refresh of the snapshots;    *)
(* and, from the invariants of all parts, the types of all variables.      *)
(***************************************************************************)
EXTENDS ServicesProofs, SequenceTheorems, TLAPS

-----------------------------------------------------------------------------
\* MailTask: the attempts at SMTP.

\* Attempts that a message has left.
Left(m) == IF m.archiving THEN 0 ELSE MaxRetries + 1 - m.attempt

\* One element for each attempt of each copy in the queue, and for each that a worker may make.
Queued ==
    {t \in Mails!Message \X Nat \X Nat : t[2] \in 1..mQueue[t[1]] /\ t[3] \in 1..Left(t[1])}
Trying ==
    {t \in Workers \X Mails!Message \X Nat :
        mPc[t[1]] = "smtp" /\ t[2] \in mHeld[t[1]] /\ t[3] \in 1..Left(t[2])}

MailSteps == {"idle", "smtp", "archive", "ack"}

MailShape ==
    /\ mQueue \in [Mails!Message -> Nat]
    /\ mHeld \in [Workers -> SUBSET Mails!Message] /\ mPc \in [Workers -> MailSteps]
    /\ mTries \in Nat /\ mFaults \in 0..MaxFaults
    /\ mFresh \in BOOLEAN /\ mValid \in BOOLEAN /\ mSent \in BOOLEAN /\ mArchived \in BOOLEAN

\* A worker that is not idle has one message, which is not sent when it is only to be archived.
HeldOne ==
    \A w \in Workers :
        /\ mPc[w] = "idle" => mHeld[w] = {}
        /\ mPc[w] # "idle" => \E m \in Mails!Message : mHeld[w] = {m}
        /\ \A m \in mHeld[w] : mPc[w] = "smtp" => ~m.archiving

\* What was tried and what is left to try fits the rounds that were granted.
Accounted ==
    /\ IsFiniteSet(Queued) /\ IsFiniteSet(Trying)
    /\ mTries + Cardinality(Queued) + Cardinality(Trying) <= (MaxRetries + 1) * (mFaults + 1)

MailInv == MailShape /\ HeldOne /\ Accounted

\* The attempts of one copy.
Fan(x, y, n) == {<<x, y, k>> : k \in 1..n}

LEMMA FanSize ==
    ASSUME NEW x, NEW y, NEW n \in Nat
    PROVE  IsFiniteSet(Fan(x, y, n)) /\ Cardinality(Fan(x, y, n)) = n
<1> DEFINE f == [k \in 1..n |-> <<x, y, k>>]
<1>1. f \in Bijection(1..n, Fan(x, y, n))
  <2>1. f \in [1..n -> Fan(x, y, n)] BY DEF Fan
  <2>2. \A j, k \in 1..n : f[j] = f[k] => j = k OBVIOUS
  <2>3. \A t \in Fan(x, y, n) : \E k \in 1..n : f[k] = t BY DEF Fan
  <2> QED BY <2>1, <2>2, <2>3 DEF Bijection, Injection, Surjection, IsInjective
<1>2. ExistsBijection(1..n, Fan(x, y, n)) BY <1>1 DEF ExistsBijection
<1> QED BY <1>2, FS_CountingElements, FS_NatBijection

\* Adding the elements of a set, and taking them away.
LEMMA Counted ==
    ASSUME NEW S, NEW T, IsFiniteSet(S), IsFiniteSet(T)
    PROVE  /\ IsFiniteSet(S \cup T) /\ IsFiniteSet(S \ T)
           /\ S \cap T = {} => Cardinality(S \cup T) = Cardinality(S) + Cardinality(T)
           /\ T \subseteq S => Cardinality(S \ T) = Cardinality(S) - Cardinality(T)
<1>1. S \cap T = {} => Cardinality(S \cap T) = 0 BY FS_EmptySet
<1>2. T \subseteq S => S \cap T = T OBVIOUS
<1>3. Cardinality(S) \in Nat /\ Cardinality(T) \in Nat BY FS_CardinalityType
<1>4. /\ IsFiniteSet(S \cup T)
      /\ Cardinality(S \cup T) = Cardinality(S) + Cardinality(T) - Cardinality(S \cap T)
  BY FS_Union
<1>5. IsFiniteSet(S \ T) /\ Cardinality(S \ T) = Cardinality(S) - Cardinality(S \cap T)
  BY FS_Difference
<1>6. T \subseteq S => Cardinality(S \cap T) = Cardinality(T) BY <1>2
<1> QED BY <1>1, <1>3, <1>4, <1>5, <1>6

LEMMA LeftOver == \A m \in Mails!Message : Left(m) \in 0..(MaxRetries + 1)
BY MailsAssumption DEF Left, Mails!Message

\* A copy more in the queue, or one less.
LEMMA QueueGrows ==
    ASSUME MailShape, IsFiniteSet(Queued), NEW m \in Mails!Message,
           mQueue' = [mQueue EXCEPT ![m] = @ + 1]
    PROVE  /\ mQueue' \in [Mails!Message -> Nat] /\ IsFiniteSet(Queued')
           /\ Cardinality(Queued') = Cardinality(Queued) + Left(m)
<1> DEFINE F == Fan(m, mQueue[m] + 1, Left(m))
<1>1. mQueue[m] \in Nat /\ Left(m) \in Nat BY LeftOver DEF MailShape
<1>2. IsFiniteSet(F) /\ Cardinality(F) = Left(m) BY <1>1, FanSize
<1>3. /\ mQueue' \in [Mails!Message -> Nat] /\ mQueue'[m] = mQueue[m] + 1
      /\ \A n \in Mails!Message \ {m} : mQueue'[n] = mQueue[n]
  BY <1>1 DEF MailShape
<1>4. Queued' = Queued \cup F
  <2>1. ASSUME NEW t \in Mails!Message \X Nat \X Nat
        PROVE  t \in Queued' <=> t \in Queued \/ t \in F
    <3>1. PICK a \in Mails!Message, i \in Nat, k \in Nat : t = <<a, i, k>> OBVIOUS
    <3>2. t \in F <=> a = m /\ i = mQueue[m] + 1 /\ k \in 1..Left(m) BY <3>1 DEF Fan
    <3>3. t \in Queued <=> i \in 1..mQueue[a] /\ k \in 1..Left(a) BY <3>1 DEF Queued
    <3>4. t \in Queued' <=> i \in 1..mQueue'[a] /\ k \in 1..Left(a) BY <3>1 DEF Queued, Left
    <3>5. mQueue[a] \in Nat BY DEF MailShape
    <3> HIDE DEF F
    <3>6. CASE a = m BY <1>1, <1>3, <3>2, <3>3, <3>4, <3>6
    <3>7. CASE a # m BY <1>3, <3>2, <3>3, <3>4, <3>7
    <3> QED BY <3>6, <3>7
  <2>2. F \subseteq Mails!Message \X Nat \X Nat BY <1>1 DEF Fan
  <2>3. Queued \subseteq Mails!Message \X Nat \X Nat /\ Queued' \subseteq Mails!Message \X Nat \X Nat
    BY DEF Queued
  <2> HIDE DEF F
  <2> QED BY <2>1, <2>2, <2>3
<1>5. Queued \cap F = {}
  <2>1. \A k \in 1..Left(m) : <<m, mQueue[m] + 1, k>> \notin Queued BY <1>1 DEF Queued
  <2> QED BY <2>1 DEF Fan
<1> HIDE DEF F
<1> QED BY <1>2, <1>3, <1>4, <1>5, Counted

LEMMA QueueShrinks ==
    ASSUME MailShape, IsFiniteSet(Queued), NEW m \in Mails!Message, mQueue[m] > 0,
           mQueue' = [mQueue EXCEPT ![m] = @ - 1]
    PROVE  /\ mQueue' \in [Mails!Message -> Nat] /\ IsFiniteSet(Queued')
           /\ Cardinality(Queued') = Cardinality(Queued) - Left(m)
<1> DEFINE F == Fan(m, mQueue[m], Left(m))
<1>1. mQueue[m] \in Nat \ {0} /\ Left(m) \in Nat BY LeftOver DEF MailShape
<1>2. IsFiniteSet(F) /\ Cardinality(F) = Left(m) BY <1>1, FanSize
<1>3. /\ mQueue' \in [Mails!Message -> Nat] /\ mQueue'[m] = mQueue[m] - 1
      /\ \A n \in Mails!Message \ {m} : mQueue'[n] = mQueue[n]
  BY <1>1 DEF MailShape
<1>4. Queued' = Queued \ F
  <2>1. ASSUME NEW t \in Mails!Message \X Nat \X Nat
        PROVE  t \in Queued' <=> t \in Queued /\ t \notin F
    <3>1. PICK a \in Mails!Message, i \in Nat, k \in Nat : t = <<a, i, k>> OBVIOUS
    <3>2. t \in F <=> a = m /\ i = mQueue[m] /\ k \in 1..Left(m) BY <3>1 DEF Fan
    <3>3. t \in Queued <=> i \in 1..mQueue[a] /\ k \in 1..Left(a) BY <3>1 DEF Queued
    <3>4. t \in Queued' <=> i \in 1..mQueue'[a] /\ k \in 1..Left(a) BY <3>1 DEF Queued, Left
    <3>5. mQueue[a] \in Nat BY DEF MailShape
    <3> HIDE DEF F
    <3>6. CASE a = m BY <1>1, <1>3, <3>2, <3>3, <3>4, <3>6
    <3>7. CASE a # m BY <1>3, <3>2, <3>3, <3>4, <3>7
    <3> QED BY <3>6, <3>7
  <2>2. Queued \subseteq Mails!Message \X Nat \X Nat /\ Queued' \subseteq Mails!Message \X Nat \X Nat
    BY DEF Queued
  <2> HIDE DEF F
  <2> QED BY <2>1, <2>2
<1>5. F \subseteq Queued
  <2>1. \A k \in 1..Left(m) : <<m, mQueue[m], k>> \in Queued BY <1>1 DEF Queued
  <2> QED BY <2>1 DEF Fan
<1> HIDE DEF F
<1> QED BY <1>2, <1>3, <1>4, <1>5, Counted

\* A worker at its next step.
LEMMA MailGoto ==
    ASSUME MailShape, NEW w \in Workers, NEW step \in MailSteps,
           NEW ms \in SUBSET Mails!Message, Mails!Goto(w, step, ms)
    PROVE  /\ mPc' \in [Workers -> MailSteps] /\ mHeld' \in [Workers -> SUBSET Mails!Message]
           /\ mPc'[w] = step /\ mHeld'[w] = ms
           /\ \A v \in Workers \ {w} : mPc'[v] = mPc[v] /\ mHeld'[v] = mHeld[v]
BY DEF MailShape, Mails!Goto

\* The attempts of its message are all that changes in what the workers try.
LEMMA TryingMoves ==
    ASSUME MailShape, HeldOne, IsFiniteSet(Trying), NEW w \in Workers, NEW m \in Mails!Message,
           mHeld[w] = {m} \/ mPc[w] = "idle",
           NEW step \in MailSteps, NEW ms \in SUBSET Mails!Message, Mails!Goto(w, step, ms),
           step = "smtp" => ms = {m}
    PROVE  /\ IsFiniteSet(Trying')
           /\ mPc[w] = "smtp" /\ step # "smtp" =>
                Cardinality(Trying') = Cardinality(Trying) - Left(m)
           /\ mPc[w] # "smtp" /\ step = "smtp" =>
                Cardinality(Trying') = Cardinality(Trying) + Left(m)
           /\ mPc[w] # "smtp" /\ step # "smtp" => Cardinality(Trying') = Cardinality(Trying)
<1> DEFINE F == Fan(w, m, Left(m))
           All == Workers \X Mails!Message \X Nat
<1>1. Left(m) \in Nat BY LeftOver
<1>2. IsFiniteSet(F) /\ Cardinality(F) = Left(m) BY <1>1, FanSize
<1>3. /\ mPc'[w] = step /\ mHeld'[w] = ms
      /\ \A v \in Workers \ {w} : mPc'[v] = mPc[v] /\ mHeld'[v] = mHeld[v]
  BY MailGoto
<1>4. F \subseteq All /\ Trying \subseteq All /\ Trying' \subseteq All BY <1>1 DEF Fan, Trying
<1>5. ASSUME NEW t \in All
      PROVE  /\ mPc[w] = "smtp" /\ t \in F => t \in Trying
             /\ mPc[w] # "smtp" /\ t \in F => t \notin Trying
             /\ step = "smtp" /\ t \in F => t \in Trying'
             /\ step # "smtp" /\ t \in F => t \notin Trying'
             /\ t \notin F => (t \in Trying' <=> t \in Trying)
  <2>1. PICK v \in Workers, n \in Mails!Message, k \in Nat : t = <<v, n, k>> OBVIOUS
  <2>2. t \in F <=> v = w /\ n = m /\ k \in 1..Left(m) BY <2>1 DEF Fan
  <2>3. t \in Trying <=> mPc[v] = "smtp" /\ n \in mHeld[v] /\ k \in 1..Left(n)
    BY <2>1 DEF Trying
  <2>4. t \in Trying' <=> mPc'[v] = "smtp" /\ n \in mHeld'[v] /\ k \in 1..Left(n)
    BY <2>1 DEF Trying, Left
  <2> HIDE DEF F, All
  <2>5. CASE v = w BY <1>3, <2>2, <2>3, <2>4, <2>5
  <2>6. CASE v # w BY <1>3, <2>2, <2>3, <2>4, <2>6
  <2> QED BY <2>5, <2>6
<1> HIDE DEF F, All
<1>6. CASE mPc[w] = "smtp" /\ step # "smtp"
  <2>1. Trying' = Trying \ F /\ F \subseteq Trying BY <1>4, <1>5, <1>6
  <2> QED BY <1>2, <1>6, <2>1, Counted
<1>7. CASE mPc[w] # "smtp" /\ step = "smtp"
  <2>1. Trying' = Trying \cup F /\ Trying \cap F = {} BY <1>4, <1>5, <1>7
  <2> QED BY <1>2, <1>7, <2>1, Counted
<1>8. CASE mPc[w] # "smtp" /\ step # "smtp"
  <2>1. Trying' = Trying BY <1>4, <1>5, <1>8
  <2> QED BY <1>8, <2>1
<1>9. CASE mPc[w] = "smtp" /\ step = "smtp"
  <2>1. Trying' = Trying BY <1>4, <1>5, <1>9
  <2> QED BY <1>9, <2>1
<1> QED BY <1>6, <1>7, <1>8, <1>9

\* What a step changes is paid for: by the attempts of the message, or by another round.
LEMMA Paid ==
    ASSUME MailInv, MailShape', HeldOne', IsFiniteSet(Queued'), IsFiniteSet(Trying'),
           \/ /\ mFaults' = mFaults
              /\ mTries' + Cardinality(Queued') + Cardinality(Trying')
                    <= mTries + Cardinality(Queued) + Cardinality(Trying)
           \/ /\ mFaults' = mFaults + 1
              /\ mTries' + Cardinality(Queued') + Cardinality(Trying')
                    <= mTries + Cardinality(Queued) + Cardinality(Trying) + MaxRetries + 1
    PROVE  MailInv'
<1> DEFINE before == mTries + Cardinality(Queued) + Cardinality(Trying)
           after == mTries' + Cardinality(Queued') + Cardinality(Trying')
           rounds == (MaxRetries + 1) * (mFaults + 1)
<1>1. before \in Nat /\ after \in Nat /\ before <= rounds /\ mFaults \in Nat
  BY FS_CardinalityType, MailsAssumption DEF MailInv, MailShape, Accounted
<1>2. (MaxRetries + 1) * ((mFaults + 1) + 1) = rounds + (MaxRetries + 1) /\ rounds \in Nat
  BY <1>1, MailsAssumption
<1>3. CASE mFaults' = mFaults /\ after <= before
  <2>1. after <= rounds BY <1>1, <1>2, <1>3
  <2> QED BY <1>3, <2>1 DEF MailInv, Accounted
<1>4. CASE mFaults' = mFaults + 1 /\ after <= before + MaxRetries + 1
  <2>1. after <= (MaxRetries + 1) * (mFaults' + 1) BY <1>1, <1>2, <1>4, MailsAssumption
  <2> QED BY <2>1 DEF MailInv, Accounted
<1> QED BY <1>3, <1>4

\* A step that leaves the queue alone, and one that leaves the workers alone.
LEMMA QueueStays == UNCHANGED mQueue => Queued' = Queued
BY DEF Queued, Left

LEMMA WorkersStay == UNCHANGED <<mPc, mHeld>> => Trying' = Trying
BY DEF Trying, Left

\* The message in hand goes back to the queue.
LEMMA Returned ==
    ASSUME MailShape, NEW m \in Mails!Message, mQueue' = Mails!Unacked({m})
    PROVE  mQueue' = [mQueue EXCEPT ![m] = @ + 1]
<1>1. mQueue' = [n \in Mails!Message |-> mQueue[n] + (IF n \in {m} THEN 1 ELSE 0)]
  BY DEF Mails!Unacked
<1>2. \A n \in Mails!Message : mQueue'[n] = IF n = m THEN mQueue[n] + 1 ELSE mQueue[n]
  BY <1>1 DEF MailShape
<1> QED BY <1>1, <1>2 DEF MailShape

LEMMA Answers == \A x \in BOOLEAN : \A y \in {x, TRUE} : y \in BOOLEAN OBVIOUS

\* A worker at work.
LEMMA WorkStep ==
    ASSUME MailInv, NEW w \in Workers, Mails!Work(w)
    PROVE  MailInv'
<1> USE DEF MailInv, Accounted
<1>0. /\ Cardinality(Queued) \in Nat /\ Cardinality(Trying) \in Nat /\ mTries \in Nat
      /\ MaxRetries \in Nat /\ mPc[w] \in MailSteps
  BY FS_CardinalityType, MailsAssumption DEF MailShape
<1>1. ASSUME NEW step \in MailSteps, NEW ms \in SUBSET Mails!Message, Mails!Goto(w, step, ms),
             IF step = "idle" THEN ms = {} ELSE \E m \in Mails!Message : ms = {m},
             \A m \in ms : step = "smtp" => ~m.archiving,
             mQueue' \in [Mails!Message -> Nat], mTries' \in Nat,
             mFresh' \in BOOLEAN, mValid' \in BOOLEAN, mSent' \in BOOLEAN, mArchived' \in BOOLEAN,
             mFaults' = mFaults
      PROVE  MailShape' /\ HeldOne'
  <2>1. /\ mPc' \in [Workers -> MailSteps] /\ mHeld' \in [Workers -> SUBSET Mails!Message]
        /\ mPc'[w] = step /\ mHeld'[w] = ms
        /\ \A v \in Workers \ {w} : mPc'[v] = mPc[v] /\ mHeld'[v] = mHeld[v]
    BY <1>1, MailGoto
  <2>2. MailShape' BY <1>1, <2>1 DEF MailShape
  <2> QED BY <1>1, <2>1, <2>2 DEF HeldOne
<1>2. CASE Mails!Take(w)
  <2>1. PICK m \in Mails!Message :
          /\ mPc[w] = "idle" /\ mQueue[m] > 0 /\ mQueue' = [mQueue EXCEPT ![m] = @ - 1]
          /\ Mails!Goto(w, IF m.archiving \/ ~mValid \/ ~mFresh THEN "archive" ELSE "smtp", {m})
          /\ UNCHANGED <<mFresh, mValid, mTries, mSent, mArchived, mFaults>>
    BY <1>2 DEF Mails!Take
  <2>2. PICK step \in {"archive", "smtp"} :
          Mails!Goto(w, step, {m}) /\ (step = "smtp" => ~m.archiving)
    <3>1. CASE m.archiving \/ ~mValid \/ ~mFresh BY <2>1, <3>1
    <3>2. CASE ~(m.archiving \/ ~mValid \/ ~mFresh) BY <2>1, <3>2
    <3> QED BY <3>1, <3>2
  <2>3. /\ mQueue' \in [Mails!Message -> Nat] /\ IsFiniteSet(Queued')
        /\ Cardinality(Queued') = Cardinality(Queued) - Left(m)
    BY <2>1, QueueShrinks
  <2>4. MailShape' /\ HeldOne' BY <1>1, <2>1, <2>2, <2>3 DEF MailSteps, MailShape
  <2>5. /\ IsFiniteSet(Trying')
        /\ step = "smtp" => Cardinality(Trying') = Cardinality(Trying) + Left(m)
        /\ step # "smtp" => Cardinality(Trying') = Cardinality(Trying)
    BY <2>1, <2>2, TryingMoves DEF MailSteps
  <2>6. Left(m) \in Nat BY LeftOver
  <2>7. mTries' + Cardinality(Queued') + Cardinality(Trying')
            <= mTries + Cardinality(Queued) + Cardinality(Trying)
    BY <1>0, <2>1, <2>3, <2>5, <2>6
  <2> HIDE DEF MailInv, Accounted
  <2> QED BY <2>1, <2>3, <2>4, <2>5, <2>7, Paid
<1>3. CASE mPc[w] # "idle"
  <2>1. PICK m \in Mails!Message : mHeld[w] = {m} BY <1>3 DEF HeldOne
  <2>2. Left(m) \in Nat /\ (mPc[w] = "smtp" => Left(m) >= 1)
    BY <1>0, <2>1, LeftOver DEF HeldOne, Left, Mails!Message
  <2>3. CASE Mails!Send(w)
    <3>1. /\ mPc[w] = "smtp" /\ mTries' = mTries + 1 /\ mSent' = TRUE /\ Mails!Goto(w, "ack", {m})
          /\ UNCHANGED <<mQueue, mFresh, mValid, mArchived, mFaults>>
      BY <2>1, <2>3 DEF Mails!Send
    <3>2. MailShape' /\ HeldOne' BY <1>0, <1>1, <3>1 DEF MailSteps, MailShape
    <3>3. IsFiniteSet(Trying') /\ Cardinality(Trying') = Cardinality(Trying) - Left(m)
      BY <2>1, <3>1, TryingMoves DEF MailSteps
    <3>4. Queued' = Queued BY <3>1, QueueStays
    <3>5. mTries' + Cardinality(Queued') + Cardinality(Trying')
            <= mTries + Cardinality(Queued) + Cardinality(Trying)
      BY <1>0, <2>2, <3>1, <3>3, <3>4
    <3> HIDE DEF MailInv, Accounted
    <3> QED BY <3>1, <3>2, <3>3, <3>4, <3>5, Paid DEF MailInv, Accounted
  <2>4. CASE Mails!SendFails(w)
    <3>1. /\ mPc[w] = "smtp" /\ mTries' = mTries + 1 /\ mSent' \in BOOLEAN
          /\ IF m.attempt < MaxRetries
             THEN Mails!Republish(w, Mails!Next_(m))
             ELSE Mails!Goto(w, "archive", {m}) /\ UNCHANGED mQueue
          /\ UNCHANGED <<mFresh, mValid, mArchived, mFaults>>
      BY <2>1, <2>4, Answers DEF Mails!SendFails, MailShape
    <3>2. CASE m.attempt < MaxRetries
      <4> DEFINE n == Mails!Next_(m)
      <4>1. n \in Mails!Message /\ Left(n) = Left(m) - 1
        <5>1. ~m.archiving BY <2>1, <3>1 DEF HeldOne
        <5> QED BY <1>0, <3>2, <5>1 DEF Mails!Next_, Mails!Message, Left
      <4>2. mQueue' = [mQueue EXCEPT ![n] = @ + 1] /\ Mails!Goto(w, "ack", {m})
        BY <2>1, <3>1, <3>2 DEF Mails!Republish
      <4> HIDE DEF n
      <4>3. /\ mQueue' \in [Mails!Message -> Nat] /\ IsFiniteSet(Queued')
            /\ Cardinality(Queued') = Cardinality(Queued) + Left(n)
        BY <4>1, <4>2, QueueGrows
      <4>4. MailShape' /\ HeldOne' BY <1>0, <1>1, <3>1, <4>2, <4>3 DEF MailSteps, MailShape
      <4>5. IsFiniteSet(Trying') /\ Cardinality(Trying') = Cardinality(Trying) - Left(m)
        BY <2>1, <3>1, <4>2, TryingMoves DEF MailSteps
      <4>6. mTries' + Cardinality(Queued') + Cardinality(Trying')
                <= mTries + Cardinality(Queued) + Cardinality(Trying)
        BY <1>0, <2>2, <3>1, <4>1, <4>3, <4>5
      <4> HIDE DEF MailInv, Accounted
      <4> QED BY <3>1, <4>3, <4>4, <4>5, <4>6, Paid
    <3>3. CASE ~(m.attempt < MaxRetries)
      <4>1. Mails!Goto(w, "archive", {m}) /\ UNCHANGED mQueue BY <3>1, <3>3
      <4>2. MailShape' /\ HeldOne' BY <1>0, <1>1, <3>1, <4>1 DEF MailSteps, MailShape
      <4>3. IsFiniteSet(Trying') /\ Cardinality(Trying') = Cardinality(Trying) - Left(m)
        BY <2>1, <3>1, <4>1, TryingMoves DEF MailSteps
      <4>4. Queued' = Queued BY <4>1, QueueStays
      <4>5. mTries' + Cardinality(Queued') + Cardinality(Trying')
              <= mTries + Cardinality(Queued) + Cardinality(Trying)
        BY <1>0, <2>2, <3>1, <4>3, <4>4
      <4> HIDE DEF MailInv, Accounted
      <4> QED BY <3>1, <4>2, <4>3, <4>4, <4>5, Paid DEF MailInv, Accounted
    <3> QED BY <3>2, <3>3
  <2>5. ASSUME mPc[w] # "smtp", NEW step \in {"ack", "idle"},
               Mails!Goto(w, step, IF step = "ack" THEN {m} ELSE {}), UNCHANGED mQueue,
               UNCHANGED <<mTries, mFaults>>,
               mFresh' \in BOOLEAN, mValid' \in BOOLEAN, mSent' \in BOOLEAN, mArchived' \in BOOLEAN
        PROVE  MailInv'
    <3> DEFINE ms == IF step = "ack" THEN {m} ELSE {}
    <3>1. /\ ms \in SUBSET Mails!Message /\ (\A n \in ms : step = "smtp" => ~n.archiving)
          /\ IF step = "idle" THEN ms = {} ELSE \E n \in Mails!Message : ms = {n}
      OBVIOUS
    <3>2. Mails!Goto(w, step, ms) BY <2>5
    <3> HIDE DEF ms
    <3>3. MailShape' /\ HeldOne' BY <1>0, <1>1, <2>5, <3>1, <3>2 DEF MailSteps, MailShape
    <3>4. IsFiniteSet(Trying') /\ Cardinality(Trying') = Cardinality(Trying)
      BY <2>1, <2>5, <3>1, <3>2, TryingMoves DEF MailSteps
    <3>5. Queued' = Queued BY <2>5, QueueStays
    <3>6. mTries' + Cardinality(Queued') + Cardinality(Trying')
            <= mTries + Cardinality(Queued) + Cardinality(Trying)
      BY <1>0, <2>5, <3>4, <3>5
    <3> HIDE DEF MailInv, Accounted
    <3> QED BY <2>5, <3>3, <3>4, <3>5, <3>6, Paid DEF MailInv, Accounted
  <2>6. CASE Mails!Archive(w) BY <2>1, <2>5, <2>6 DEF Mails!Archive, MailShape
  <2>7. CASE Mails!Ack(w) BY <2>5, <2>7 DEF Mails!Ack, MailShape
  <2>8. CASE Mails!ArchiveFails(w)
    <3> DEFINE n == Mails!ArchiveOnly(m)
    <3>1. /\ mPc[w] = "archive" /\ mArchived' \in BOOLEAN
          /\ mQueue' = [mQueue EXCEPT ![n] = @ + 1] /\ Mails!Goto(w, "ack", {m})
          /\ UNCHANGED <<mFresh, mValid, mTries, mSent, mFaults>>
      BY <2>1, <2>8, Answers DEF Mails!ArchiveFails, Mails!Republish, MailShape
    <3>2. n \in Mails!Message /\ Left(n) = 0 BY DEF Mails!ArchiveOnly, Mails!Message, Left
    <3> HIDE DEF n
    <3>3. /\ mQueue' \in [Mails!Message -> Nat] /\ IsFiniteSet(Queued')
          /\ Cardinality(Queued') = Cardinality(Queued) + Left(n)
      BY <3>1, <3>2, QueueGrows
    <3>4. MailShape' /\ HeldOne' BY <1>0, <1>1, <3>1, <3>3 DEF MailSteps, MailShape
    <3>5. IsFiniteSet(Trying') /\ Cardinality(Trying') = Cardinality(Trying)
      BY <2>1, <3>1, TryingMoves DEF MailSteps
    <3>6. mTries' + Cardinality(Queued') + Cardinality(Trying')
            <= mTries + Cardinality(Queued) + Cardinality(Trying)
      BY <1>0, <3>1, <3>2, <3>3, <3>5
    <3> HIDE DEF MailInv, Accounted
    <3> QED BY <3>1, <3>3, <3>4, <3>5, <3>6, Paid
  <2>9. ~Mails!Take(w) BY <1>3 DEF Mails!Take
  <2> QED BY <2>3, <2>4, <2>6, <2>7, <2>8, <2>9 DEF Mails!Work
<1>4. CASE mPc[w] = "idle"
  BY <1>2, <1>4 DEF Mails!Work, Mails!Send, Mails!SendFails, Mails!Archive, Mails!ArchiveFails,
                    Mails!Ack
<1> QED BY <1>3, <1>4

\* A worker that is lost, and a message that is delivered again.
LEMMA FaultStep ==
    ASSUME MailInv, NEW w \in Workers, Mails!Lose(w) \/ Mails!Redeliver(w)
    PROVE  MailInv'
<1> USE DEF MailInv, Accounted
<1>0. /\ Cardinality(Queued) \in Nat /\ Cardinality(Trying) \in Nat /\ mTries \in Nat
      /\ MaxRetries \in Nat /\ MaxFaults \in Nat
      /\ mPc[w] \in MailSteps /\ mPc[w] # "idle" /\ mFaults \in Nat
      /\ mFaults < MaxFaults /\ mFaults' = mFaults + 1 /\ mQueue' = Mails!Unacked(mHeld[w])
  <2>1. /\ mPc[w] # "idle" /\ mFaults < MaxFaults /\ mFaults' = mFaults + 1
        /\ mQueue' = Mails!Unacked(mHeld[w])
    BY Zenon DEF Mails!Lose, Mails!Redeliver, Mails!Fault
  <2> QED BY <2>1, FS_CardinalityType, MailsAssumption DEF MailShape
<1>1. PICK m \in Mails!Message : mHeld[w] = {m} BY <1>0 DEF HeldOne
<1>2. Left(m) \in Nat /\ Left(m) <= MaxRetries + 1 /\ (mPc[w] = "smtp" => Left(m) >= 1)
  BY <1>0, <1>1, LeftOver DEF HeldOne, Left, Mails!Message
<1>3. /\ mQueue' \in [Mails!Message -> Nat] /\ IsFiniteSet(Queued')
      /\ Cardinality(Queued') = Cardinality(Queued) + Left(m)
  BY <1>0, <1>1, QueueGrows, Returned
<1>4. CASE Mails!Redeliver(w)
  <2>1. UNCHANGED <<mHeld, mPc, mFresh, mValid, mTries, mSent, mArchived>>
    BY <1>4 DEF Mails!Redeliver
  <2>2. Trying' = Trying BY <2>1, WorkersStay
  <2>3. MailShape' /\ HeldOne' BY <1>0, <1>3, <2>1 DEF MailShape, HeldOne
  <2>4. mTries' + Cardinality(Queued') + Cardinality(Trying')
            <= mTries + Cardinality(Queued) + Cardinality(Trying) + MaxRetries + 1
    BY <1>0, <1>2, <1>3, <2>1, <2>2
  <2> HIDE DEF MailInv, Accounted
  <2> QED BY <1>0, <1>3, <2>2, <2>3, <2>4, Paid DEF MailInv, Accounted
<1>5. CASE Mails!Lose(w)
  <2>1. /\ Mails!Goto(w, "idle", {}) /\ UNCHANGED <<mFresh, mValid, mArchived>>
        /\ mSent' \in BOOLEAN /\ mTries' \in {mTries, mTries + 1}
        /\ mPc[w] # "smtp" => mTries' = mTries
    <3>1. CASE mPc[w] = "smtp" BY <1>5, <3>1, Answers DEF Mails!Lose, MailShape
    <3>2. CASE mPc[w] # "smtp" BY <1>5, <3>2 DEF Mails!Lose, MailShape
    <3> QED BY <3>1, <3>2
  <2>2. /\ mPc' \in [Workers -> MailSteps] /\ mHeld' \in [Workers -> SUBSET Mails!Message]
        /\ mPc'[w] = "idle" /\ mHeld'[w] = {}
        /\ \A v \in Workers \ {w} : mPc'[v] = mPc[v] /\ mHeld'[v] = mHeld[v]
    BY <2>1, MailGoto DEF MailSteps
  <2>3. MailShape' /\ HeldOne'
    <3>1. mTries' \in Nat /\ mFaults' \in 0..MaxFaults BY <1>0, <2>1
    <3>2. MailShape' BY <1>3, <2>1, <2>2, <3>1 DEF MailShape
    <3> QED BY <2>2, <3>2 DEF HeldOne
  <2>4. /\ IsFiniteSet(Trying')
        /\ mPc[w] = "smtp" => Cardinality(Trying') = Cardinality(Trying) - Left(m)
        /\ mPc[w] # "smtp" => Cardinality(Trying') = Cardinality(Trying)
    BY <1>1, <2>1, TryingMoves DEF MailSteps
  <2>5. mTries' + Cardinality(Queued') + Cardinality(Trying')
            <= mTries + Cardinality(Queued) + Cardinality(Trying) + MaxRetries + 1
    BY <1>0, <1>2, <1>3, <2>1, <2>4
  <2> HIDE DEF MailInv, Accounted
  <2> QED BY <1>0, <1>3, <2>3, <2>4, <2>5, Paid
<1> QED BY <1>4, <1>5

\* The invariant holds in every state: one copy of the first attempt is a full round.
LEMMA MailInvariance == AllSpec => []MailInv
<1>1. ASSUME Mails!Init PROVE MailInv
  <2> DEFINE first == [attempt |-> 0, archiving |-> FALSE]
  <2>1. first \in Mails!Message /\ Left(first) = MaxRetries + 1 /\ Left(first) \in Nat
    BY MailsAssumption DEF Mails!Message, Left
  <2>2. mQueue = [m \in Mails!Message |-> IF m = first THEN 1 ELSE 0]
    BY <1>1 DEF Mails!Init
  <2>3. MailShape /\ HeldOne
    <3>1. mFresh \in BOOLEAN /\ mValid \in BOOLEAN /\ mSent \in BOOLEAN /\ mArchived \in BOOLEAN
      BY <1>1 DEF Mails!Init
    <3>2. mQueue \in [Mails!Message -> Nat] BY <2>2
    <3> QED BY <1>1, <3>1, <3>2, MailsAssumption DEF Mails!Init, MailShape, HeldOne, MailSteps
  <2> HIDE DEF first
  <2>4. Queued = Fan(first, 1, Left(first))
    <3>1. ASSUME NEW t \in Mails!Message \X Nat \X Nat
          PROVE  t \in Queued <=> t \in Fan(first, 1, Left(first))
      <4>1. PICK a \in Mails!Message, i \in Nat, k \in Nat : t = <<a, i, k>> OBVIOUS
      <4>2. t \in Queued <=> i \in 1..mQueue[a] /\ k \in 1..Left(a) BY <4>1 DEF Queued
      <4>3. mQueue[a] = IF a = first THEN 1 ELSE 0 BY <2>2
      <4> QED BY <4>1, <4>2, <4>3 DEF Fan
    <3>2. Fan(first, 1, Left(first)) \subseteq Mails!Message \X Nat \X Nat BY <2>1 DEF Fan
    <3>3. Queued \subseteq Mails!Message \X Nat \X Nat BY DEF Queued
    <3> QED BY <3>1, <3>2, <3>3
  <2>5. Trying = {} BY <1>1 DEF Mails!Init, Trying
  <2>6. /\ IsFiniteSet(Queued) /\ Cardinality(Queued) = MaxRetries + 1
        /\ IsFiniteSet(Trying) /\ Cardinality(Trying) = 0
    BY <2>1, <2>4, <2>5, FanSize, FS_EmptySet
  <2>7. mTries = 0 /\ mFaults = 0 BY <1>1 DEF Mails!Init
  <2> QED BY <2>3, <2>6, <2>7, MailsAssumption DEF MailInv, Accounted
<1>2. AllInit => MailInv BY <1>1 DEF AllInit
<1>3. MailInv /\ [AllNext]_allVars => MailInv'
  <2> SUFFICES ASSUME MailInv, [Mails!Next]_mVars PROVE MailInv' BY PartSteps
  <2>1. ASSUME UNCHANGED <<mQueue, mHeld, mPc, mTries, mFaults, mValid, mSent, mArchived>>,
               mFresh' \in BOOLEAN
        PROVE  MailInv'
    <3>1. Queued' = Queued /\ Trying' = Trying BY <2>1, QueueStays, WorkersStay
    <3> QED BY <2>1, <3>1 DEF MailInv, MailShape, HeldOne, Accounted
  <2>2. CASE Mails!Expire \/ UNCHANGED mVars
    BY <2>1, <2>2 DEF Mails!Expire, mVars, MailInv, MailShape
  <2> QED BY <2>2, WorkStep, FaultStep DEF Mails!Next
<1> QED BY <1>2, <1>3, PTL DEF AllSpec

\* However the workers die, the broker repeats deliveries and the archival fails: attempts at
\* SMTP stay within a full round for each delivery that was repeated, and the first.
THEOREM SendsBoundedHolds == AllSpec => []SendsBounded
<1>1. MailInv => SendsBounded
  <2> SUFFICES ASSUME MailInv PROVE SendsBounded OBVIOUS
  <2> DEFINE rounds == (MaxRetries + 1) * (mFaults + 1)
  <2>1. /\ Cardinality(Queued) \in Nat /\ Cardinality(Trying) \in Nat /\ mTries \in Nat
        /\ mTries + Cardinality(Queued) + Cardinality(Trying) <= rounds
    BY FS_CardinalityType DEF MailInv, MailShape, Accounted
  <2>2. rounds \in Nat BY MailsAssumption DEF MailInv, MailShape
  <2> HIDE DEF rounds
  <2>3. mTries <= rounds BY <2>1, <2>2
  <2> QED BY <2>3 DEF rounds, SendsBounded, Mails!SendsBounded
<1> QED BY <1>1, MailInvariance, PTL
-----------------------------------------------------------------------------
\* SingleFlight: the checks of an integration.

\* The pending task is the one that has called the provider.
ProbeInv == Probes!TypeOK /\ fCalls = (IF fTask = "running" THEN 1 ELSE 0)

\* Every step keeps the invariant.
LEMMA ProbeStep == ProbeInv /\ [Probes!Next]_fVars => ProbeInv'
<1> SUFFICES ASSUME ProbeInv, [Probes!Next]_fVars PROVE ProbeInv' OBVIOUS
<1> USE DEF ProbeInv, Probes!TypeOK
<1>1. ASSUME Probes!Join
      PROVE  fTask' = "running" /\ fCalls' = 1
  BY <1>1 DEF Probes!Join
<1>2. ASSUME NEW step \in {"check", "get"}, Probes!Answer(step)
      PROVE  fPc' \in [Clients -> {"idle", "check", "get"}]
  BY <1>2 DEF Probes!Answer
<1>3. ASSUME NEW r \in Clients, NEW step \in {"idle", "check", "get"}, Probes!Goto(r, step)
      PROVE  fPc' \in [Clients -> {"idle", "check", "get"}]
  BY <1>3 DEF Probes!Goto
<1>4. ASSUME NEW r \in Clients, Probes!Check(r) PROVE ProbeInv'
  BY <1>1, <1>3, <1>4 DEF Probes!Check
<1>5. ASSUME NEW r \in Clients, Probes!Get(r) PROVE ProbeInv' BY <1>3, <1>5 DEF Probes!Get
<1>6. ASSUME NEW r \in Clients, Probes!GiveUp(r) PROVE ProbeInv'
  BY <1>3, <1>6 DEF Probes!GiveUp, Probes!Shielded
<1>7. ASSUME NEW r \in Clients, Probes!LeaveDemo(r) PROVE ProbeInv'
  BY <1>3, <1>7 DEF Probes!LeaveDemo
<1>8. CASE Probes!LoadChecks BY <1>1, <1>8 DEF Probes!LoadChecks
<1>9. CASE Probes!LoadEnds BY <1>2, <1>9 DEF Probes!LoadEnds
<1>10. CASE Probes!ProbeEnds BY <1>2, <1>10 DEF Probes!ProbeEnds
<1>11. CASE Probes!LoadGivesUp BY <1>2, <1>11 DEF Probes!LoadGivesUp, Probes!Shielded
<1>12. CASE Probes!Age \/ Probes!AgeSnap BY <1>12 DEF Probes!Age, Probes!AgeSnap
<1>13. CASE UNCHANGED fVars BY <1>13 DEF fVars
<1> QED
  BY <1>4, <1>5, <1>6, <1>7, <1>8, <1>9, <1>10, <1>11, <1>12, <1>13 DEF Probes!Next

\* The invariant holds in every state.
LEMMA ProbeInvariance == AllSpec => []ProbeInv
<1>1. AllInit => ProbeInv BY DEF AllInit, Probes!Init, ProbeInv, Probes!TypeOK
<1>2. ProbeInv /\ [AllNext]_allVars => ProbeInv' BY PartSteps, ProbeStep
<1> QED BY <1>1, <1>2, PTL DEF AllSpec

\* However many requests and snapshots ask for a check, time out, leave or come back, one call
\* to the provider is in flight at most.
THEOREM OneProbeHolds == AllSpec => []OneProbe
<1>1. ProbeInv => OneProbe BY DEF ProbeInv, OneProbe, Probes!OneProbe
<1> QED BY <1>1, ProbeInvariance, PTL
-----------------------------------------------------------------------------
\* Lifespan: the start and the end of a process.

Resources == {"storage", "redis", "engine"}

StartSteps == Starts!Starting \cup {"serve", "dispose", "close redis", "close storage", "stopped"}

\* What a process may still hold open at each step of its start and of its end.
Held(p) ==
    /\ bPc[p] = "storage" => bOpen[p] = {}
    /\ bPc[p] = "bucket" => bOpen[p] \subseteq {"storage"}
    /\ bPc[p] = "close redis" => "engine" \notin bOpen[p] \ bFailed[p]
    /\ bPc[p] = "close storage" => bOpen[p] \ bFailed[p] \subseteq {"storage"}
    /\ bPc[p] = "stopped" => bOpen[p] \ bFailed[p] = {}

StartInv == Starts!TypeOK /\ (\A p \in Processes : Held(p)) /\ Starts!NeverPromotes

\* The account is one user or none.
LEMMA OneAccount == Starts!Cardinality({}) <= 1 /\ \A x : Starts!Cardinality({x}) <= 1
<1>1. Cardinality({}) <= 1 /\ \A x : Cardinality({x}) <= 1 BY FS_EmptySet, FS_Singleton
<1> QED BY <1>1 DEF Starts!Cardinality, Cardinality

\* A process that goes to another step, of whose resources the others know nothing.
LEMMA StartMoves ==
    ASSUME StartInv, NEW p \in Processes, NEW step \in StartSteps,
           bPc' = [bPc EXCEPT ![p] = step],
           bOpen' \in [Processes -> SUBSET Resources],
           bFailed' \in [Processes -> SUBSET Resources],
           \A q \in Processes \ {p} : bOpen'[q] = bOpen[q] /\ bFailed'[q] = bFailed[q],
           UNCHANGED <<bServes, bSchema, bAccount>>,
           Held(p)'
    PROVE  StartInv'
<1>1. Starts!TypeOK' BY DEF StartInv, Starts!TypeOK, StartSteps, Resources
<1>2. ASSUME NEW q \in Processes, q # p PROVE Held(q)'
  <2>1. bPc'[q] = bPc[q] /\ bOpen'[q] = bOpen[q] /\ bFailed'[q] = bFailed[q]
    BY <1>2 DEF StartInv, Starts!TypeOK
  <2> QED BY <2>1 DEF StartInv, Held
<1>3. Starts!NeverPromotes' BY DEF StartInv, Starts!NeverPromotes
<1> QED BY <1>1, <1>2, <1>3 DEF StartInv

\* Closing leaves one resource less, or one more whose closing has failed.
LEMMA Closing ==
    ASSUME StartInv, NEW p \in Processes, NEW step, NEW then, NEW x,
           Starts!Close(p, step, x, then)
    PROVE  /\ bOpen' \in [Processes -> SUBSET Resources]
           /\ bFailed' \in [Processes -> SUBSET Resources]
           /\ bOpen'[p] \ bFailed'[p] = (bOpen[p] \ bFailed[p]) \ {x}
           /\ \A q \in Processes \ {p} : bOpen'[q] = bOpen[q] /\ bFailed'[q] = bFailed[q]
           /\ bPc[p] = step /\ bPc' = [bPc EXCEPT ![p] = then]
           /\ UNCHANGED <<bServes, bSchema, bAccount>>
<1> USE DEF StartInv, Starts!TypeOK, Resources
<1>1. bPc[p] = step /\ bPc' = [bPc EXCEPT ![p] = then] /\ UNCHANGED <<bServes, bSchema, bAccount>>
  BY DEF Starts!Close, Starts!Goto, Starts!Finally
<1>2. CASE Starts!Closes(p, x) /\ UNCHANGED bFailed
  BY <1>1, <1>2 DEF Starts!Closes
<1>3. CASE x \in bOpen[p] /\ bFailed' = [bFailed EXCEPT ![p] = @ \cup {x}] /\ UNCHANGED bOpen
  BY <1>1, <1>3
<1> QED BY <1>2, <1>3 DEF Starts!Close

\* Each step of the end keeps the invariant.
LEMMA ClosingStep ==
    ASSUME StartInv, NEW p \in Processes,
           Starts!Dispose(p) \/ Starts!CloseRedis(p) \/ Starts!CloseStorage(p)
    PROVE  StartInv'
<1>1. CASE Starts!Dispose(p)
  <2>1. Starts!Close(p, "dispose", "engine", "close redis") BY <1>1 DEF Starts!Dispose
  <2>2. /\ bOpen' \in [Processes -> SUBSET Resources] /\ bFailed' \in [Processes -> SUBSET Resources]
        /\ bOpen'[p] \ bFailed'[p] = (bOpen[p] \ bFailed[p]) \ {"engine"}
        /\ \A q \in Processes \ {p} : bOpen'[q] = bOpen[q] /\ bFailed'[q] = bFailed[q]
        /\ bPc[p] = "dispose" /\ bPc' = [bPc EXCEPT ![p] = "close redis"]
        /\ UNCHANGED <<bServes, bSchema, bAccount>>
    BY <2>1, Closing
  <2>3. Held(p)' BY <2>2 DEF StartInv, Starts!TypeOK, Held, Resources
  <2> QED BY <2>2, <2>3, StartMoves DEF StartSteps
<1>2. CASE Starts!CloseRedis(p)
  <2>1. Starts!Close(p, "close redis", "redis", "close storage") BY <1>2 DEF Starts!CloseRedis
  <2>2. /\ bOpen' \in [Processes -> SUBSET Resources] /\ bFailed' \in [Processes -> SUBSET Resources]
        /\ bOpen'[p] \ bFailed'[p] = (bOpen[p] \ bFailed[p]) \ {"redis"}
        /\ \A q \in Processes \ {p} : bOpen'[q] = bOpen[q] /\ bFailed'[q] = bFailed[q]
        /\ bPc[p] = "close redis" /\ bPc' = [bPc EXCEPT ![p] = "close storage"]
        /\ UNCHANGED <<bServes, bSchema, bAccount>>
    BY <2>1, Closing
  <2>3. Held(p)'
    <3>1. bPc'[p] = "close storage" BY <2>2 DEF StartInv, Starts!TypeOK
    <3>2. "engine" \notin bOpen[p] \ bFailed[p] /\ bOpen[p] \subseteq Resources
      BY <2>2 DEF StartInv, Starts!TypeOK, Held, Resources
    <3>3. bOpen'[p] \ bFailed'[p] \subseteq {"storage"} BY <2>2, <3>2 DEF Resources
    <3> QED BY <3>1, <3>3 DEF Held
  <2> QED BY <2>2, <2>3, StartMoves DEF StartSteps
<1>3. CASE Starts!CloseStorage(p)
  <2>1. Starts!Close(p, "close storage", "storage", "stopped") BY <1>3 DEF Starts!CloseStorage
  <2>2. /\ bOpen' \in [Processes -> SUBSET Resources] /\ bFailed' \in [Processes -> SUBSET Resources]
        /\ bOpen'[p] \ bFailed'[p] = (bOpen[p] \ bFailed[p]) \ {"storage"}
        /\ \A q \in Processes \ {p} : bOpen'[q] = bOpen[q] /\ bFailed'[q] = bFailed[q]
        /\ bPc[p] = "close storage" /\ bPc' = [bPc EXCEPT ![p] = "stopped"]
        /\ UNCHANGED <<bServes, bSchema, bAccount>>
    BY <2>1, Closing
  <2>3. Held(p)' BY <2>2 DEF StartInv, Starts!TypeOK, Held, Resources
  <2> QED BY <2>2, <2>3, StartMoves DEF StartSteps
<1> QED BY <1>1, <1>2, <1>3

\* A start that fails.
LEMMA FailingStep ==
    ASSUME StartInv, NEW p \in Processes, Starts!StartFails(p)
    PROVE  StartInv'
<1>1. /\ bPc[p] \in Starts!Starting /\ UNCHANGED <<bServes, bSchema, bAccount, bFailed>>
      /\ IF bPc[p] = "tables" THEN Starts!Opens(p, "engine") ELSE UNCHANGED bOpen
  BY Zenon DEF Starts!StartFails
<1>2. /\ bOpen' \in [Processes -> SUBSET Resources] /\ bFailed' \in [Processes -> SUBSET Resources]
      /\ \A q \in Processes \ {p} : bOpen'[q] = bOpen[q] /\ bFailed'[q] = bFailed[q]
      /\ bPc[p] # "tables" => bOpen'[p] = bOpen[p]
  <2>1. CASE bPc[p] = "tables"
    <3>1. bOpen' = [bOpen EXCEPT ![p] = @ \cup {"engine"}] BY <1>1, <2>1 DEF Starts!Opens
    <3> QED BY <1>1, <2>1, <3>1 DEF Resources, StartInv, Starts!TypeOK
  <2> QED BY <1>1, <2>1 DEF Resources, StartInv, Starts!TypeOK
<1>3. PICK step \in {"stopped", "close storage", "dispose"} :
        /\ bPc' = [bPc EXCEPT ![p] = step]
        /\ step = "stopped" => bPc[p] = "storage"
        /\ step = "close storage" => bPc[p] = "bucket"
  <2>1. CASE bPc[p] = "storage" BY <2>1 DEF Starts!StartFails, Starts!Goto
  <2>2. CASE bPc[p] = "bucket" BY <2>2 DEF Starts!StartFails, Starts!Goto
  <2>3. CASE bPc[p] \notin {"storage", "bucket"} BY <2>3 DEF Starts!StartFails, Starts!Goto
  <2> QED BY <2>1, <2>2, <2>3
<1>4. Held(p)
  BY DEF StartInv
<1>5. bPc'[p] = step BY <1>3 DEF StartInv, Starts!TypeOK
<1>6. Held(p)' BY <1>2, <1>3, <1>4, <1>5 DEF Held
<1> QED BY <1>1, <1>2, <1>3, <1>6, StartMoves DEF StartSteps

\* Every step keeps the invariant.
LEMMA StartStep == StartInv /\ [Starts!Next]_bVars => StartInv'
<1> SUFFICES ASSUME StartInv, [Starts!Next]_bVars PROVE StartInv' OBVIOUS
<1> USE DEF StartInv, Starts!TypeOK, Held, Starts!NeverPromotes
<1>1. ASSUME NEW p \in Processes, Starts!OpenStorage(p) PROVE StartInv'
  BY <1>1 DEF Starts!OpenStorage, Starts!Opens, Starts!Goto, Starts!Starting
<1>2. ASSUME NEW p \in Processes, Starts!CheckStorage(p) PROVE StartInv'
  BY <1>2 DEF Starts!CheckStorage, Starts!Goto, Starts!Starting
<1>3. ASSUME NEW p \in Processes, Starts!OpenRedis(p) PROVE StartInv'
  BY <1>3 DEF Starts!OpenRedis, Starts!Opens, Starts!Goto, Starts!Starting
<1>4. ASSUME NEW p \in Processes, Starts!CheckConfiguration(p) PROVE StartInv'
  BY <1>4 DEF Starts!CheckConfiguration, Starts!Goto, Starts!Starting
<1>5. ASSUME NEW p \in Processes, Starts!Migrate(p) PROVE StartInv'
  BY <1>5 DEF Starts!Migrate, Starts!Goto, Starts!Starting
<1>6. ASSUME NEW p \in Processes, Starts!OpenEngine(p) PROVE StartInv'
  BY <1>6 DEF Starts!OpenEngine, Starts!Opens, Starts!Goto, Starts!Starting
<1>7. ASSUME NEW p \in Processes, Starts!Find(p) PROVE StartInv'
  BY <1>7 DEF Starts!Find, Starts!Goto, Starts!Starting
<1>8. ASSUME NEW p \in Processes, Starts!Create(p) PROVE StartInv'
  <2>1. /\ bAccount' \subseteq {"bootstrap", "normal"} /\ Starts!Cardinality(bAccount') <= 1
    BY <1>8, OneAccount DEF Starts!Create
  <2> QED BY <1>8, <2>1 DEF Starts!Create, Starts!Goto, Starts!Starting
<1>9. ASSUME NEW p \in Processes, Starts!Verify(p) PROVE StartInv'
  BY <1>9 DEF Starts!Verify, Starts!BootstrapUser, Starts!Goto, Starts!Starting
<1>10. ASSUME NEW p \in Processes, Starts!StartFails(p) PROVE StartInv'
  <2> HIDE DEF StartInv
  <2> QED BY <1>10, FailingStep
<1>11. ASSUME NEW p \in Processes, Starts!Stop(p) PROVE StartInv'
  BY <1>11 DEF Starts!Stop, Starts!Goto, Starts!Starting
<1>12. ASSUME NEW p \in Processes,
              Starts!Dispose(p) \/ Starts!CloseRedis(p) \/ Starts!CloseStorage(p)
       PROVE  StartInv'
  <2> HIDE DEF StartInv
  <2> QED BY <1>12, ClosingStep
<1>13. CASE Starts!SignUp \/ Starts!Delete
  <2>1. /\ bAccount' \subseteq {"bootstrap", "normal"} /\ Starts!Cardinality(bAccount') <= 1
    BY <1>13, OneAccount DEF Starts!SignUp, Starts!Delete
  <2> QED BY <1>13, <2>1 DEF Starts!SignUp, Starts!Delete
<1>14. CASE UNCHANGED bVars BY <1>14 DEF bVars
<1> QED
  BY <1>1, <1>2, <1>3, <1>4, <1>5, <1>6, <1>7, <1>8, <1>9, <1>10, <1>11, <1>12, <1>13, <1>14
     DEF Starts!Next

\* The invariant holds in every state.
LEMMA StartInvariance == AllSpec => []StartInv
<1>1. ASSUME Starts!Init PROVE StartInv
  <2>1. Starts!Cardinality(bAccount) <= 1
    BY <1>1, OneAccount DEF Starts!Init
  <2> QED BY <1>1, <2>1 DEF Starts!Init, StartInv, Starts!TypeOK, Held, Starts!NeverPromotes,
                            Starts!Starting
<1>2. AllInit => StartInv BY <1>1 DEF AllInit
<1>3. StartInv /\ [AllNext]_allVars => StartInv' BY PartSteps, StartStep
<1> QED BY <1>2, <1>3, PTL DEF AllSpec

\* Wherever the start of a process fails or is cancelled, and whichever closings fail, a process
\* that has ended has tried to close all it opened; and none ever serves a user that it did not
\* provision, whoever won the race for the address.
THEOREM StartsSafelyHolds == AllSpec => []StartsSafely
<1>1. StartInv => StartsSafely
  BY DEF StartInv, Held, StartsSafely, Starts!StartsSafely, Starts!NothingOpen
<1> QED BY <1>1, StartInvariance, PTL
-----------------------------------------------------------------------------
\* VerifyRunner: what is reported as verified.

CheckSteps == {"idle", "pending", "begun", "running", "passed", "ended", "broken", "done", "failed"}
Under == {"begun", "running", "passed", "ended", "broken"}

\* A command that a thread has taken waits for nothing more.
InTurn == \A i \in Checks!Commands : vSt[i] \notin {"idle", "pending"} =>
            \A j \in Checks!Required(i) : vSt[j] = "done"

\* Without an edit the source is the one in the snapshot, and a command that has passed passes
\* on it, and what it builds was built from it.
Unedited ==
    \A i \in Checks!Commands \ vTouched :
        /\ vSt[i] \in {"begun", "running", "passed"} => vKey[i] = {vContent}
        /\ vSt[i] = "passed" => <<i, vContent>> \in Good /\ (i \in Builders => vDist = {vContent})

\* A receipt excuses a command on the source it names, and names the source of the output.
Receipts ==
    \A i \in Checks!Commands : \A c \in vReceipts[i] :
        vDoubtful \/ (<<i, c.source>> \in Good /\ (i \in Builders => c.output = {c.source}))

\* The output was built from the snapshot of a command that builds, or edits have intervened.
BuiltBy(b, output) == output = vKey[b] \/ b \in vTouched \/ vDoubtful

Succeeded == {"passed", "ended", "done"}
Unsuccessful == {"broken", "failed"}

\* The output is that of a builder that has succeeded, unless one has failed since.
Outputs == \A b \in Builders : vSt[b] \in Succeeded =>
    \E a \in Builders : \/ vSt[a] \in Succeeded /\ BuiltBy(a, vDist)
                        \/ vSt[a] \in Unsuccessful

\* What is packaged was the output.
Packaged == vSt[Package] \in Succeeded =>
    \E b \in Builders : vSt[b] \in Succeeded /\ BuiltBy(b, vShipped)

CheckInv == Checks!TypeOK /\ InTurn /\ Unedited /\ Receipts /\ Outputs /\ Packaged

\* Two commands of the frontend lane are not under way together, and nothing is with the package.
LEMMA Alone ==
    ASSUME CheckInv, NEW i \in Checks!Commands, NEW j \in Checks!Commands, i # j,
           i \notin Backend \/ i = Package, j \notin Backend \/ i = Package, vSt[i] \in Under
    PROVE  vSt[j] \notin Under
<1> USE ChecksAssumption DEF CheckInv, Checks!Commands, InTurn, Under
<1>1. CASE j < i
  <2>1. j \in Checks!Required(i) BY <1>1 DEF Checks!Required, Checks!SameLane
  <2> QED BY <2>1
<1>2. CASE i < j
  <2>1. i \in Checks!Required(j) BY <1>2 DEF Checks!Required, Checks!SameLane
  <2> QED BY <2>1
<1> QED BY <1>1, <1>2

\* What the main thread makes of the commands that have completed.
LEMMA Collected ==
    ASSUME Checks!TypeOK, Checks!Collect
    PROVE  /\ vSt' \in [Checks!Commands -> CheckSteps]
           /\ \A i \in Checks!Commands :
                 \/ vSt[i] = "ended" /\ vSt'[i] = "done"
                 \/ vSt[i] = "broken" /\ vSt'[i] = "failed"
                 \/ vSt[i] \notin {"ended", "broken"} /\ vSt'[i] = vSt[i]
           /\ UNCHANGED <<vContent, vDist, vShipped, vReceipts, vKey, vTouched, vDoubtful>>
<1> DEFINE seen(i) == CASE vSt[i] = "ended" -> "done" [] vSt[i] = "broken" -> "failed" [] OTHER -> vSt[i]
<1>1. /\ vSt' = [i \in Checks!Commands |-> seen(i)]
      /\ UNCHANGED <<vContent, vDist, vShipped, vReceipts, vKey, vTouched, vDoubtful>>
  BY DEF Checks!Collect
<1>2. ASSUME NEW i \in Checks!Commands
      PROVE  /\ \/ vSt[i] = "ended" /\ seen(i) = "done"
                \/ vSt[i] = "broken" /\ seen(i) = "failed"
                \/ vSt[i] \notin {"ended", "broken"} /\ seen(i) = vSt[i]
             /\ seen(i) \in CheckSteps
  <2>1. vSt[i] \in CheckSteps BY DEF Checks!TypeOK, CheckSteps
  <2>2. CASE vSt[i] = "ended" BY <2>2 DEF CheckSteps
  <2>3. CASE vSt[i] = "broken" BY <2>3 DEF CheckSteps
  <2>4. CASE vSt[i] \notin {"ended", "broken"} BY <2>1, <2>4
  <2> QED BY <2>2, <2>3, <2>4
<1> HIDE DEF seen
<1> QED BY <1>1, <1>2

\* Every step keeps the types.
LEMMA CheckTypes == CheckInv /\ [Checks!Next]_vVars => Checks!TypeOK'
<1> SUFFICES ASSUME CheckInv, [Checks!Next]_vVars PROVE Checks!TypeOK' OBVIOUS
<1> USE DEF CheckInv, Checks!TypeOK, Checks!Goto
<1>1. ASSUME NEW i \in Checks!Commands, Checks!Start(i) PROVE Checks!TypeOK'
  BY <1>1 DEF Checks!Start
<1>2. ASSUME NEW i \in Checks!Commands, Checks!Reuse(i) PROVE Checks!TypeOK'
  BY <1>2 DEF Checks!Reuse
<1>3. ASSUME NEW i \in Checks!Commands, Checks!Invalidate(i) PROVE Checks!TypeOK'
  BY <1>3 DEF Checks!Invalidate
<1>4. ASSUME NEW i \in Checks!Commands, Checks!Pass(i) PROVE Checks!TypeOK'
  BY <1>4 DEF Checks!Pass
<1>5. ASSUME NEW i \in Checks!Commands, Checks!Fail(i) PROVE Checks!TypeOK'
  <2>1. vDist' \in {vDist, {}} BY <1>5 DEF Checks!Fail
  <2> QED BY <1>5, <2>1 DEF Checks!Fail
<1>6. ASSUME NEW i \in Checks!Commands, Checks!Save(i) PROVE Checks!TypeOK'
  <2> DEFINE new == IF Checks!SameSource(i)
                    THEN [source : vKey[i], output : {Checks!Output(i)}] ELSE {}
  <2>1. new \in SUBSET [source : Contents, output : SUBSET Contents] BY DEF Checks!Output
  <2>2. vReceipts' = [vReceipts EXCEPT ![i] = new] BY <1>6 DEF Checks!Save
  <2> HIDE DEF new
  <2>3. vDoubtful' \in BOOLEAN BY <1>6 DEF Checks!Save
  <2> QED BY <1>6, <2>1, <2>2, <2>3 DEF Checks!Save
<1>7. ASSUME NEW i \in Checks!Commands, Checks!Expire(i) PROVE Checks!TypeOK'
  BY <1>7 DEF Checks!Expire
<1>8. CASE Checks!Begin BY <1>8 DEF Checks!Begin
<1>9. CASE Checks!Collect BY <1>9, Collected DEF CheckSteps
<1>10. CASE Checks!Leave BY <1>10 DEF Checks!Leave
<1>11. CASE Checks!Edit BY <1>11 DEF Checks!Edit, Checks!Live, Checks!In
<1>12. CASE Checks!Build BY <1>12 DEF Checks!Build
<1>13. CASE UNCHANGED vVars BY <1>13 DEF vVars
<1> QED
  BY <1>1, <1>2, <1>3, <1>4, <1>5, <1>6, <1>7, <1>8, <1>9, <1>10, <1>11, <1>12, <1>13
  DEF Checks!Next

\* Every step keeps the order of the commands.
LEMMA CheckOrder == CheckInv /\ [Checks!Next]_vVars => InTurn'
<1> SUFFICES ASSUME CheckInv, [Checks!Next]_vVars PROVE InTurn' OBVIOUS
<1> USE DEF CheckInv, Checks!TypeOK, Checks!Goto, InTurn
<1>0. \A i \in Checks!Commands : Checks!Required(i) \subseteq Checks!Commands \ {i}
  BY ChecksAssumption DEF Checks!Required, Checks!SameLane, Checks!Commands
<1>1. ASSUME NEW i \in Checks!Commands, Checks!Start(i) PROVE InTurn'
  BY <1>0, <1>1 DEF Checks!Start, Checks!In
<1>2. ASSUME NEW i \in Checks!Commands,
             NEW step \in {"running", "passed", "ended", "broken"},
             vSt[i] \in {"begun", "running", "passed"}, vSt' = [vSt EXCEPT ![i] = step]
      PROVE InTurn'
  BY <1>0, <1>2
<1>3. ASSUME NEW i \in Checks!Commands,
             Checks!Reuse(i) \/ Checks!Invalidate(i) \/ Checks!Pass(i) \/ Checks!Fail(i) \/ Checks!Save(i)
      PROVE InTurn'
  BY <1>2, <1>3 DEF Checks!Reuse, Checks!Invalidate, Checks!Pass, Checks!Fail, Checks!Save
<1>4. CASE Checks!Begin BY <1>4 DEF Checks!Begin
<1>5. CASE Checks!Collect
  <2>1. \A i \in Checks!Commands : vSt[i] = "done" => vSt'[i] = "done" BY <1>5, Collected
  <2>2. \A i \in Checks!Commands : vSt'[i] \notin {"idle", "pending"} => vSt[i] \notin {"idle", "pending"}
    BY <1>5, Collected
  <2> QED BY <1>0, <2>1, <2>2
<1>6. CASE Checks!Leave BY <1>6 DEF Checks!Leave
<1>7. CASE Checks!Edit \/ Checks!Build \/ UNCHANGED vVars \/ \E i \in Checks!Commands : Checks!Expire(i)
  BY <1>7 DEF Checks!Edit, Checks!Build, Checks!Expire, vVars
<1> QED BY <1>1, <1>3, <1>4, <1>5, <1>6, <1>7 DEF Checks!Next


\* The other actions leave what the commands under way have read and written alone.
LEMMA CheckUnedited == CheckInv /\ [Checks!Next]_vVars => Unedited'
<1> SUFFICES ASSUME CheckInv, [Checks!Next]_vVars PROVE Unedited' OBVIOUS
<1>0. /\ \A i \in Builders : i \in Checks!Commands /\ i \notin Backend /\ i # Package
      /\ \A i \in Checks!Commands, j \in Checks!Commands :
            i # j /\ i \in Builders /\ j \in Builders /\ vSt[i] \in Under => vSt[j] \notin Under
  BY Alone, ChecksAssumption DEF Checks!Commands
<1> USE DEF CheckInv, Checks!TypeOK, Checks!Goto, Unedited, Under
<1>1. ASSUME NEW i \in Checks!Commands, Checks!Start(i) PROVE Unedited'
  BY <1>1 DEF Checks!Start
<1>2. ASSUME NEW i \in Checks!Commands, Checks!Reuse(i) PROVE Unedited'
  BY <1>2 DEF Checks!Reuse
<1>3. ASSUME NEW i \in Checks!Commands, Checks!Invalidate(i) PROVE Unedited'
  BY <1>3 DEF Checks!Invalidate
<1>4. ASSUME NEW i \in Checks!Commands, Checks!Pass(i) PROVE Unedited'
  <2>1. /\ vSt[i] = "running" /\ <<i, vContent>> \in Good /\ vSt' = [vSt EXCEPT ![i] = "passed"]
        /\ vDist' = IF i \in Builders THEN {vContent} ELSE vDist
        /\ UNCHANGED <<vContent, vKey, vTouched>>
    BY <1>4 DEF Checks!Pass
  <2>2. ASSUME NEW j \in Checks!Commands \ vTouched, j \in Builders, vSt'[j] = "passed"
        PROVE  vDist' = {vContent}
    BY <1>0, <2>1, <2>2
  <2> QED BY <2>1, <2>2
<1>5. ASSUME NEW i \in Checks!Commands, Checks!Fail(i) PROVE Unedited'
  <2>1. /\ vSt[i] = "running" /\ vSt' = [vSt EXCEPT ![i] = "broken"]
        /\ i \in Builders \/ vDist' = vDist
        /\ UNCHANGED <<vContent, vKey, vTouched>>
    BY <1>5 DEF Checks!Fail
  <2>2. ASSUME NEW j \in Checks!Commands \ vTouched, j \in Builders, vSt'[j] = "passed"
        PROVE  vDist' = {vContent}
    BY <1>0, <2>1, <2>2
  <2> QED BY <2>1, <2>2
<1>6. ASSUME NEW i \in Checks!Commands, Checks!Save(i) PROVE Unedited'
  BY <1>6 DEF Checks!Save
<1>7. CASE Checks!Begin BY <1>7 DEF Checks!Begin
<1>8. CASE Checks!Collect BY <1>8, Collected
<1>9. CASE Checks!Leave BY <1>9 DEF Checks!Leave
<1>10. CASE Checks!Edit
  <2>1. /\ UNCHANGED <<vDist, vSt, vKey>> /\ vTouched' = vTouched \cup Checks!Live
    BY <1>10 DEF Checks!Edit
  <2>2. \A i \in Checks!Commands : vSt[i] \in Under => i \in Checks!Live
    BY DEF Checks!Live, Checks!In
  <2> QED BY <2>1, <2>2
<1>11. CASE Checks!Build
  <2>1. \A i \in Checks!Commands : vSt[i] = "idle" BY <1>11 DEF Checks!Build, Checks!In
  <2> QED BY <1>11, <2>1 DEF Checks!Build
<1>12. CASE UNCHANGED vVars \/ \E i \in Checks!Commands : Checks!Expire(i)
  BY <1>12 DEF Checks!Expire, vVars
<1> QED
  BY <1>1, <1>2, <1>3, <1>4, <1>5, <1>6, <1>7, <1>8, <1>9, <1>10, <1>11, <1>12 DEF Checks!Next

\* A receipt that is saved names a source the command has passed on.
LEMMA CheckReceipts == CheckInv /\ [Checks!Next]_vVars => Receipts'
<1> SUFFICES ASSUME CheckInv, [Checks!Next]_vVars PROVE Receipts' OBVIOUS
<1> USE DEF CheckInv, Receipts
<1>1. ASSUME NEW i \in Checks!Commands, Checks!Save(i) PROVE Receipts'
  <2>1. /\ vSt[i] = "passed" /\ (vDoubtful' = (vDoubtful \/ (i \in vTouched /\ {vContent} = vKey[i])))
        /\ vReceipts' = [vReceipts EXCEPT ![i] =
              IF Checks!SameSource(i) THEN [source : vKey[i], output : {Checks!Output(i)}] ELSE {}]
    BY <1>1, Zenon DEF Checks!Save
  <2>2. ASSUME NEW c \in vReceipts'[i], ~vDoubtful'
        PROVE  <<i, c.source>> \in Good /\ (i \in Builders => c.output = {c.source})
    <3>1. /\ c \in [source : vKey[i], output : {Checks!Output(i)}] /\ Checks!SameSource(i)
      BY <2>1, <2>2 DEF Checks!TypeOK
    <3>2. c.source = vContent /\ c.output = Checks!Output(i) /\ i \notin vTouched
      BY <2>1, <2>2, <3>1 DEF Checks!SameSource
    <3> QED BY <2>1, <3>2 DEF Unedited, Checks!Output
  <2>3. ASSUME NEW j \in Checks!Commands, j # i PROVE vReceipts'[j] = vReceipts[j]
    BY <2>1, <2>3 DEF Checks!TypeOK
  <2> QED BY <2>1, <2>2, <2>3
<1>2. ASSUME NEW i \in Checks!Commands, Checks!Invalidate(i) \/ Checks!Expire(i) PROVE Receipts'
  BY <1>2 DEF Checks!Invalidate, Checks!Expire, Checks!TypeOK
<1>3. CASE UNCHANGED <<vReceipts, vDoubtful>> BY <1>3
<1>4. ASSUME NEW i \in Checks!Commands,
             Checks!Start(i) \/ Checks!Reuse(i) \/ Checks!Pass(i) \/ Checks!Fail(i)
      PROVE  Receipts'
  BY <1>3, <1>4, Zenon DEF Checks!Start, Checks!Reuse, Checks!Pass, Checks!Fail
<1>5. CASE \/ Checks!Collect \/ Checks!Begin \/ Checks!Leave \/ Checks!Edit \/ Checks!Build
           \/ UNCHANGED vVars
  BY <1>3, <1>5, Zenon
  DEF Checks!Collect, Checks!Begin, Checks!Leave, Checks!Edit, Checks!Build, vVars
<1> QED BY <1>1, <1>2, <1>3, <1>4, <1>5 DEF Checks!Next

\* While a builder is under way no other command writes the output.
LEMMA CheckOutputs == CheckInv /\ [Checks!Next]_vVars => Outputs'
<1> SUFFICES ASSUME CheckInv, [Checks!Next]_vVars PROVE Outputs' OBVIOUS
<1>0. Builders \subseteq Checks!Commands BY ChecksAssumption DEF Checks!Commands
<1> USE <1>0 DEF CheckInv, Checks!TypeOK, Checks!Goto, Outputs, BuiltBy, Succeeded, Unsuccessful
<1>1. ASSUME NEW i \in Checks!Commands, Checks!Start(i) PROVE Outputs'
  <2>1. /\ vSt[i] = "pending" /\ vSt' = [vSt EXCEPT ![i] = "begun"]
        /\ vKey' = [vKey EXCEPT ![i] = {vContent}] /\ vTouched' = vTouched \ {i}
        /\ UNCHANGED <<vDist, vDoubtful>>
    BY <1>1 DEF Checks!Start
  <2>2. ASSUME NEW b \in Builders, vSt[b] # "pending"
        PROVE  vSt'[b] = vSt[b] /\ vKey'[b] = vKey[b] /\ (b \in vTouched => b \in vTouched')
    BY <2>1, <2>2
  <2> QED BY <2>1, <2>2
<1>2. ASSUME NEW i \in Checks!Commands, Checks!Reuse(i) PROVE Outputs'
  <2>1. /\ vSt[i] = "begun" /\ vSt' = [vSt EXCEPT ![i] = "ended"] /\ Checks!Reusable(i)
        /\ UNCHANGED <<vDist, vKey, vTouched, vDoubtful>>
    BY <1>2 DEF Checks!Reuse
  <2>2. CASE i \in Builders
    <3>1. vDoubtful \/ vDist = vKey[i] BY <2>1, <2>2 DEF Checks!Reusable, Checks!Output, Receipts
    <3> QED BY <2>1, <2>2, <3>1
  <2>3. CASE i \notin Builders BY <2>1, <2>3
  <2> QED BY <2>2, <2>3
<1>3. ASSUME NEW i \in Checks!Commands, Checks!Invalidate(i) PROVE Outputs'
  BY <1>3 DEF Checks!Invalidate
<1>4. ASSUME NEW i \in Checks!Commands, Checks!Pass(i) PROVE Outputs'
  <2>1. /\ vSt[i] = "running" /\ vSt' = [vSt EXCEPT ![i] = "passed"]
        /\ vDist' = IF i \in Builders THEN {vContent} ELSE vDist
        /\ UNCHANGED <<vKey, vTouched, vDoubtful>>
    BY <1>4 DEF Checks!Pass
  <2>2. CASE i \in Builders
    <3>1. i \in vTouched \/ vKey[i] = {vContent} BY <2>1 DEF Unedited
    <3> QED BY <2>1, <2>2, <3>1
  <2>3. CASE i \notin Builders BY <2>1, <2>3
  <2> QED BY <2>2, <2>3
<1>5. ASSUME NEW i \in Checks!Commands, Checks!Fail(i) PROVE Outputs'
  <2>1. /\ vSt[i] = "running" /\ vSt' = [vSt EXCEPT ![i] = "broken"]
        /\ i \in Builders \/ vDist' = vDist
        /\ UNCHANGED <<vKey, vTouched, vDoubtful>>
    BY <1>5 DEF Checks!Fail
  <2> QED BY <2>1
<1>6. ASSUME NEW i \in Checks!Commands, Checks!Save(i) PROVE Outputs'
  <2>1. /\ vSt[i] = "passed" /\ vSt' = [vSt EXCEPT ![i] = "ended"]
        /\ UNCHANGED <<vDist, vKey, vTouched>> /\ (vDoubtful => vDoubtful')
    BY <1>6, Zenon DEF Checks!Save
  <2> QED BY <2>1
<1>7. CASE Checks!Begin BY <1>7 DEF Checks!Begin
<1>8. CASE Checks!Collect BY <1>8, Collected
<1>9. CASE Checks!Leave BY <1>9 DEF Checks!Leave
<1>10. CASE Checks!Edit BY <1>10 DEF Checks!Edit
<1>11. CASE Checks!Build
  <2>1. \A i \in Checks!Commands : vSt[i] = "idle" BY <1>11 DEF Checks!Build, Checks!In
  <2> QED BY <1>11, <2>1 DEF Checks!Build
<1>12. CASE UNCHANGED vVars \/ \E i \in Checks!Commands : Checks!Expire(i)
  BY <1>12 DEF Checks!Expire, vVars
<1> QED
  BY <1>1, <1>2, <1>3, <1>4, <1>5, <1>6, <1>7, <1>8, <1>9, <1>10, <1>11, <1>12 DEF Checks!Next

\* The package is made when every builder is done, and the snapshots stay until the run ends.
LEMMA CheckPackaged == CheckInv /\ [Checks!Next]_vVars => Packaged'
<1> SUFFICES ASSUME CheckInv, [Checks!Next]_vVars PROVE Packaged' OBVIOUS
<1>0. /\ Builders \subseteq Checks!Commands /\ Package \in Checks!Commands
      /\ Package \notin Builders /\ Builders # {}
  BY ChecksAssumption DEF Checks!Commands
<1> USE <1>0 DEF CheckInv, Checks!TypeOK, Checks!Goto, Packaged, BuiltBy, Succeeded
<1>1. ASSUME NEW i \in Checks!Commands, Checks!Start(i) PROVE Packaged'
  <2>1. /\ vSt[i] = "pending" /\ vSt' = [vSt EXCEPT ![i] = "begun"]
        /\ vKey' = [vKey EXCEPT ![i] = {vContent}] /\ vTouched' = vTouched \ {i}
        /\ UNCHANGED <<vShipped, vDoubtful>>
    BY <1>1 DEF Checks!Start
  <2>2. ASSUME NEW b \in Builders, vSt[b] # "pending"
        PROVE  vSt'[b] = vSt[b] /\ vKey'[b] = vKey[b] /\ (b \in vTouched => b \in vTouched')
    BY <2>1, <2>2
  <2> QED BY <2>1, <2>2
<1>2. ASSUME NEW i \in Checks!Commands, Checks!Reuse(i) PROVE Packaged'
  BY <1>2 DEF Checks!Reuse, Checks!Reusable
<1>3. ASSUME NEW i \in Checks!Commands, Checks!Invalidate(i) PROVE Packaged'
  BY <1>3 DEF Checks!Invalidate
<1>4. ASSUME NEW i \in Checks!Commands, Checks!Pass(i) PROVE Packaged'
  <2>1. /\ vSt[i] = "running" /\ vSt' = [vSt EXCEPT ![i] = "passed"]
        /\ vShipped' = IF i = Package THEN vDist ELSE vShipped
        /\ UNCHANGED <<vKey, vTouched, vDoubtful>>
    BY <1>4 DEF Checks!Pass
  <2>2. CASE i = Package
    <3>1. \A j \in Builders : j \in Checks!Required(Package)
      BY ChecksAssumption DEF Checks!Required, Checks!Commands
    <3>2. \A j \in Builders : vSt[j] = "done" BY <2>1, <2>2, <3>1 DEF InTurn
    <3>3. \E b \in Builders : vSt[b] = "done" /\ BuiltBy(b, vDist)
      BY <3>2 DEF Outputs, Unsuccessful
    <3> QED BY <2>1, <2>2, <3>3
  <2>3. CASE i # Package BY <2>1, <2>3
  <2> QED BY <2>2, <2>3
<1>5. ASSUME NEW i \in Checks!Commands, Checks!Fail(i) PROVE Packaged'
  <2>1. /\ vSt[i] = "running" /\ vSt' = [vSt EXCEPT ![i] = "broken"]
        /\ UNCHANGED <<vShipped, vKey, vTouched, vDoubtful>>
    BY <1>5 DEF Checks!Fail
  <2> QED BY <2>1
<1>6. ASSUME NEW i \in Checks!Commands, Checks!Save(i) PROVE Packaged'
  <2>1. /\ vSt[i] = "passed" /\ vSt' = [vSt EXCEPT ![i] = "ended"]
        /\ UNCHANGED <<vShipped, vKey, vTouched>> /\ (vDoubtful => vDoubtful')
    BY <1>6, Zenon DEF Checks!Save
  <2> QED BY <2>1
<1>7. CASE Checks!Begin BY <1>7 DEF Checks!Begin
<1>8. CASE Checks!Collect BY <1>8, Collected
<1>9. CASE Checks!Leave BY <1>9 DEF Checks!Leave
<1>10. CASE Checks!Edit BY <1>10 DEF Checks!Edit
<1>11. CASE UNCHANGED vVars \/ Checks!Build \/ \E i \in Checks!Commands : Checks!Expire(i)
  BY <1>11 DEF Checks!Expire, Checks!Build, vVars
<1> QED
  BY <1>1, <1>2, <1>3, <1>4, <1>5, <1>6, <1>7, <1>8, <1>9, <1>10, <1>11 DEF Checks!Next

\* The invariant holds in every state.
LEMMA CheckInvariance == AllSpec => []CheckInv
<1>1. ASSUME Checks!Init PROVE CheckInv
  <2>1. Package \in Checks!Commands /\ Builders \subseteq Checks!Commands
    BY ChecksAssumption DEF Checks!Commands
  <2> QED BY <1>1, <2>1 DEF Checks!Init, CheckInv, Checks!TypeOK, InTurn, Unedited, Receipts,
                            Outputs, Packaged, Succeeded
<1>2. AllInit => CheckInv BY <1>1 DEF AllInit
<1>3. CheckInv /\ [AllNext]_allVars => CheckInv'
  BY PartSteps, CheckTypes, CheckOrder, CheckUnedited, CheckReceipts, CheckOutputs, CheckPackaged
  DEF CheckInv
<1> QED BY <1>2, <1>3, PTL DEF AllSpec

\* However the commands overlap, fail and are interrupted, and whenever the developer edits: a
\* receipt excuses a command on a source it passes on, what a complete run has packaged was
\* built from the source it checked, and the lanes keep their order.
THEOREM VerifiedOnlyHolds == AllSpec => []VerifiedOnly
<1>1. CheckInv => Checks!ReceiptSound BY DEF CheckInv, Receipts, Checks!ReceiptSound
<1>2. CheckInv => Checks!PackagedFresh
  <2> SUFFICES ASSUME CheckInv, Checks!In({"done"}) = Checks!Commands, vTouched = {}, ~vDoubtful,
                      \A i \in Checks!Commands : vKey[i] = {vContent}
               PROVE  vShipped = {vContent}
    BY DEF Checks!PackagedFresh
  <2>1. Package \in Checks!Commands /\ Builders \subseteq Checks!Commands
    BY ChecksAssumption DEF Checks!Commands
  <2>2. vSt[Package] = "done" BY <2>1 DEF Checks!In
  <2> QED BY <2>1, <2>2 DEF CheckInv, Packaged, Succeeded, BuiltBy
<1>3. CheckInv => Checks!LanesKept
  <2> SUFFICES ASSUME CheckInv PROVE Checks!LanesKept OBVIOUS
  <2>1. Checks!Live = {i \in Checks!Commands : vSt[i] \in Under}
    BY DEF Checks!Live, Checks!In, Under
  <2>2. Checks!Cardinality(Checks!Live \ Backend) <= 1
    <3>1. CASE Checks!Live \ Backend = {}
      BY <3>1, OneAccount DEF Checks!Cardinality, Starts!Cardinality
    <3>2. CASE Checks!Live \ Backend # {}
      <4>1. PICK i \in Checks!Live \ Backend : TRUE BY <3>2
      <4>2. Checks!Live \ Backend = {i} BY <2>1, <4>1, Alone
      <4> QED BY <4>2, OneAccount DEF Checks!Cardinality, Starts!Cardinality
    <3> QED BY <3>1, <3>2
  <2>3. ASSUME Package \in Checks!Live
        PROVE  Checks!In({"done"}) = Checks!Commands \ {Package}
    <3>1. vSt[Package] \in Under BY <2>1, <2>3
    <3>2. \A i \in Checks!Commands \ {Package} : i \in Checks!Required(Package)
      BY ChecksAssumption DEF Checks!Required, Checks!Commands
    <3>3. \A i \in Checks!Commands \ {Package} : vSt[i] = "done"
      BY <2>1, <2>3, <3>1, <3>2 DEF CheckInv, InTurn, Under
    <3> QED BY <3>1, <3>3 DEF Checks!In, Under
  <2> QED BY <2>2, <2>3 DEF Checks!LanesKept
<1>4. CheckInv => VerifiedOnly BY <1>1, <1>2, <1>3 DEF VerifiedOnly, Checks!VerifiedOnly
<1> QED BY <1>4, CheckInvariance, PTL
-----------------------------------------------------------------------------
\* Rollout: the order of the stages.

Stages == Rollouts!Services \cup {"prepare", "validate", "smoke"}

Rank(s) ==
    IF s = "prepare" THEN 1 ELSE IF s = "validate" THEN 2 ELSE IF s = "data" THEN 3
    ELSE IF s = "celery-worker" THEN 4 ELSE IF s = "app" THEN 5 ELSE IF s = "caddy" THEN 6 ELSE 7

StagesOf(q) == {q[i] : i \in 1..Len(q)}

InOrder(q) == \A i, j \in 1..Len(q) : i < j => Rank(q[i]) < Rank(q[j])

\* The stage at the head comes before those that follow, which stay in their order.
LEMMA TailInOrder ==
    ASSUME NEW q \in Seq(Stages), q # <<>>, InOrder(q)
    PROVE  /\ Tail(q) \in Seq(Stages) /\ InOrder(Tail(q))
           /\ StagesOf(Tail(q)) = StagesOf(q) \ {Head(q)}
           /\ Head(q) \in StagesOf(q)
           /\ \A s \in StagesOf(q) : s = Head(q) \/ Rank(Head(q)) < Rank(s)
<1>1. /\ Len(q) \in Nat \ {0} /\ Head(q) = q[1] /\ Tail(q) \in Seq(Stages)
      /\ Len(Tail(q)) = Len(q) - 1 /\ \A i \in 1..Len(Tail(q)) : Tail(q)[i] = q[i + 1]
  OBVIOUS
<1>2. \A i \in 1..Len(q) : Rank(q[i]) \in Nat BY DEF Rank
<1>3. ASSUME NEW i \in 2..Len(q) PROVE Rank(q[1]) < Rank(q[i])
  <2>1. 1 \in 1..Len(q) /\ i \in 1..Len(q) /\ 1 < i BY <1>1
  <2> QED BY <2>1 DEF InOrder
<1>4. InOrder(Tail(q))
  <2> SUFFICES ASSUME NEW i \in 1..Len(Tail(q)), NEW j \in 1..Len(Tail(q)), i < j
               PROVE  Rank(Tail(q)[i]) < Rank(Tail(q)[j])
    BY DEF InOrder
  <2>1. i + 1 \in 1..Len(q) /\ j + 1 \in 1..Len(q) /\ i + 1 < j + 1 BY <1>1
  <2>2. Rank(q[i + 1]) < Rank(q[j + 1]) BY <2>1 DEF InOrder
  <2> QED BY <1>1, <2>2
<1>5. ASSUME NEW s \in StagesOf(q)
      PROVE  s = q[1] \/ (s \in StagesOf(Tail(q)) /\ Rank(q[1]) < Rank(s))
  <2>1. PICK i \in 1..Len(q) : s = q[i] BY DEF StagesOf
  <2>2. CASE i = 1 BY <2>1, <2>2
  <2>3. CASE i # 1
    <3>1. i \in 2..Len(q) /\ i - 1 \in 1..Len(Tail(q)) BY <1>1, <2>3
    <3>2. Tail(q)[i - 1] = s BY <1>1, <2>1, <3>1
    <3> QED BY <1>3, <2>1, <3>1, <3>2 DEF StagesOf
  <2> QED BY <2>2, <2>3
<1>6. ASSUME NEW s \in StagesOf(Tail(q)) PROVE s \in StagesOf(q) /\ s # q[1]
  <2>1. PICK i \in 1..Len(Tail(q)) : s = Tail(q)[i] BY DEF StagesOf
  <2>2. s = q[i + 1] /\ i + 1 \in 2..Len(q) BY <1>1, <2>1
  <2>3. Rank(q[1]) < Rank(s) /\ Rank(s) \in Nat /\ Rank(q[1]) \in Nat
    BY <1>1, <1>2, <1>3, <2>2
  <2>4. s # q[1]
    <3> SUFFICES ASSUME s = q[1] PROVE FALSE OBVIOUS
    <3>1. Rank(s) = Rank(q[1]) OBVIOUS
    <3> QED BY <2>3, <3>1
  <2> QED BY <1>1, <2>2, <2>4 DEF StagesOf
<1>7. q[1] \in StagesOf(q) BY <1>1 DEF StagesOf
<1> QED BY <1>1, <1>4, <1>5, <1>6, <1>7

\* Stages that follow others.
LEMMA JoinedInOrder ==
    ASSUME NEW q \in Seq(Stages), NEW r \in Seq(Stages), InOrder(q), InOrder(r),
           \A s \in StagesOf(q), t \in StagesOf(r) : Rank(s) < Rank(t)
    PROVE  /\ q \o r \in Seq(Stages) /\ InOrder(q \o r)
           /\ StagesOf(q \o r) = StagesOf(q) \cup StagesOf(r)
<1>1. /\ Len(q) \in Nat /\ Len(r) \in Nat /\ q \o r \in Seq(Stages)
      /\ Len(q \o r) = Len(q) + Len(r)
      /\ \A i \in 1..Len(q) : (q \o r)[i] = q[i]
      /\ \A i \in 1..Len(r) : (q \o r)[Len(q) + i] = r[i]
  OBVIOUS
<1>2. ASSUME NEW i \in 1..Len(q \o r)
      PROVE  \/ i \in 1..Len(q) /\ (q \o r)[i] = q[i]
             \/ i - Len(q) \in 1..Len(r) /\ (q \o r)[i] = r[i - Len(q)]
  <2>1. CASE i <= Len(q) BY <1>1, <2>1
  <2>2. CASE i > Len(q)
    <3>1. i - Len(q) \in 1..Len(r) /\ Len(q) + (i - Len(q)) = i BY <1>1, <2>2
    <3> QED BY <1>1, <3>1
  <2> QED BY <1>1, <2>1, <2>2
<1>3. InOrder(q \o r)
  <2> SUFFICES ASSUME NEW i \in 1..Len(q \o r), NEW j \in 1..Len(q \o r), i < j
               PROVE  Rank((q \o r)[i]) < Rank((q \o r)[j])
    BY DEF InOrder
  <2>1. CASE i \in 1..Len(q) /\ j \in 1..Len(q) BY <1>1, <2>1 DEF InOrder
  <2>2. CASE i \in 1..Len(q) /\ j \notin 1..Len(q)
    <3>1. j - Len(q) \in 1..Len(r) /\ (q \o r)[j] = r[j - Len(q)] BY <1>2, <2>2
    <3>2. q[i] \in StagesOf(q) /\ r[j - Len(q)] \in StagesOf(r) BY <2>2, <3>1 DEF StagesOf
    <3> QED BY <1>1, <2>2, <3>1, <3>2
  <2>3. CASE i \notin 1..Len(q)
    <3>1. i - Len(q) \in 1..Len(r) /\ (q \o r)[i] = r[i - Len(q)] BY <1>2, <2>3
    <3>2. j \notin 1..Len(q) BY <1>1, <2>3
    <3>3. j - Len(q) \in 1..Len(r) /\ (q \o r)[j] = r[j - Len(q)] BY <1>2, <3>2
    <3>4. i - Len(q) < j - Len(q) BY <1>1
    <3> QED BY <3>1, <3>3, <3>4 DEF InOrder
  <2> QED BY <2>1, <2>2, <2>3
<1>4. StagesOf(q \o r) \subseteq StagesOf(q) \cup StagesOf(r) BY <1>2 DEF StagesOf
<1>5. StagesOf(q) \subseteq StagesOf(q \o r)
  <2>1. \A i \in 1..Len(q) : i \in 1..Len(q \o r) BY <1>1
  <2> QED BY <1>1, <2>1 DEF StagesOf
<1>6. StagesOf(r) \subseteq StagesOf(q \o r)
  <2>1. \A i \in 1..Len(r) : Len(q) + i \in 1..Len(q \o r) BY <1>1
  <2> QED BY <1>1, <2>1 DEF StagesOf
<1> QED BY <1>1, <1>3, <1>4, <1>5, <1>6

\* The pieces a command's stages are joined from.
LEMMA Pieces ==
    /\ <<>> \in Seq(Stages) /\ InOrder(<<>>) /\ StagesOf(<<>>) = {}
    /\ \A s \in Stages : <<s>> \in Seq(Stages) /\ InOrder(<<s>>) /\ StagesOf(<<s>>) = {s}
    /\ \A s, t \in Stages : Rank(s) < Rank(t) =>
         <<s, t>> \in Seq(Stages) /\ InOrder(<<s, t>>) /\ StagesOf(<<s, t>>) = {s, t}
<1>1. <<>> \in Seq(Stages) /\ InOrder(<<>>) /\ StagesOf(<<>>) = {} BY DEF InOrder, StagesOf
<1>2. ASSUME NEW s \in Stages
      PROVE  <<s>> \in Seq(Stages) /\ InOrder(<<s>>) /\ StagesOf(<<s>>) = {s}
  <2>1. Len(<<s>>) = 1 /\ <<s>>[1] = s /\ <<s>> \in Seq(Stages) OBVIOUS
  <2> HIDE DEF Stages
  <2> QED BY <2>1 DEF InOrder, StagesOf
<1>3. ASSUME NEW s \in Stages, NEW t \in Stages, Rank(s) < Rank(t)
      PROVE  <<s, t>> \in Seq(Stages) /\ InOrder(<<s, t>>) /\ StagesOf(<<s, t>>) = {s, t}
  <2>1. Len(<<s, t>>) = 2 /\ <<s, t>>[1] = s /\ <<s, t>>[2] = t /\ <<s, t>> \in Seq(Stages)
    OBVIOUS
  <2>2. \A i \in 1..Len(<<s, t>>) : i = 1 \/ i = 2 BY <2>1
  <2>3. 1 \in 1..Len(<<s, t>>) /\ 2 \in 1..Len(<<s, t>>) BY <2>1
  <2>4. InOrder(<<s, t>>) BY <1>3, <2>1, <2>2 DEF InOrder
  <2>5. StagesOf(<<s, t>>) = {s, t} BY <2>1, <2>2, <2>3 DEF StagesOf
  <2> QED BY <2>1, <2>4, <2>5
<1> QED BY <1>1, <1>2, <1>3

Ahead == StagesOf(dTodo)
Serving == dCommand \in {"up", "deploy"}

\* The stages left are those of the plan that follow; a new image is validated before a service
\* runs it, and every service of the plan is brought up after it.
PlanKept ==
    /\ InOrder(dTodo)
    /\ dCommand = "none" => Ahead = {}
    /\ dCommand = "build" => "app" \notin Ahead
    /\ "prepare" \in Ahead => "validate" \in Ahead
    /\ Serving /\ "prepare" \in Ahead => "app" \in Ahead /\ (dMail => "celery-worker" \in Ahead)

\* What has been done for the services that are left, and what the others run.
StagesDone ==
    /\ "app" \in Ahead /\ "validate" \notin Ahead => dTag \in Fitting
    /\ "app" \in Ahead /\ "celery-worker" \notin Ahead /\ dMail => dTag \in dProven
    /\ Serving /\ "app" \notin Ahead => dOn["app"] = dTag /\ dSchema >= dTag
    /\ Serving /\ "celery-worker" \notin Ahead /\ dMail => dOn["celery-worker"] = dTag

RolloutInv == Rollouts!TypeOK /\ PlanKept /\ StagesDone

\* A stage that is taken is the first of those ahead.
LEMMA FirstAhead ==
    ASSUME RolloutInv, NEW s, Rollouts!At(s)
    PROVE  /\ s \in Ahead /\ \A t \in Ahead : t = s \/ Rank(s) < Rank(t)
           /\ Tail(dTodo) \in Seq(Stages) /\ InOrder(Tail(dTodo))
           /\ StagesOf(Tail(dTodo)) = Ahead \ {s}
           /\ dCommand \in {"build", "up", "deploy"}
<1>1. dTodo \in Seq(Stages) /\ InOrder(dTodo) /\ dTodo # <<>> /\ Head(dTodo) = s
  BY DEF RolloutInv, PlanKept, Rollouts!TypeOK, Stages, Rollouts!At
<1>2. dCommand # "none" BY <1>1, TailInOrder DEF RolloutInv, PlanKept, Ahead
<1> QED BY <1>1, <1>2, TailInOrder DEF Ahead, RolloutInv, Rollouts!TypeOK

\* The stages of a command.
LEMMA Planned ==
    ASSUME RolloutInv, NEW c \in {"build", "up", "deploy"}, Rollouts!Begin(c)
    PROVE  /\ dTodo' \in Seq(Stages) /\ InOrder(dTodo')
           /\ Ahead' = {"prepare", "validate"}
                  \cup (IF c = "build" THEN {}
                        ELSE {"data", "app", "caddy"} \cup (IF dMail THEN {"celery-worker"} ELSE {}))
                  \cup (IF c = "deploy" THEN {"smoke"} ELSE {})
<1> DEFINE image == <<"prepare", "validate">>
           worker == IF dMail THEN <<"celery-worker">> ELSE <<>>
           served == IF c = "build" THEN <<>> ELSE Rollouts!services(dMail)
           last == IF c = "deploy" THEN <<"smoke">> ELSE <<>>
<1>1. dTodo' = (image \o served) \o last BY DEF Rollouts!Begin
<1>2. \A s \in {"prepare", "validate", "data", "celery-worker", "app", "caddy", "smoke"} : s \in Stages
  BY DEF Stages, Rollouts!Services
<1>3. image \in Seq(Stages) /\ InOrder(image) /\ StagesOf(image) = {"prepare", "validate"}
  BY <1>2, Pieces DEF Rank
<1>4. /\ last \in Seq(Stages) /\ InOrder(last)
      /\ StagesOf(last) = IF c = "deploy" THEN {"smoke"} ELSE {}
  BY <1>2, Pieces
<1>5. /\ worker \in Seq(Stages) /\ InOrder(worker)
      /\ StagesOf(worker) = IF dMail THEN {"celery-worker"} ELSE {}
  BY <1>2, Pieces
<1>6. /\ served \in Seq(Stages) /\ InOrder(served)
      /\ StagesOf(served) = IF c = "build" THEN {}
              ELSE {"data", "app", "caddy"} \cup (IF dMail THEN {"celery-worker"} ELSE {})
  <2>1. CASE c = "build" BY <2>1, Pieces
  <2>2. CASE c # "build"
    <3> DEFINE data == <<"data">>  api == <<"app", "caddy">>
    <3>1. served = (data \o worker) \o api BY <2>2 DEF Rollouts!services
    <3>2. /\ data \in Seq(Stages) /\ InOrder(data) /\ StagesOf(data) = {"data"}
          /\ api \in Seq(Stages) /\ InOrder(api) /\ StagesOf(api) = {"app", "caddy"}
      BY <1>2, Pieces DEF Rank
    <3> HIDE DEF data, api, worker, served
    <3>3. /\ data \o worker \in Seq(Stages) /\ InOrder(data \o worker)
          /\ StagesOf(data \o worker) = {"data"} \cup (IF dMail THEN {"celery-worker"} ELSE {})
      <4>1. \A s \in StagesOf(data), t \in StagesOf(worker) : Rank(s) < Rank(t)
        BY <1>5, <3>2 DEF Rank
      <4> QED BY <1>5, <3>2, <4>1, JoinedInOrder
    <3>4. \A s \in StagesOf(data \o worker), t \in StagesOf(api) : Rank(s) < Rank(t)
      BY <3>2, <3>3 DEF Rank
    <3>5. /\ (data \o worker) \o api \in Seq(Stages) /\ InOrder((data \o worker) \o api)
          /\ StagesOf((data \o worker) \o api) = StagesOf(data \o worker) \cup StagesOf(api)
      BY <3>2, <3>3, <3>4, JoinedInOrder
    <3> QED BY <2>2, <3>1, <3>2, <3>3, <3>5
  <2> QED BY <2>1, <2>2
<1> HIDE DEF image, served, last
<1>7. /\ image \o served \in Seq(Stages) /\ InOrder(image \o served)
      /\ StagesOf(image \o served) = StagesOf(image) \cup StagesOf(served)
  <2>1. \A s \in StagesOf(image), t \in StagesOf(served) : Rank(s) < Rank(t)
    BY <1>3, <1>6 DEF Rank
  <2> QED BY <1>3, <1>6, <2>1, JoinedInOrder
<1>8. /\ (image \o served) \o last \in Seq(Stages) /\ InOrder((image \o served) \o last)
      /\ StagesOf((image \o served) \o last) = StagesOf(image \o served) \cup StagesOf(last)
  <2>1. \A s \in StagesOf(image \o served), t \in StagesOf(last) : Rank(s) < Rank(t)
    BY <1>3, <1>4, <1>6, <1>7 DEF Rank
  <2> QED BY <1>4, <1>7, <2>1, JoinedInOrder
<1> QED BY <1>1, <1>3, <1>4, <1>6, <1>7, <1>8 DEF Ahead

\* A service that is brought up, or does not answer in time.
LEMMA Brings ==
    ASSUME RolloutInv, NEW s \in Rollouts!Services, Rollouts!Bring(s) \/ Rollouts!BringFails(s)
    PROVE  /\ Rollouts!At(s) /\ UNCHANGED <<dMail, dTag>>
           /\ dOn' \in [Rollouts!Services -> Releases \cup {0}]
           /\ s # "data" => dOn'[s] = dTag
           /\ s = "data" /\ dOn[s] # 0 => dOn'[s] = dOn[s]
           /\ \A t \in Rollouts!Services \ {s} : dOn'[t] = dOn[t]
           /\ dSchema' \in Releases \cup {0} /\ dSchema' >= dSchema
<1> USE RolloutsAssumption DEF RolloutInv, Rollouts!TypeOK
<1>1. /\ Rollouts!At(s) /\ UNCHANGED <<dMail, dTag>>
      /\ dOn' = [dOn EXCEPT ![s] = Rollouts!Created(s)]
      /\ dSchema' \in {dSchema, Rollouts!Migrated(s)}
  BY DEF Rollouts!Bring, Rollouts!BringFails
<1>2. Rollouts!Created(s) \in Releases \cup {0} BY DEF Rollouts!Created
<1>3. Rollouts!Migrated(s) \in Releases \cup {0} /\ Rollouts!Migrated(s) >= dSchema
  BY DEF Rollouts!Migrated
<1> QED BY <1>1, <1>2, <1>3 DEF Rollouts!Created

\* Every step keeps the invariant.
LEMMA RolloutStep == RolloutInv /\ [Rollouts!Next]_dVars => RolloutInv'
<1> SUFFICES ASSUME RolloutInv, [Rollouts!Next]_dVars PROVE RolloutInv' OBVIOUS
<1> USE DEF PlanKept, StagesDone, Serving
<1>0. /\ Rollouts!TypeOK /\ PlanKept /\ StagesDone
      /\ \A s \in Rollouts!Services : s \in Stages
  BY DEF RolloutInv, Stages
<1>1. ASSUME NEW c \in {"build", "up", "deploy"}, Rollouts!Begin(c) PROVE RolloutInv'
  <2>1. /\ dCommand' = c /\ UNCHANGED <<dMail, dTag, dOn, dUp, dSchema, dProven>>
    BY <1>1 DEF Rollouts!Begin
  <2>2. dTodo' \in Seq(Stages) /\ InOrder(dTodo') BY <1>1, Planned
  <2>3. /\ "validate" \in Ahead' /\ (c = "build" => "app" \notin Ahead')
        /\ c # "build" => "app" \in Ahead' /\ (dMail => "celery-worker" \in Ahead')
    BY <1>1, Planned
  <2>4. ~dMail \/ "app" \notin Ahead' \/ "celery-worker" \in Ahead' BY <2>3
  <2>5. Rollouts!TypeOK' BY <1>0, <2>1, <2>2 DEF Rollouts!TypeOK, Stages
  <2> QED BY <1>0, <2>1, <2>2, <2>3, <2>4, <2>5 DEF RolloutInv
<1>2. ASSUME NEW s, Rollouts!At(s), Rollouts!Advance
      PROVE  /\ dTodo' \in Seq(Stages) /\ InOrder(dTodo') /\ Ahead' = Ahead \ {s} /\ s \in Ahead
             /\ \A t \in Ahead : t = s \/ Rank(s) < Rank(t)
             /\ dCommand' = dCommand /\ dCommand \in {"build", "up", "deploy"}
  <2>1. dTodo' = Tail(dTodo) /\ dCommand' = dCommand BY <1>2 DEF Rollouts!Advance
  <2>2. StagesOf(dTodo') = Ahead \ {s} BY <1>2, <2>1, FirstAhead
  <2> QED BY <1>2, <2>1, <2>2, FirstAhead DEF Ahead
<1>3. CASE Rollouts!Prepare
  <2>1. /\ Rollouts!At("prepare") /\ Rollouts!Advance
        /\ dTag' \in Releases /\ UNCHANGED <<dMail, dOn, dUp, dSchema, dProven>>
    BY <1>0, <1>3 DEF Rollouts!Prepare, Rollouts!TypeOK
  <2>2. Rollouts!TypeOK' BY <1>0, <1>2, <2>1 DEF Rollouts!TypeOK, Stages
  <2>3. /\ dTodo' \in Seq(Stages) /\ InOrder(dTodo') /\ Ahead' = Ahead \ {"prepare"}
        /\ "prepare" \in Ahead /\ dCommand' = dCommand /\ dCommand \in {"build", "up", "deploy"}
    BY <1>2, <2>1
  <2>4. "validate" \in Ahead' /\ (Serving => "app" \in Ahead' /\ (dMail => "celery-worker" \in Ahead'))
    BY <1>0, <2>3
  <2>5. dCommand = "build" => "app" \notin Ahead' BY <1>0, <2>3
  <2> QED BY <2>1, <2>2, <2>3, <2>4, <2>5 DEF RolloutInv
<1>4. CASE Rollouts!Validate
  <2>1. /\ Rollouts!At("validate") /\ Rollouts!Advance /\ dTag \in Fitting
        /\ UNCHANGED <<dMail, dTag, dOn, dUp, dSchema, dProven>>
    BY <1>4 DEF Rollouts!Validate, Rollouts!ImageAccepts
  <2>2. Rollouts!TypeOK' BY <1>0, <1>2, <2>1 DEF Rollouts!TypeOK, Stages
  <2>3. /\ InOrder(dTodo') /\ Ahead' = Ahead \ {"validate"}
        /\ \A t \in Ahead : t = "validate" \/ Rank("validate") < Rank(t)
        /\ dCommand' = dCommand /\ dCommand \in {"build", "up", "deploy"}
    BY <1>2, <2>1
  <2>4. "prepare" \notin Ahead BY <2>3 DEF Rank
  <2> QED BY <1>0, <2>1, <2>2, <2>3, <2>4 DEF RolloutInv
<1>5. CASE Rollouts!Smoke
  <2>1. /\ Rollouts!At("smoke") /\ Rollouts!Advance
        /\ UNCHANGED <<dMail, dTag, dOn, dUp, dSchema, dProven>>
    BY <1>5 DEF Rollouts!Smoke
  <2>2. Rollouts!TypeOK' BY <1>0, <1>2, <2>1 DEF Rollouts!TypeOK, Stages
  <2>3. /\ InOrder(dTodo') /\ Ahead' = Ahead \ {"smoke"}
        /\ dCommand' = dCommand /\ dCommand \in {"build", "up", "deploy"}
    BY <1>2, <2>1
  <2> QED BY <1>0, <2>1, <2>2, <2>3 DEF RolloutInv
<1>6. ASSUME dTodo' = <<>>, dCommand' = "none", UNCHANGED <<dMail, dTag>>,
             dUp' \subseteq Rollouts!Services, dProven' \subseteq Releases,
             dOn' \in [Rollouts!Services -> Releases \cup {0}], dSchema' \in Releases \cup {0}
      PROVE  RolloutInv'
  <2>1. InOrder(dTodo') /\ Ahead' = {} BY <1>6, Pieces DEF Ahead
  <2>2. Rollouts!TypeOK' BY <1>0, <1>6 DEF Rollouts!TypeOK
  <2> QED BY <1>6, <2>1, <2>2 DEF RolloutInv
<1>7. CASE Rollouts!Abort \/ Rollouts!Complete
  BY <1>0, <1>6, <1>7 DEF Rollouts!Abort, Rollouts!Complete, Rollouts!TypeOK
<1>8. ASSUME NEW s \in Rollouts!Services, Rollouts!BringFails(s) PROVE RolloutInv'
  <2>1. /\ dTodo' = <<>> /\ dCommand' = "none" /\ dUp' = dUp \ {s} /\ UNCHANGED dProven
    BY <1>8 DEF Rollouts!BringFails
  <2> QED BY <1>0, <1>6, <1>8, <2>1, Brings DEF Rollouts!TypeOK
<1>9. ASSUME NEW s \in Rollouts!Services, Rollouts!Bring(s) PROVE RolloutInv'
  <2>1. /\ Rollouts!At(s) /\ Rollouts!Advance /\ dUp' = dUp \cup {s}
        /\ dSchema' = Rollouts!Migrated(s)
        /\ dProven' = IF s = "celery-worker" THEN dProven \cup {dTag} ELSE dProven
    BY <1>9 DEF Rollouts!Bring
  <2>2. /\ UNCHANGED <<dMail, dTag>> /\ dOn' \in [Rollouts!Services -> Releases \cup {0}]
        /\ s # "data" => dOn'[s] = dTag
        /\ \A t \in Rollouts!Services \ {s} : dOn'[t] = dOn[t]
        /\ dSchema' \in Releases \cup {0} /\ dSchema' >= dSchema
    BY <1>9, Brings
  <2>3. Rollouts!TypeOK'
    BY <1>0, <1>2, <2>1, <2>2 DEF Rollouts!TypeOK, Stages
  <2>4. /\ InOrder(dTodo') /\ Ahead' = Ahead \ {s} /\ s \in Ahead
        /\ \A t \in Ahead : t = s \/ Rank(s) < Rank(t)
        /\ dCommand' = dCommand /\ dCommand \in {"build", "up", "deploy"}
    BY <1>2, <2>1
  <2>5. "prepare" \notin Ahead /\ "validate" \notin Ahead
    BY <2>4 DEF Rank, Rollouts!Services
  <2>6. "app" \in Rollouts!Services /\ "celery-worker" \in Rollouts!Services
    BY DEF Rollouts!Services
  <2>7. s = "app" => dSchema' >= dTag
    BY <1>0, <2>1, RolloutsAssumption DEF Rollouts!Migrated, Rollouts!TypeOK
  <2>8. dSchema \in Nat /\ dSchema' \in Nat /\ dTag \in Nat
    BY <1>0, <2>2, RolloutsAssumption DEF Rollouts!TypeOK
  <2>9. PlanKept' BY <1>0, <2>2, <2>4, <2>5
  <2>10. StagesDone'
    <3>1. CASE s = "app" BY <1>0, <2>1, <2>2, <2>4, <2>5, <2>6, <2>7, <3>1
    <3>2. CASE s = "celery-worker" BY <1>0, <2>1, <2>2, <2>4, <2>5, <2>6, <2>8, <3>2
    <3>3. CASE s \notin {"app", "celery-worker"}
      BY <1>0, <2>1, <2>2, <2>4, <2>5, <2>6, <2>8, <3>3
    <3> QED BY <3>1, <3>2, <3>3
  <2> QED BY <2>3, <2>9, <2>10 DEF RolloutInv
<1>10. ASSUME NEW s \in Rollouts!Services, Rollouts!Flap(s) PROVE RolloutInv'
  <2>1. /\ UNCHANGED <<dCommand, dTodo, dMail, dTag, dOn, dSchema, dProven>>
        /\ dUp' \subseteq Rollouts!Services
    BY <1>0, <1>10 DEF Rollouts!Flap, Rollouts!TypeOK
  <2> QED BY <1>0, <2>1 DEF RolloutInv, Rollouts!TypeOK, Ahead
<1>11. CASE Rollouts!Configure
  <2>1. /\ dCommand = "none" /\ UNCHANGED <<dCommand, dTodo, dTag, dOn, dUp, dSchema, dProven>>
        /\ dMail' \in BOOLEAN
    BY <1>11 DEF Rollouts!Configure
  <2>2. Ahead' = Ahead BY <2>1 DEF Ahead
  <2>3. Rollouts!TypeOK' BY <1>0, <2>1 DEF Rollouts!TypeOK
  <2> QED BY <1>0, <2>1, <2>2, <2>3 DEF RolloutInv
<1>12. CASE UNCHANGED dVars
  BY <1>0, <1>12 DEF dVars, RolloutInv, Rollouts!TypeOK, Ahead
<1> QED
  BY <1>1, <1>3, <1>4, <1>5, <1>7, <1>8, <1>9, <1>10, <1>11, <1>12 DEF Rollouts!Next

\* The invariant holds in every state.
LEMMA RolloutInvariance == AllSpec => []RolloutInv
<1>1. ASSUME Rollouts!Init PROVE RolloutInv
  <2>1. InOrder(dTodo) /\ Ahead = {} BY <1>1, Pieces DEF Rollouts!Init, Ahead
  <2> QED
    BY <1>1, <2>1 DEF Rollouts!Init, RolloutInv, Rollouts!TypeOK, PlanKept, StagesDone, Serving
<1>2. AllInit => RolloutInv BY <1>1 DEF AllInit
<1>3. RolloutInv /\ [AllNext]_allVars => RolloutInv' BY PartSteps, RolloutStep
<1> QED BY <1>2, <1>3, PTL DEF AllSpec

\* Whatever fails, flaps or is aborted in between: the API moves only to a release whose Settings
\* accept the environment and whose worker, with mail, has answered; a command other than build
\* that completes leaves the API on the release it prepared, the schema no older than that and,
\* with mail, the worker on the same; and the data's containers are not recreated.
THEOREM RolloutSafeHolds == AllSpec => RolloutSafe
<1> DEFINE Safe ==
      /\ dOn'["app"] # dOn["app"] => dOn'["app"] \in Fitting /\ (dMail => dOn'["app"] \in dProven)
      /\ dOn["data"] # 0 => dOn'["data"] = dOn["data"]
      /\ (Rollouts!Complete /\ dCommand # "build") =>
            dOn["app"] = dTag /\ dSchema >= dTag /\ (dMail => dOn["celery-worker"] = dTag)
<1>1. RolloutInv /\ [AllNext]_allVars => [Safe]_dVars
  <2> SUFFICES ASSUME RolloutInv, Rollouts!Next PROVE Safe BY PartSteps
  <2>1. \/ UNCHANGED dOn
        \/ \E s \in Rollouts!Services : Rollouts!Bring(s) \/ Rollouts!BringFails(s)
    BY DEF Rollouts!Next, Rollouts!Begin, Rollouts!Prepare, Rollouts!Validate, Rollouts!Smoke,
           Rollouts!Abort, Rollouts!Complete, Rollouts!Configure, Rollouts!Flap
  <2>2. {"app", "data", "celery-worker"} \subseteq Rollouts!Services BY DEF Rollouts!Services
  <2>3. ASSUME NEW s \in Rollouts!Services, Rollouts!Bring(s) \/ Rollouts!BringFails(s)
        PROVE  /\ dOn'["app"] # dOn["app"] =>
                    dOn'["app"] \in Fitting /\ (dMail => dOn'["app"] \in dProven)
               /\ dOn["data"] # 0 => dOn'["data"] = dOn["data"]
    <3>1. dOn["data"] # 0 => dOn'["data"] = dOn["data"] BY <2>2, <2>3, Brings
    <3>2. CASE s # "app"
      <4>1. dOn'["app"] = dOn["app"] BY <2>2, <2>3, <3>2, Brings
      <4> QED BY <3>1, <4>1
    <3>3. CASE s = "app"
      <4>1. Rollouts!At("app") /\ dOn'["app"] = dTag BY <2>3, <3>3, Brings
      <4>2. "app" \in Ahead /\ \A t \in Ahead : t = "app" \/ Rank("app") < Rank(t)
        BY <4>1, FirstAhead
      <4>3. "validate" \notin Ahead /\ "celery-worker" \notin Ahead BY <4>2 DEF Rank
      <4>4. dTag \in Fitting /\ (dMail => dTag \in dProven)
        BY <4>2, <4>3 DEF RolloutInv, StagesDone
      <4> QED BY <3>1, <4>1, <4>4
    <3> QED BY <3>2, <3>3
  <2>4. ASSUME Rollouts!Complete, dCommand # "build"
        PROVE  /\ dOn["app"] = dTag /\ dSchema >= dTag
               /\ dMail => dOn["celery-worker"] = dTag
    <3>1. Ahead = {} BY <2>4, Pieces DEF Rollouts!Complete, Ahead
    <3>2. Serving BY <2>4 DEF Rollouts!Complete, RolloutInv, Rollouts!TypeOK, Serving
    <3> QED BY <3>1, <3>2 DEF RolloutInv, StagesDone
  <2> QED BY <2>1, <2>3, <2>4
<1>2. AllSpec => [][Safe]_dVars BY <1>1, RolloutInvariance, PTL DEF AllSpec
<1> QED BY <1>2 DEF RolloutSafe, Rollouts!RolloutSafe, dVars, Rollouts!vars
-----------------------------------------------------------------------------
\* Inbox: the summary's latest id, which the inductive invariant above says nothing of.

\* A set of ids has a largest one.
LEMMA LargestExists ==
    ASSUME NEW n \in Nat, NEW S \in SUBSET (0..n), S # {}
    PROVE  \E x \in S : \A y \in S : x >= y
<1> DEFINE R == OpToRel(<, Nat)
           T == {n - x : x \in S}
<1>0. \A x \in S : x \in Nat /\ n - x \in Nat OBVIOUS
<1>1. T \subseteq Nat /\ T # {} BY <1>0
<1>2. PICK t \in T : \A u \in T : <<u, t>> \notin R
  BY <1>1, NatLessThanWellFounded, WFMin
<1>3. PICK x \in S : t = n - x OBVIOUS
<1>4. ASSUME NEW y \in S PROVE x >= y
  <2>1. n - y \in T /\ n - y \in Nat /\ t \in Nat BY <1>0, <1>1
  <2>2. <<n - y, t>> \notin R BY <1>2, <2>1
  <2>3. ~(n - y < t) BY <2>1, <2>2 DEF OpToRel
  <2> QED BY <1>0, <1>3, <2>3
<1> QED BY <1>4

ThroughOK == nThrough \in Notices!Ids \cup {0}

\* The summary has the largest id of a visible notification.
LEMMA ThroughStep == ThroughOK /\ [Notices!Next]_nVars => ThroughOK'
<1> SUFFICES ASSUME ThroughOK, [Notices!Next]_nVars PROVE ThroughOK' OBVIOUS
<1>1. CASE Notices!Summary
  <2> DEFINE S == Notices!Visible \cup {0}
  <2>1. S \in SUBSET (0..MaxId) /\ S # {}
    BY NoticesAssumption DEF Notices!Visible, Notices!Ids
  <2>2. \E x \in S : \A y \in S : x >= y BY <2>1, LargestExists, NoticesAssumption
  <2>3. Notices!Max(S) \in S BY <2>2 DEF Notices!Max
  <2>4. nThrough' \in S BY <1>1, <2>3 DEF Notices!Summary
  <2> QED BY <2>1, <2>4, NoticesAssumption DEF ThroughOK, Notices!Ids
<1>2. ASSUME NEW p \in Producers, Notices!Insert(p) \/ Notices!Commit(p) \/ Notices!Rollback(p)
      PROVE  nThrough' = nThrough
  BY <1>2 DEF Notices!Insert, Notices!Commit, Notices!Rollback, Notices!page
<1>3. CASE Notices!Read \/ Notices!Delete \/ Notices!ReadAll
  BY <1>3 DEF Notices!Read, Notices!Delete, Notices!ReadAll, Notices!Change, Notices!page, ThroughOK
<1>4. ASSUME NEW a \in Notices!Actors, Notices!Publish(a) \/ Notices!Lose(a)
      PROVE  nThrough' = nThrough
  BY <1>4 DEF Notices!Publish, Notices!Lose, Notices!page
<1>5. CASE Notices!Connect \/ Notices!Disconnect \/ Notices!Refetch \/ Notices!List
  BY <1>5 DEF Notices!Connect, Notices!Disconnect, Notices!Refetch, Notices!List, Notices!page,
     ThroughOK
<1>6. CASE UNCHANGED nVars BY <1>6 DEF nVars, ThroughOK
<1> QED BY <1>1, <1>2, <1>3, <1>4, <1>5, <1>6 DEF Notices!Next, ThroughOK

LEMMA ThroughInvariance == AllSpec => []ThroughOK
<1>1. AllInit => ThroughOK BY DEF AllInit, Notices!Init, ThroughOK
<1>2. ThroughOK /\ [AllNext]_allVars => ThroughOK' BY PartSteps, ThroughStep
<1> QED BY <1>1, <1>2, PTL DEF AllSpec
-----------------------------------------------------------------------------
\* Reconcile: the order of the last syncs has every customer, and a run no more than its limit.

SnapshotInv ==
    /\ rVersion \in [Customers -> 0..MaxVersion] /\ rSnap \in [Customers -> 0..MaxVersion]
    /\ rSynced \in Seq(Customers) /\ \A c \in Customers : \E i \in 1..Len(rSynced) : rSynced[i] = c
    /\ rBatch \in Seq(Customers) /\ Len(rBatch) <= BatchLimit

\* The enumeration of a finite set is one.
LEMMA Enumerates ==
    LET s == Snapshots!SetToSeq(Customers)
    IN  s \in Seq(Customers) /\ \A c \in Customers : \E i \in 1..Len(s) : s[i] = c
<1> DEFINE n == Cardinality(Customers)
           s == Snapshots!SetToSeq(Customers)
<1>1. n \in Nat /\ ExistsBijection(1..n, Customers)
  BY SnapshotsAssumption, FS_CardinalityType
<1>2. PICK f : f \in Bijection(1..n, Customers) BY <1>1 DEF ExistsBijection
<1>3. f \in [1..n -> Customers] /\ Snapshots!IsInjective(f)
  BY <1>2 DEF Bijection, Injection, IsInjective, Snapshots!IsInjective
<1>4. Snapshots!Cardinality(Customers) = n BY DEF Snapshots!Cardinality, Cardinality
<1>5. s \in [1..n -> Customers] /\ Snapshots!IsInjective(s)
  BY <1>3, <1>4 DEF Snapshots!SetToSeq
<1>6. s \in Injection(1..n, Customers)
  BY <1>5 DEF Injection, IsInjective, Snapshots!IsInjective
<1>7. IsFiniteSet(1..n) /\ Cardinality(1..n) = n BY <1>1, FS_Interval
<1>8. s \in Surjection(1..n, Customers)
  BY <1>6, <1>7, FS_Injection, SnapshotsAssumption
<1>9. Len(s) = n /\ s \in Seq(Customers) BY <1>1, <1>5
<1> HIDE DEF s, n
<1>10. \A c \in Customers : \E i \in 1..Len(s) : s[i] = c BY <1>8, <1>9 DEF Surjection
<1> QED BY <1>9, <1>10 DEF s

\* A customer that is moved to the end is moved, and no other is lost.
LEMMA MovedToEnd ==
    ASSUME NEW s \in Seq(Customers), NEW i \in 1..Len(s), NEW c \in Customers, s[i] = c,
           \A d \in Customers : \E j \in 1..Len(s) : s[j] = d
    PROVE  LET t == Append(Snapshots!RemoveAt(s, i), c)
           IN  t \in Seq(Customers) /\ \A d \in Customers : \E j \in 1..Len(t) : t[j] = d
<1> DEFINE t == Append(Snapshots!RemoveAt(s, i), c)
           u == SubSeq(s, 1, i - 1)
           v == SubSeq(s, i + 1, Len(s))
           r == u \o v
<1>1. \A j \in 1..Len(s) : s[j] \in Customers BY ElementOfSeq
<1>2. Len(s) \in Nat /\ i \in Int /\ i - 1 \in Int /\ i + 1 \in Int OBVIOUS
<1>3. /\ u \in Seq(Customers) /\ Len(u) = i - 1
      /\ \A j \in 1..(i - 1) : u[j] = s[j]
  <2>1. \A j \in 1..(i - 1) : s[j] \in Customers BY <1>1, <1>2
  <2>2. /\ u \in Seq(Customers) /\ Len(u) = (IF 1 <= i - 1 THEN i - 1 - 1 + 1 ELSE 0)
        /\ \A j \in 1..(i - 1 - 1 + 1) : u[j] = s[1 + j - 1]
    BY <1>2, <2>1, SubSeqProperties
  <2> QED BY <1>2, <2>2
<1>4. /\ v \in Seq(Customers) /\ Len(v) = Len(s) - i
      /\ \A j \in 1..(Len(s) - i) : v[j] = s[i + j]
  <2> DEFINE a == i + 1
             b == Len(s)
             w == SubSeq(s, a, b)
  <2>1. a \in Int /\ b \in Int /\ \A j \in a..b : s[j] \in Customers BY <1>1, <1>2
  <2> HIDE DEF a, b
  <2>2. /\ w \in Seq(Customers) /\ Len(w) = (IF a <= b THEN b - a + 1 ELSE 0)
        /\ \A j \in 1..(b - a + 1) : w[j] = s[a + j - 1]
    BY <2>1, SubSeqProperties
  <2> HIDE DEF w
  <2>3. b - a + 1 = Len(s) - i /\ (a <= b <=> i < Len(s)) /\ i <= Len(s) BY <1>2 DEF a, b
  <2>4. \A j \in 1..(Len(s) - i) : a + j - 1 = i + j BY <1>2 DEF a
  <2>5. Len(w) = Len(s) - i BY <1>2, <2>2, <2>3
  <2>6. v = w BY DEF v, w, a, b
  <2> HIDE DEF v
  <2> QED BY <2>2, <2>3, <2>4, <2>5, <2>6
<1> HIDE DEF u, v
<1>5. /\ r \in Seq(Customers) /\ Len(r) = Len(s) - 1
      /\ \A j \in 1..(Len(s) - 1) : r[j] = IF j <= i - 1 THEN u[j] ELSE v[j - (i - 1)]
  <2>1. Len(u) + Len(v) = Len(s) - 1 BY <1>2, <1>3, <1>4
  <2> HIDE DEF r
  <2>2. /\ r \in Seq(Customers) /\ Len(r) = Len(u) + Len(v)
        /\ \A j \in 1..(Len(u) + Len(v)) : r[j] = IF j <= Len(u) THEN u[j] ELSE v[j - Len(u)]
    BY <1>3, <1>4, ConcatProperties DEF r
  <2>3. \A j \in 1..(Len(s) - 1) : r[j] = IF j <= i - 1 THEN u[j] ELSE v[j - (i - 1)]
    BY <1>3, <2>1, <2>2
  <2> QED BY <2>1, <2>2, <2>3
<1>6. t = Append(r, c) BY DEF Snapshots!RemoveAt, u, v, r, t
<1> HIDE DEF r, t
<1>7. t \in Seq(Customers) /\ Len(t) = Len(s) /\ t[Len(s)] = c
      /\ \A j \in 1..(Len(s) - 1) : t[j] = r[j]
  BY <1>2, <1>5, <1>6
<1>8. ASSUME NEW d \in Customers PROVE \E j \in 1..Len(t) : t[j] = d
  <2>1. PICK j \in 1..Len(s) : s[j] = d OBVIOUS
  <2>2. CASE j = i
    <3>1. Len(s) \in 1..Len(t) /\ t[Len(s)] = d BY <1>2, <1>7, <2>1, <2>2
    <3> QED BY <3>1
  <2>3. CASE j < i
    <3>1. j \in 1..(Len(s) - 1) /\ j <= i - 1 /\ j \in 1..(i - 1) BY <1>2, <2>3
    <3> QED BY <1>2, <1>3, <1>5, <1>7, <2>1, <3>1
  <2>4. CASE j > i
    <3> DEFINE k == j - 1
    <3>1. k \in 1..(Len(s) - 1) /\ ~(k <= i - 1) /\ k - (i - 1) = j - i /\ j - i \in 1..(Len(s) - i)
          /\ i + (j - i) = j
      BY <1>2, <2>4
    <3>2. t[k] = v[j - i] BY <1>5, <1>7, <3>1
    <3>3. t[k] = d BY <1>4, <2>1, <3>1, <3>2
    <3>4. k \in 1..Len(t) BY <1>2, <1>7, <3>1
    <3> QED BY <3>3, <3>4
  <2>5. j < i \/ j = i \/ j > i BY <1>2
  <2> QED BY <2>2, <2>3, <2>4, <2>5
<1> QED BY <1>7, <1>8 DEF t

LEMMA SnapshotStep == SnapshotInv /\ [Snapshots!Next]_rVars => SnapshotInv'
<1> SUFFICES ASSUME SnapshotInv, [Snapshots!Next]_rVars PROVE SnapshotInv' OBVIOUS
<1> USE SnapshotsAssumption DEF SnapshotInv
<1>1. CASE Snapshots!Change
  <2>1. PICK c \in Customers : rVersion[c] < MaxVersion /\ rVersion' = [rVersion EXCEPT ![c] = @ + 1]
    BY <1>1 DEF Snapshots!Change
  <2>0. MaxVersion \in Nat /\ rVersion[c] \in 0..MaxVersion OBVIOUS
  <2> HIDE SnapshotsAssumption DEF SnapshotInv
  <2>2. rVersion[c] + 1 \in 0..MaxVersion BY <2>0, <2>1
  <2> USE SnapshotsAssumption DEF SnapshotInv
  <2>3. rVersion' \in [Customers -> 0..MaxVersion] BY <2>1, <2>2
  <2> QED BY <1>1, <2>3 DEF Snapshots!Change
<1>2. CASE Snapshots!Start
  <2> DEFINE n == IF Len(rSynced) < BatchLimit THEN Len(rSynced) ELSE BatchLimit
  <2>1. Len(rSynced) \in Nat /\ n \in 0..Len(rSynced) /\ n <= BatchLimit OBVIOUS
  <2>2. \A i \in 1..n : rSynced[i] \in Customers BY <2>1, ElementOfSeq
  <2>3. rBatch' = SubSeq(rSynced, 1, n) BY <1>2 DEF Snapshots!Start, Snapshots!Oldest
  <2> HIDE DEF n
  <2>4. rBatch' \in Seq(Customers) /\ Len(rBatch') = (IF 1 <= n THEN n - 1 + 1 ELSE 0)
    BY <2>1, <2>2, <2>3, SubSeqProperties
  <2>5. Len(rBatch') <= BatchLimit BY <2>1, <2>4
  <2>6. UNCHANGED <<rVersion, rSnap, rSynced>> BY <1>2 DEF Snapshots!Start
  <2> QED BY <2>4, <2>5, <2>6
<1>3. ASSUME NEW c \in Customers, Snapshots!Sync(c) PROVE SnapshotInv'
  <2>1. /\ rBatch # <<>> /\ rBatch' = Tail(rBatch) /\ rVersion' = rVersion
    BY <1>3 DEF Snapshots!Sync
  <2>2. rBatch' \in Seq(Customers) /\ Len(rBatch') <= BatchLimit
    <3>1. Tail(rBatch) \in Seq(Customers) /\ Len(Tail(rBatch)) = Len(rBatch) - 1
      BY <2>1, HeadTailProperties
    <3> QED BY <2>1, <3>1
  <2>3. CASE c \in Broken BY <1>3, <2>1, <2>2, <2>3 DEF Snapshots!Sync
  <2>4. CASE c \notin Broken
    <3>1. rSnap' = [rSnap EXCEPT ![c] = rVersion[c]] BY <1>3, <2>4 DEF Snapshots!Sync
    <3>2. PICK i \in 1..Len(rSynced) :
            rSynced[i] = c /\ rSynced' = Append(Snapshots!RemoveAt(rSynced, i), c)
      BY <1>3, <2>4 DEF Snapshots!Sync
    <3>3. rSynced' \in Seq(Customers)
          /\ \A d \in Customers : \E j \in 1..Len(rSynced') : rSynced'[j] = d
      <4>1. /\ rSynced \in Seq(Customers) /\ i \in 1..Len(rSynced) /\ rSynced[i] = c
            /\ \A d \in Customers : \E j \in 1..Len(rSynced) : rSynced[j] = d
        BY <3>2
      <4> HIDE SnapshotsAssumption DEF SnapshotInv
      <4> QED BY <1>3, <3>2, <4>1, MovedToEnd
    <3> QED BY <2>1, <2>2, <3>1, <3>3
  <2> QED BY <2>3, <2>4
<1>4. CASE Snapshots!Crash
  <2>1. rBatch' = <<>> /\ Len(<<>>) = 0 /\ <<>> \in Seq(Customers)
    BY <1>4, EmptySeq DEF Snapshots!Crash
  <2>2. Len(rBatch') <= BatchLimit BY <2>1
  <2> QED BY <1>4, <2>1, <2>2 DEF Snapshots!Crash
<1>5. CASE UNCHANGED rVars BY <1>5 DEF rVars
<1> QED BY <1>1, <1>2, <1>3, <1>4, <1>5 DEF Snapshots!Next

LEMMA SnapshotInvariance == AllSpec => []SnapshotInv
<1>1. ASSUME Snapshots!Init PROVE SnapshotInv
  BY <1>1, Enumerates, SnapshotsAssumption DEF Snapshots!Init, SnapshotInv
<1>2. AllInit => SnapshotInv BY <1>1 DEF AllInit
<1>3. SnapshotInv /\ [AllNext]_allVars => SnapshotInv' BY PartSteps, SnapshotStep
<1> QED BY <1>2, <1>3, PTL DEF AllSpec
-----------------------------------------------------------------------------
\* The types of all parts.

\* The messages a worker has are counted.
LEMMA MailTypes == MailInv => Mails!TypeOK
<1> SUFFICES ASSUME MailInv PROVE Mails!TypeOK OBVIOUS
<1>1. ASSUME NEW w \in Workers
      PROVE  Cardinality(mHeld[w]) = (IF mPc[w] = "idle" THEN 0 ELSE 1)
  <2>1. CASE mPc[w] = "idle" BY <2>1, FS_EmptySet DEF MailInv, HeldOne
  <2>2. CASE mPc[w] # "idle"
    <3>1. PICK m \in Mails!Message : mHeld[w] = {m} BY <2>2 DEF MailInv, HeldOne
    <3>2. Cardinality({m}) = 1 BY FS_Singleton
    <3> QED BY <2>2, <3>1, <3>2
  <2> QED BY <2>1, <2>2
<1>2. \A w \in Workers : Mails!Cardinality(mHeld[w]) = (IF mPc[w] = "idle" THEN 0 ELSE 1)
  BY <1>1 DEF Mails!Cardinality, Cardinality
<1> QED BY <1>2 DEF MailInv, MailShape, MailSteps, Mails!TypeOK

LEMMA SupportTypes == SupportInv => Support!TypeOK
<1> SUFFICES ASSUME SupportInv PROVE Support!TypeOK OBVIOUS
<1>1. SupportShape /\ LockOK BY DEF SupportInv, SupportOrderly
<1>2. qHolder \subseteq Requests BY <1>1 DEF LockOK
<1> QED BY <1>1, <1>2 DEF SupportShape, LockOK, Support!TypeOK

LEMMA NoticeTypes == NoticeInv /\ ThroughOK => Notices!TypeOK
BY DEF NoticeInv, NoticeShape, NoticePhases, ThroughOK, Notices!TypeOK

LEMMA SnapshotTypes == SnapshotInv => Snapshots!TypeOK
<1> SUFFICES ASSUME SnapshotInv PROVE Snapshots!TypeOK OBVIOUS
<1>1. DOMAIN rSynced = 1..Len(rSynced) /\ \A i \in 1..Len(rSynced) : rSynced[i] \in Customers
  BY ElementOfSeq DEF SnapshotInv
<1>2. Snapshots!ToSet(rSynced) = Customers BY <1>1 DEF SnapshotInv, Snapshots!ToSet
<1> QED BY <1>2 DEF SnapshotInv, Snapshots!TypeOK

\* Whatever part runs, and however its steps interleave, the variables of every part keep their
\* types: the steps of one leave the others' alone, and each part's own keep its invariant.
THEOREM AllTypeCorrect == AllSpec => []AllTypeOK
<1>1. LoginInv => Logins!TypeOK BY DEF LoginInv
<1>2. PeopleInv => People!TypeOK BY DEF PeopleInv, PeopleShape
<1>3. KeyInv => Credentials!TypeOK BY DEF KeyInv
<1>4. ProbeInv => Probes!TypeOK BY DEF ProbeInv
<1>5. StartInv => Starts!TypeOK BY DEF StartInv
<1>6. CheckInv => Checks!TypeOK BY DEF CheckInv
<1>7. RolloutInv => Rollouts!TypeOK BY DEF RolloutInv
<1>8. /\ PhotoInv /\ LoginInv /\ SupportInv /\ PeopleInv /\ NoticeInv /\ ThroughOK /\ KeyInv
      /\ MailInv /\ ProbeInv /\ StartInv /\ CheckInv /\ RolloutInv /\ SnapshotInv
      => AllTypeOK
  BY <1>1, <1>2, <1>3, <1>4, <1>5, <1>6, <1>7, PhotoTypes, SupportTypes, NoticeTypes,
     SnapshotTypes, MailTypes DEF AllTypeOK
<1> QED
  BY <1>8, PhotoInvariance, LoginInvariance, SupportInvariance, PeopleInvariance,
     NoticeInvariance, ThroughInvariance, KeyInvariance, MailInvariance, ProbeInvariance,
     StartInvariance, CheckInvariance, RolloutInvariance, SnapshotInvariance, PTL
=============================================================================
