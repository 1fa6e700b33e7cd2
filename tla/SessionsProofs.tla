--------------------------- MODULE SessionsProofs ---------------------------
(***************************************************************************)
(* Proofs about Sessions for any number of requests and of sessions, any   *)
(* life of theirs and any number of password changes.                      *)
(***************************************************************************)
EXTENDS Sessions, TLAPS

\* The steps that work on the session a request is about.
OnSession == {"credential", "proof", "verify", "user", "setex", "extend", "add", "keep",
              "known", "ttl", "setnx", "fetch"}

\* Such a request has a session, one that some login drew.
HasSession ==
    \A r \in Requests :
        /\ job[r].sid \subseteq drawn
        /\ pc[r] \in OnSession => job[r].sid # {}

\* No password is older than the one of the last reset.
ResetFirst == reset <= hash

IInv == TypeOK /\ HasSession /\ ResetFirst

LEMMA Bounds == Ttl \in Nat \ {0} /\ MaxHash \in Nat \ {0} /\ MaxProofs \in Nat
BY LivesAssumption, BoundsAssumption

LEMMA NoJobType == NoJob \in Job /\ NoJob.sid = {}
BY Bounds DEF NoJob, NoProof, Job, Proofs

LEMMA Init_Inv == Init => IInv
<1> SUFFICES ASSUME Init PROVE IInv OBVIOUS
<1> USE Bounds DEF Init, Forever
<1>1. csrf \in [Sids -> [life : 0..Ttl, value : Proofs]] BY DEF NoProof, Proofs
<1>2. pc \in [Requests -> PCs] /\ \A r \in Requests : pc[r] = "idle" BY DEF PCs
<1>3. job \in [Requests -> Job] /\ \A r \in Requests : job[r].sid = {} BY NoJobType
<1>4. index \in [members : SUBSET Sids, life : 0..Forever] OBVIOUS
<1>5. gone \in BOOLEAN BY Zenon
<1>6. TypeOK BY <1>1, <1>2, <1>3, <1>4, <1>5 DEF TypeOK
<1>7. HasSession BY <1>2, <1>3 DEF HasSession, OnSession
<1>8. ResetFirst BY DEF ResetFirst
<1> QED BY <1>6, <1>7, <1>8 DEF IInv

\* What time leaves of a life.
LEMMA OlderType ==
    /\ \A n \in 0..Ttl : Older(n) \in 0..Ttl /\ Older(n) <= n
    /\ \A n \in 0..Forever : Older(n) \in 0..Forever /\ (Older(n) = 0 <=> n \in {0, 1})
BY Bounds DEF Older, Forever

\* The moves of one request: the steps it may go to, and the job it goes on with.
Moves(r, step, j) ==
    /\ \/ pc' = [pc EXCEPT ![r] = step] /\ job' = [job EXCEPT ![r] = j]
       \/ pc' = [pc EXCEPT ![r] = "idle"] /\ job' = [job EXCEPT ![r] = NoJob]
    /\ alone' \subseteq Requests

\* A request that moves without a change of the credential.
LEMMA MoveKeeps ==
    ASSUME IInv, NEW r \in Requests, NEW step \in PCs, NEW j \in Job, Moves(r, step, j),
           j.sid \subseteq drawn', step \in OnSession => j.sid # {},
           drawn \subseteq drawn', drawn' \subseteq Sids,
           held' \subseteq held \cup job[r].sid,
           live' \in [Sids -> 0..Ttl],
           csrf' \in [Sids -> [life : 0..Ttl, value : Proofs]],
           index' \in [members : SUBSET Sids, life : 0..Forever],
           index'.life = 0 <=> index'.members = {},
           hash' \in 1..MaxHash, gone' \in BOOLEAN, reset' \in 1..MaxHash, reset' <= hash'
    PROVE  IInv'
<1> USE DEF IInv
<1>1. /\ pc' \in [Requests -> PCs] /\ job' \in [Requests -> Job]
      /\ \A q \in Requests \ {r} : pc'[q] = pc[q] /\ job'[q] = job[q]
      /\ \/ pc'[r] = step /\ job'[r] = j
         \/ pc'[r] = "idle" /\ job'[r] = NoJob
  <2> USE NoJobType DEF TypeOK, PCs
  <2>1. CASE pc' = [pc EXCEPT ![r] = step] /\ job' = [job EXCEPT ![r] = j] BY <2>1
  <2>2. CASE pc' = [pc EXCEPT ![r] = "idle"] /\ job' = [job EXCEPT ![r] = NoJob] BY <2>2
  <2> QED BY <2>1, <2>2 DEF Moves
<1>2. HasSession'
  <2>1. ASSUME NEW q \in Requests
        PROVE  job'[q].sid \subseteq drawn' /\ (pc'[q] \in OnSession => job'[q].sid # {})
    <3>1. CASE q = r BY <1>1, <3>1, NoJobType DEF OnSession
    <3>2. CASE q # r BY <1>1, <3>2 DEF HasSession
    <3> QED BY <3>1, <3>2
  <2> QED BY <2>1 DEF HasSession
<1>3. held' \subseteq drawn' BY DEF HasSession, TypeOK
<1>4. \A q \in Requests : pc'[q] = "add" => job'[q].sid # {} BY <1>2 DEF HasSession, OnSession
<1>5. alone' \subseteq Requests BY DEF Moves
<1>6. TypeOK' BY <1>1, <1>3, <1>4, <1>5 DEF TypeOK
<1>7. ResetFirst' BY DEF ResetFirst
<1> QED BY <1>2, <1>6, <1>7

\* The same when Redis, the credential and the history stay as they are.
LEMMA QuietKeeps ==
    ASSUME IInv, NEW r \in Requests, NEW step \in PCs, NEW j \in Job, Moves(r, step, j),
           j.sid \subseteq drawn, step \in OnSession => j.sid # {},
           UNCHANGED <<redis, account, past>>
    PROVE  IInv'
<1>1. UNCHANGED <<live, csrf, index, hash, gone, drawn, held, reset>>
  BY DEF redis, account, past
<1> QED BY <1>1, MoveKeeps DEF IInv, TypeOK, ResetFirst

\* How the actions say it.
LEMMA HowMoves ==
    ASSUME IInv, NEW r \in Requests, NEW step, NEW j,
           \/ Goto(r, step) /\ j = job[r]
           \/ Done(r) \/ Hold(r, step, j) \/ Begin(r, step, j)
    PROVE  Moves(r, step, j)
<1> USE DEF Moves, IInv, TypeOK
<1>1. CASE Goto(r, step) /\ j = job[r] BY <1>1 DEF Goto
<1>2. CASE Done(r) BY <1>2 DEF Done
<1>3. CASE Hold(r, step, j) BY <1>3 DEF Hold
<1>4. CASE Begin(r, step, j) BY <1>4 DEF Begin
<1> QED BY <1>1, <1>2, <1>3, <1>4

LEMMA JobKept ==
    ASSUME IInv, NEW r \in Requests
    PROVE  /\ job[r] \in Job /\ job[r].sid \subseteq drawn /\ job[r].sid \subseteq Sids
           /\ pc[r] \in OnSession => job[r].sid # {}
BY DEF IInv, TypeOK, HasSession

\* A request begins with its session.
LEMMA BeginKeeps ==
    ASSUME IInv, NEW r \in Requests,
           \/ BeginLogin(r) \/ BeginRefresh(r) \/ BeginBootstrap(r) \/ BeginLogout(r)
           \/ BeginChange(r) \/ BeginReset(r) \/ BeginDelete(r)
    PROVE  IInv'
<1> USE NoJobType, Bounds
<1>1. CASE BeginLogin(r)
  <2>1. PICK s \in Sids \ drawn :
          /\ Begin(r, "credential", [NoJob EXCEPT !.sid = {s}]) /\ drawn' = drawn \cup {s}
          /\ UNCHANGED <<redis, account, held, reset>>
    BY <1>1 DEF BeginLogin
  <2> DEFINE j == [NoJob EXCEPT !.sid = {s}]
  <2>2. j \in Job /\ j.sid = {s} BY DEF Job
  <2> HIDE DEF j
  <2>3. Moves(r, "credential", j) BY <2>1, HowMoves DEF j
  <2>4. UNCHANGED <<live, csrf, index, hash, gone, held, reset>> BY <2>1 DEF redis, account
  <2>5. TypeOK /\ ResetFirst BY DEF IInv
  <2> QED BY <2>1, <2>2, <2>3, <2>4, <2>5, MoveKeeps DEF PCs, TypeOK, ResetFirst
<1>2. ASSUME NEW s \in held, NEW j, NEW step \in {"proof", "verify", "known"},
             j \in Job, j.sid = {s}, Begin(r, step, j), UNCHANGED <<redis, account, past>>
      PROVE  IInv'
  <2>1. s \in drawn BY DEF IInv, TypeOK
  <2>2. Moves(r, step, j) BY <1>2, HowMoves
  <2> QED BY <1>2, <2>1, <2>2, QuietKeeps DEF PCs
<1>3. CASE BeginRefresh(r) \/ BeginBootstrap(r)
  <2>1. ASSUME NEW s \in held
        PROVE  /\ [NoJob EXCEPT !.sid = {s}] \in Job /\ [NoJob EXCEPT !.sid = {s}].sid = {s}
               /\ \A p \in Proofs : /\ [NoJob EXCEPT !.sid = {s}, !.proof = p] \in Job
                                    /\ [NoJob EXCEPT !.sid = {s}, !.proof = p].sid = {s}
    BY DEF IInv, TypeOK, Job
  <2> QED BY <1>2, <1>3, <2>1 DEF BeginRefresh, BeginBootstrap
<1>4. CASE BeginLogout(r) \/ BeginChange(r) \/ BeginReset(r) \/ BeginDelete(r)
  <2>1. PICK step \in {"members", "hash", "update", "erase"} :
          Begin(r, step, NoJob) /\ UNCHANGED <<redis, account, past>>
    BY <1>4 DEF BeginLogout, BeginChange, BeginReset, BeginDelete
  <2>2. Moves(r, step, NoJob) BY <2>1, HowMoves
  <2> QED BY <2>1, <2>2, QuietKeeps DEF PCs, OnSession
<1> QED BY <1>1, <1>3, <1>4

\* The steps that only read.
LEMMA ReadKeeps ==
    ASSUME IInv, NEW r \in Requests,
           \/ Credential(r) \/ CheckProof(r) \/ Verify(r) \/ FindUser(r) \/ Known(r)
           \/ ReadTtl(r) \/ Fetch(r) \/ ReadHash(r) \/ Members(r) \/ Cancel(r)
    PROVE  IInv'
<1> USE NoJobType, Bounds, JobKept
<1>1. CASE Credential(r) \/ Verify(r) \/ FindUser(r) \/ Known(r)
  <2>1. PICK step \in {"setex", "user", "ttl"} :
          (Goto(r, step) \/ Done(r)) /\ UNCHANGED <<redis, account, past>> /\ pc[r] \in OnSession
    BY <1>1 DEF Credential, Verify, FindUser, Active, Known, OnSession
  <2>2. Moves(r, step, job[r]) BY <2>1, HowMoves
  <2> QED BY <2>1, <2>2, QuietKeeps DEF PCs
<1>2. CASE CheckProof(r)
  <2> DEFINE j == [job[r] EXCEPT !.proof = NoProof]
  <2>1. j \in Job /\ j.sid = job[r].sid BY DEF Job, NoProof, Proofs
  <2> HIDE DEF j
  <2>2. Moves(r, "verify", j) BY <1>2, HowMoves DEF CheckProof, j
  <2>3. pc[r] \in OnSession /\ UNCHANGED <<redis, account, past>>
    BY <1>2 DEF CheckProof, OnSession
  <2> QED BY <2>1, <2>2, <2>3, QuietKeeps DEF PCs
<1>3. CASE ReadTtl(r)
  <2>1. PICK s \in Sids :
          /\ IF live[s] = 0 THEN Done(r) ELSE Hold(r, "setnx", [job[r] EXCEPT !.ttl = live[s]])
          /\ pc[r] = "ttl" /\ UNCHANGED <<redis, account, past>>
    BY <1>3 DEF ReadTtl
  <2> DEFINE j == [job[r] EXCEPT !.ttl = live[s]]
  <2>2. j \in Job /\ j.sid = job[r].sid BY DEF Job, IInv, TypeOK
  <2> HIDE DEF j
  <2>3. Moves(r, "setnx", j) BY <2>1, HowMoves DEF j
  <2> QED BY <2>1, <2>2, <2>3, QuietKeeps DEF PCs, OnSession
<1>4. CASE ReadHash(r)
  <2> DEFINE j == [NoJob EXCEPT !.ver = hash]
  <2>1. j \in Job /\ j.sid = {} BY DEF Job, IInv, TypeOK
  <2> HIDE DEF j
  <2>2. Moves(r, "members", j) BY <1>4, HowMoves DEF ReadHash, j
  <2> QED BY <1>4, <2>1, <2>2, QuietKeeps DEF ReadHash, PCs, OnSession
<1>5. CASE Members(r)
  <2> DEFINE j == [job[r] EXCEPT !.read = index.members]
             step == IF index.members = {} THEN "unindex" ELSE "delete"
  <2>1. j \in Job /\ j.sid = job[r].sid BY DEF Job, IInv, TypeOK
  <2>2. Hold(r, step, j) BY <1>5 DEF Members
  <2>3. step \in {"unindex", "delete"} OBVIOUS
  <2> HIDE DEF j, step
  <2>4. Moves(r, step, j) BY <2>2, HowMoves
  <2> QED BY <1>5, <2>1, <2>3, <2>4, QuietKeeps DEF Members, PCs, OnSession
<1>6. CASE Fetch(r) \/ Cancel(r)
  <2>1. Moves(r, "idle", NoJob) BY <1>6, HowMoves DEF Fetch, Cancel
  <2> QED BY <1>6, <2>1, QuietKeeps DEF Fetch, Cancel, PCs, OnSession
<1> QED BY <1>1, <1>2, <1>3, <1>4, <1>5, <1>6

\* The commands that write to Redis.
LEMMA WriteKeeps ==
    ASSUME IInv, NEW r \in Requests,
           \/ SetSession(r) \/ ExtendProof(r) \/ AddIndex(r) \/ Keep(r) \/ SetProof(r)
           \/ Delete(r) \/ Unindex(r)
    PROVE  IInv'
<1> USE NoJobType, Bounds, JobKept
<1>0. TypeOK /\ ResetFirst BY DEF IInv
<1>1. ASSUME NEW step \in PCs, NEW j \in Job, Moves(r, step, j), j.sid = job[r].sid,
             step \in OnSession => pc[r] \in OnSession,
             UNCHANGED <<account, drawn, reset>>, held' \subseteq held \cup job[r].sid,
             live' \in [Sids -> 0..Ttl],
             csrf' \in [Sids -> [life : 0..Ttl, value : Proofs]],
             index' \in [members : SUBSET Sids, life : 0..Forever],
             index'.life = 0 <=> index'.members = {}
      PROVE  IInv'
  BY <1>0, <1>1, MoveKeeps DEF account, TypeOK, ResetFirst
<1>2. CASE SetSession(r)
  <2>1. PICK s \in Sids : live' = [live EXCEPT ![s] = Ttl] /\ pc[r] = "setex" BY <1>2 DEF SetSession
  <2>2. live' \in [Sids -> 0..Ttl] BY <1>0, <2>1 DEF TypeOK
  <2>3. Moves(r, "extend", job[r]) BY <1>2, HowMoves DEF SetSession
  <2> QED BY <1>0, <1>1, <1>2, <2>1, <2>2, <2>3 DEF SetSession, past, PCs, OnSession, TypeOK
<1>3. CASE ExtendProof(r)
  <2>1. PICK s \in Sids :
          /\ csrf' = [csrf EXCEPT ![s].life = Expire(@)] /\ pc[r] = "extend"
          /\ UNCHANGED <<live, index, account, past>>
    BY <1>3 DEF ExtendProof
  <2>2. csrf' \in [Sids -> [life : 0..Ttl, value : Proofs]] BY <1>0, <2>1 DEF TypeOK, Expire
  <2>3. Moves(r, "add", job[r]) BY <1>3, HowMoves DEF ExtendProof
  <2> QED BY <1>0, <1>1, <2>1, <2>2, <2>3 DEF past, PCs, OnSession, TypeOK
<1>4. CASE AddIndex(r)
  <2>1. index' \in [members : SUBSET Sids, life : 0..Forever] /\ index'.members # {}
    BY <1>0, <1>4 DEF AddIndex, TypeOK, Forever, OnSession
  <2>2. index'.life # 0 BY <1>0, <1>4 DEF AddIndex, TypeOK, Forever
  <2>3. Moves(r, "keep", job[r]) BY <1>4, HowMoves DEF AddIndex
  <2> QED BY <1>0, <1>1, <1>4, <2>1, <2>2, <2>3 DEF AddIndex, past, PCs, OnSession, TypeOK
<1>5. CASE Keep(r)
  <2>1. /\ index' \in [members : SUBSET Sids, life : 0..Forever]
        /\ index'.life = 0 <=> index'.members = {}
    BY <1>0, <1>5 DEF Keep, TypeOK, Forever, Expire
  <2>2. Moves(r, "idle", job[r]) BY <1>5, HowMoves DEF Keep
  <2> QED BY <1>0, <1>1, <1>5, <2>1, <2>2 DEF Keep, PCs, OnSession, TypeOK
<1>6. CASE SetProof(r)
  <2> DEFINE j == [job[r] EXCEPT !.ttl = 0]
  <2>1. j \in Job /\ j.sid = job[r].sid BY DEF Job
  <2>2. PICK s \in Sids :
          /\ Free(s) => csrf[s].value < MaxProofs
          /\ csrf' = IF Free(s)
                     THEN [csrf EXCEPT ![s] = [life |-> job[r].ttl, value |-> @.value + 1]]
                     ELSE csrf
          /\ Hold(r, "fetch", j) /\ pc[r] = "setnx"
    BY <1>6 DEF SetProof
  <2>3. csrf' \in [Sids -> [life : 0..Ttl, value : Proofs]]
    <3>1. job[r].ttl \in 0..Ttl BY DEF Job
    <3>2. Free(s) => csrf[s].value + 1 \in Proofs BY <1>0, <2>2 DEF TypeOK, Proofs
    <3> QED BY <1>0, <2>2, <3>1, <3>2 DEF TypeOK
  <2> HIDE DEF j
  <2>4. Moves(r, "fetch", j) BY <2>2, HowMoves
  <2> QED BY <1>0, <1>1, <1>6, <2>1, <2>2, <2>3, <2>4 DEF SetProof, past, PCs, OnSession, TypeOK
<1>7. CASE Delete(r)
  <2> DEFINE j == [job[r] EXCEPT !.read = {}]
  <2>1. j \in Job /\ j.sid = job[r].sid BY DEF Job
  <2>2. Hold(r, "unindex", j) BY <1>7 DEF Delete
  <2>3. live' \in [Sids -> 0..Ttl] BY <1>0, <1>7 DEF Delete, TypeOK
  <2>4. csrf' \in [Sids -> [life : 0..Ttl, value : Proofs]]
    BY <1>0, <1>7 DEF Delete, TypeOK
  <2> HIDE DEF j
  <2>5. Moves(r, "unindex", j) BY <2>2, HowMoves
  <2> QED BY <1>0, <1>1, <1>7, <2>1, <2>3, <2>4, <2>5 DEF Delete, past, PCs, OnSession, TypeOK
<1>8. CASE Unindex(r)
  <2>1. /\ index' \in [members : SUBSET Sids, life : 0..Forever]
        /\ index'.life = 0 <=> index'.members = {}
    BY <1>8 DEF Unindex, Forever
  <2>2. Moves(r, "commit", job[r]) BY <1>8, HowMoves DEF Unindex
  <2> QED BY <1>0, <1>1, <1>8, <2>1, <2>2 DEF Unindex, past, PCs, OnSession, TypeOK
<1> QED BY <1>2, <1>3, <1>4, <1>5, <1>6, <1>7, <1>8

\* The writes of the credential.
LEMMA CredentialKeeps ==
    ASSUME IInv, NEW r \in Requests, UpdateHash(r) \/ Erase(r) \/ Commit(r)
    PROVE  IInv'
<1> USE NoJobType, Bounds, JobKept
<1>1. TypeOK /\ ResetFirst BY DEF IInv
<1>2. PICK step \in {"members", "idle"} : Moves(r, step, job[r])
  BY HowMoves DEF UpdateHash, Erase, Commit
<1>3. UNCHANGED <<live, csrf, index, drawn, held>>
  BY DEF UpdateHash, Erase, Commit, redis, past
<1>4. /\ hash' \in 1..MaxHash /\ reset' \in 1..MaxHash /\ reset' <= hash'
      /\ gone' \in BOOLEAN
  <2>1. CASE UpdateHash(r) BY <1>1, <2>1 DEF UpdateHash, TypeOK, ResetFirst
  <2>2. CASE Erase(r) BY <1>1, <2>2 DEF Erase, TypeOK, ResetFirst, past
  <2>3. CASE Commit(r) BY <1>1, <2>3 DEF Commit, TypeOK, ResetFirst, past
  <2> QED BY <2>1, <2>2, <2>3
<1> QED BY <1>1, <1>2, <1>3, <1>4, MoveKeeps DEF TypeOK, PCs, OnSession

LEMMA TickKeeps == ASSUME IInv, Tick PROVE IInv'
<1> USE DEF IInv
<1>1. UNCHANGED <<hash, gone, pc, job, drawn, held, reset, alone>>
  BY DEF Tick, account, history
<1>2. live' \in [Sids -> 0..Ttl] BY OlderType DEF Tick, TypeOK
<1>3. csrf' \in [Sids -> [life : 0..Ttl, value : Proofs]] BY OlderType DEF Tick, TypeOK
<1>4. /\ index' \in [members : SUBSET Sids, life : 0..Forever]
      /\ index'.life = 0 <=> index'.members = {}
  BY OlderType, Bounds DEF Tick, TypeOK
<1>5. TypeOK' BY <1>1, <1>2, <1>3, <1>4 DEF TypeOK
<1> QED BY <1>1, <1>5 DEF HasSession, ResetFirst

LEMMA Step_Inv == IInv /\ [Next]_vars => IInv'
<1> SUFFICES ASSUME IInv, [Next]_vars PROVE IInv' OBVIOUS
<1>1. CASE UNCHANGED vars BY <1>1 DEF vars, IInv, TypeOK, HasSession, ResetFirst
<1>2. CASE Tick BY <1>2, TickKeeps
<1> QED BY <1>1, <1>2, BeginKeeps, ReadKeeps, WriteKeeps, CredentialKeeps DEF Next

LEMMA Invariance == Spec => []IInv
BY Init_Inv, Step_Inv, PTL DEF Spec

\* Every variable has its type, and the index has members exactly while its key exists.
THEOREM TypeCorrect == Spec => []TypeOK
<1>1. IInv => TypeOK BY DEF IInv
<1> QED BY <1>1, Invariance, PTL


-----------------------------------------------------------------------------
\* Which steps write to the sessions and to the proofs, and what is never taken back.
LEMMA Effects ==
    ASSUME Next
    PROVE  /\ Tick \/ live' = live \/ \E r \in Requests : SetSession(r) \/ Delete(r)
           /\ Tick \/ csrf' = csrf \/ \E r \in Requests : ExtendProof(r) \/ SetProof(r) \/ Delete(r)
           /\ drawn \subseteq drawn' /\ gone' \in {gone, TRUE}
<1>1. Tick => drawn' = drawn /\ gone' = gone BY DEF Tick, account, history
<1>2. ASSUME NEW r \in Requests,
             \/ BeginLogin(r) \/ Credential(r) \/ SetSession(r) \/ ExtendProof(r) \/ AddIndex(r)
             \/ Keep(r) \/ BeginRefresh(r) \/ CheckProof(r) \/ Verify(r) \/ FindUser(r)
             \/ BeginBootstrap(r) \/ Known(r) \/ ReadTtl(r) \/ SetProof(r) \/ Fetch(r)
      PROVE  /\ live' = live \/ SetSession(r)
             /\ csrf' = csrf \/ ExtendProof(r) \/ SetProof(r)
             /\ drawn \subseteq drawn' /\ gone' = gone
  BY <1>2 DEF redis, account, past, BeginLogin, Credential, SetSession, ExtendProof, AddIndex,
              Keep, BeginRefresh, CheckProof, Verify, FindUser, BeginBootstrap, Known, ReadTtl,
              SetProof, Fetch
<1>3. ASSUME NEW r \in Requests,
             \/ BeginLogout(r) \/ BeginChange(r) \/ ReadHash(r) \/ BeginReset(r) \/ UpdateHash(r)
             \/ BeginDelete(r) \/ Erase(r) \/ Members(r) \/ Delete(r) \/ Unindex(r) \/ Commit(r)
             \/ Cancel(r)
      PROVE  /\ (live' = live /\ csrf' = csrf) \/ Delete(r)
             /\ drawn' = drawn /\ gone' \in {gone, TRUE}
  BY <1>3 DEF redis, account, past, BeginLogout, BeginChange, ReadHash, BeginReset, UpdateHash,
              BeginDelete, Erase, Members, Delete, Unindex, Commit, Cancel
<1> QED BY <1>1, <1>2, <1>3 DEF Next

\* What a step adds to the requests that may store session s, and to its life.
LEMMA Stores ==
    ASSUME IInv, Next, NEW s \in Sids, s \in drawn, live[s] = 0, ~Storing(s)
    PROVE  s \in drawn' /\ live'[s] = 0 /\ ~Storing(s)'
<1> USE Bounds DEF IInv, Storing
<1>0. /\ \A q \in Requests : About(q, s) => pc[q] \notin {"credential", "user", "setex"}
      /\ live \in [Sids -> 0..Ttl] /\ pc \in [Requests -> PCs] /\ job \in [Requests -> Job]
  BY DEF TypeOK
\* Some request moves to a job and a step, or is over.
<1>1. ASSUME NEW r \in Requests, NEW step, NEW j,
             Moves(r, step, j),
             s \in j.sid => step \notin {"credential", "user", "setex"}
      PROVE  ~Storing(s)'
  <2>1. /\ \A q \in Requests \ {r} : pc'[q] = pc[q] /\ job'[q] = job[q]
        /\ \/ pc'[r] = step /\ job'[r] = j
           \/ pc'[r] = "idle" /\ job'[r] = NoJob
    BY <1>0, <1>1 DEF Moves
  <2> QED BY <1>0, <1>1, <2>1, NoJobType DEF About
\* Every step but these leads elsewhere.
<1>2. ASSUME NEW r \in Requests, NEW step, NEW j,
             step \notin {"credential", "user", "setex"},
             Goto(r, step) \/ Done(r) \/ Hold(r, step, j) \/ Begin(r, step, j)
      PROVE  ~Storing(s)'
  <2>1. CASE Goto(r, step) BY <1>1, <1>2, <2>1, HowMoves
  <2>2. CASE ~Goto(r, step) BY <1>1, <1>2, <2>2, HowMoves
  <2> QED BY <2>1, <2>2
<1> HIDE DEF IInv
<1>3. ASSUME NEW r \in Requests, BeginLogin(r) PROVE ~Storing(s)'
  <2>1. PICK t \in Sids \ drawn : Begin(r, "credential", [NoJob EXCEPT !.sid = {t}])
    BY <1>3 DEF BeginLogin
  <2> DEFINE j == [NoJob EXCEPT !.sid = {t}]
  <2>2. s \notin j.sid BY <2>1, NoJobType DEF Job
  <2>3. Moves(r, "credential", j) BY <2>1, HowMoves
  <2> HIDE DEF j
  <2> QED BY <1>1, <2>2, <2>3
<1>4. ASSUME NEW r \in Requests, Credential(r) \/ FindUser(r) PROVE ~Storing(s)'
  <2>1. s \notin job[r].sid BY <1>0, <1>4 DEF Credential, FindUser, About
  <2>2. Goto(r, "setex") \/ Done(r) BY <1>4 DEF Credential, FindUser, Active
  <2>3. Moves(r, "setex", job[r]) BY <2>2, HowMoves
  <2> QED BY <1>1, <2>1, <2>3
<1>5. ASSUME NEW r \in Requests, Verify(r) PROVE ~Storing(s)'
  <2>1. Done(r) \/ (Goto(r, "user") /\ s \notin job[r].sid)
    <3>1. CASE s \in job[r].sid
      <4>1. ~Valid(s) BY <1>0 DEF Valid
      <4> QED BY <1>5, <3>1, <4>1 DEF Verify
    <3>2. CASE s \notin job[r].sid BY <1>5, <3>2 DEF Verify
    <3> QED BY <3>1, <3>2
  <2>2. CASE Done(r)
    <3>1. Moves(r, "idle", NoJob) BY <2>2, HowMoves
    <3> QED BY <1>1, <3>1
  <2>3. CASE Goto(r, "user") /\ s \notin job[r].sid
    <3>1. Moves(r, "user", job[r]) BY <2>3, HowMoves
    <3> QED BY <1>1, <2>3, <3>1
  <2> QED BY <2>1, <2>2, <2>3
<1>6. ASSUME NEW r \in Requests,
             \/ BeginRefresh(r) \/ BeginBootstrap(r) \/ BeginLogout(r) \/ BeginChange(r)
             \/ BeginReset(r) \/ BeginDelete(r)
      PROVE  ~Storing(s)'
  <2>1. PICK step \in {"proof", "verify", "known", "members", "hash", "update", "erase"} :
          \E j : Begin(r, step, j)
    BY <1>6 DEF BeginRefresh, BeginBootstrap, BeginLogout, BeginChange, BeginReset, BeginDelete
  <2> QED BY <1>2, <2>1
<1>7. ASSUME NEW r \in Requests,
             \/ SetSession(r) \/ ExtendProof(r) \/ AddIndex(r) \/ Keep(r) \/ CheckProof(r)
             \/ Known(r) \/ ReadTtl(r) \/ SetProof(r) \/ Fetch(r) \/ Cancel(r)
      PROVE  ~Storing(s)'
  <2>1. PICK step \in {"extend", "add", "keep", "verify", "ttl", "setnx", "fetch"} :
          Done(r) \/ Goto(r, step) \/ \E j : Hold(r, step, j)
    BY <1>7 DEF SetSession, ExtendProof, AddIndex, Keep, CheckProof, Known, ReadTtl, SetProof,
                Fetch, Cancel
  <2> QED BY <1>2, <2>1
<1>8. ASSUME NEW r \in Requests,
             \/ ReadHash(r) \/ UpdateHash(r) \/ Erase(r) \/ Members(r) \/ Delete(r) \/ Unindex(r)
             \/ Commit(r)
      PROVE  ~Storing(s)'
  <2>1. PICK step \in {"members", "delete", "unindex", "commit"} :
          Done(r) \/ Goto(r, step) \/ \E j : Hold(r, step, j)
    BY <1>8 DEF ReadHash, UpdateHash, Erase, Members, Delete, Unindex, Commit
  <2> QED BY <1>2, <2>1
<1>9. Tick => ~Storing(s)' BY <1>0 DEF Tick, history, About
<1>10. ~Storing(s)' BY <1>3, <1>4, <1>5, <1>6, <1>7, <1>8, <1>9 DEF Next
<1>11. live'[s] = 0
  <2>1. ASSUME NEW r \in Requests, SetSession(r) PROVE live'[s] = 0
    <3>1. PICK t \in Sids : pc[r] = "setex" /\ About(r, t) /\ live' = [live EXCEPT ![t] = Ttl]
      BY <2>1 DEF SetSession
    <3> QED BY <1>0, <3>1
  <2>2. ASSUME NEW r \in Requests, Delete(r) PROVE live'[s] = 0 BY <2>2 DEF Delete
  <2>3. CASE Tick BY <2>3 DEF Tick, Older
  <2>4. CASE live' = live BY <1>0, <2>4
  <2> QED BY <2>1, <2>2, <2>3, <2>4, Effects
<1> QED BY <1>10, <1>11, Effects

\* A session that has expired or was revoked, and that no request had verified before it
\* went, never comes back: to store it again a request would have to find it first.
THEOREM EndedStaysEndedHolds == Spec => EndedStaysEnded
<1>1. IInv /\ [Next]_vars => [\A s \in Sids : Ended(s) => Ended(s)']_vars
  BY Stores DEF Ended
<1> QED BY <1>1, Invariance, PTL DEF Spec, EndedStaysEnded

\* A proof is stored only where there is none, and every other step leaves its value alone.
THEOREM ProofStableHolds == Spec => ProofStable
<1> DEFINE Stable == \A s \in Sids :
             csrf[s].life > 0 /\ csrf'[s].life > 0 => csrf'[s].value = csrf[s].value
<1>1. ASSUME IInv, Next PROVE Stable
  <2>0. csrf \in [Sids -> [life : 0..Ttl, value : Proofs]] BY <1>1 DEF IInv, TypeOK
  <2>1. ASSUME NEW r \in Requests, ExtendProof(r) PROVE Stable BY <2>0, <2>1 DEF ExtendProof
  <2>2. ASSUME NEW r \in Requests, SetProof(r) PROVE Stable BY <2>0, <2>2 DEF SetProof, Free
  <2>3. ASSUME NEW r \in Requests, Delete(r) PROVE Stable
    <3>1. \A s \in Sids : csrf'[s] = IF s \in job[r].read THEN [csrf[s] EXCEPT !.life = 0]
                                     ELSE csrf[s]
      BY <2>3 DEF Delete
    <3>2. \A s \in Sids : csrf'[s].value = csrf[s].value BY <2>0, <3>1
    <3> QED BY <3>2
  <2>4. CASE Tick BY <2>0, <2>4 DEF Tick
  <2>5. CASE csrf' = csrf BY <2>5
  <2> QED BY <1>1, <2>1, <2>2, <2>3, <2>4, <2>5, Effects
<1>2. IInv /\ [Next]_vars => [Stable]_vars BY <1>1
<1> QED BY <1>2, Invariance, PTL DEF Spec, ProofStable

\* After the deletion a request finds no principal, so that once those that had found it
\* are over no session is stored or renewed.
THEOREM DeletedStaysOutHolds == Spec => DeletedStaysOut
<1> DEFINE Out == Quiet => Quiet' /\ \A s \in Sids : live'[s] <= live[s]
<1>1. ASSUME IInv, Next, Quiet PROVE Quiet' /\ \A s \in Sids : live'[s] <= live[s]
  <2>0. /\ live \in [Sids -> 0..Ttl] /\ gone /\ pc \in [Requests -> PCs]
        /\ \A r \in Requests : pc[r] # "setex"
    BY <1>1 DEF IInv, TypeOK, Quiet, Renews
  <2>1. gone' BY <1>1, <2>0, Effects
  <2>2. ASSUME NEW r \in Requests, NEW step, step # "setex",
               pc' = [pc EXCEPT ![r] = step] \/ pc' = [pc EXCEPT ![r] = "idle"]
        PROVE  \A q \in Requests : pc'[q] # "setex"
    BY <2>0, <2>2
  <2>3. \A q \in Requests : pc'[q] # "setex"
    <3>1. ASSUME NEW r \in Requests, Credential(r) \/ FindUser(r) \/ Verify(r)
          PROVE  \A q \in Requests : pc'[q] # "setex"
      BY <2>0, <2>2, <3>1 DEF Credential, FindUser, Verify, Active, Goto, Done
    <3>2. ASSUME NEW r \in Requests,
                 \/ BeginLogin(r) \/ BeginRefresh(r) \/ BeginBootstrap(r) \/ BeginReset(r)
                 \/ BeginLogout(r) \/ BeginChange(r) \/ BeginDelete(r)
          PROVE  \A q \in Requests : pc'[q] # "setex"
      BY <2>2, <3>2 DEF BeginLogin, BeginRefresh, BeginBootstrap, BeginReset, BeginLogout,
                        BeginChange, BeginDelete, Begin
    <3>3. ASSUME NEW r \in Requests,
                 \/ SetSession(r) \/ ExtendProof(r) \/ AddIndex(r) \/ Keep(r) \/ CheckProof(r)
                 \/ Known(r) \/ ReadTtl(r) \/ SetProof(r) \/ Fetch(r) \/ Cancel(r)
          PROVE  \A q \in Requests : pc'[q] # "setex"
      BY <2>2, <3>3 DEF SetSession, ExtendProof, AddIndex, Keep, CheckProof, Known, ReadTtl,
                        SetProof, Fetch, Cancel, Goto, Done, Hold
    <3>4. ASSUME NEW r \in Requests,
                 \/ ReadHash(r) \/ UpdateHash(r) \/ Erase(r) \/ Members(r) \/ Delete(r)
                 \/ Unindex(r) \/ Commit(r)
          PROVE  \A q \in Requests : pc'[q] # "setex"
      BY <2>2, <3>4 DEF ReadHash, UpdateHash, Erase, Members, Delete, Unindex, Commit, Goto, Done,
                        Hold
    <3>5. Tick => \A q \in Requests : pc'[q] # "setex" BY <2>0 DEF Tick
    <3> QED BY <1>1, <3>1, <3>2, <3>3, <3>4, <3>5 DEF Next
  <2>4. \A s \in Sids : live'[s] <= live[s]
    <3>1. ASSUME NEW r \in Requests, Delete(r) PROVE \A s \in Sids : live'[s] <= live[s]
      BY <2>0, <3>1, Bounds DEF Delete
    <3>2. CASE Tick BY <2>0, <3>2, OlderType DEF Tick
    <3>3. CASE live' = live BY <2>0, <3>3, Bounds
    <3>4. ASSUME NEW r \in Requests, SetSession(r) PROVE FALSE BY <2>0, <3>4 DEF SetSession
    <3> QED BY <1>1, <3>1, <3>2, <3>3, <3>4, Effects
  <2> QED BY <2>1, <2>3, <2>4 DEF Quiet, Renews
<1>2. IInv /\ [Next]_vars => [Out]_vars BY <1>1
<1> QED BY <1>2, Invariance, PTL DEF Spec, DeletedStaysOut

\* A change commits only on the hash it read, which is no older than that of a reset.
THEOREM ResetSticksHolds == Spec => ResetSticks
<1> DEFINE Sticks == \A r \in Requests : Commit(r) /\ hash' # hash => job[r].ver >= reset
<1>1. IInv => Sticks BY DEF IInv, TypeOK, ResetFirst, Commit, Unmoved
<1> QED BY <1>1, Invariance, PTL DEF Spec, ResetSticks
=============================================================================
