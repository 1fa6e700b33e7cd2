--------------------------- MODULE ServicesProofs ---------------------------
(***************************************************************************)
(* Proofs about the modules that Services puts side by side, for every     *)
(* number of requests and every bound: one inductive invariant for each    *)
(* part, which the steps of the other parts leave alone.                   *)
(***************************************************************************)
EXTENDS Services, FiniteSetTheorems, TLAPS

-----------------------------------------------------------------------------
\* A step of the whole is a step of each part, or leaves its variables alone.
LEMMA PartSteps ==
    ASSUME [AllNext]_allVars
    PROVE  /\ [Next]_vars /\ [Logins!Next]_lVars /\ [People!Next]_iVars /\ [Support!Next]_qVars
           /\ [Notices!Next]_nVars /\ [Credentials!Next]_aVars /\ [Snapshots!Next]_rVars
           /\ [Mails!Next]_mVars /\ [Probes!Next]_fVars /\ [Starts!Next]_bVars
           /\ [Checks!Next]_vVars /\ [Rollouts!Next]_dVars
BY Zenon DEF AllNext, allVars
-----------------------------------------------------------------------------
\* The profile photo.

\* At most one key.
Small(ks) == ks = {} \/ \E k \in Keys : ks = {k}

\* The type invariant, with the cardinality replaced by the shape of the set.
PhotoShape ==
    /\ photo \subseteq drawn /\ account \in BOOLEAN
    /\ store \subseteq drawn /\ drawn \subseteq Keys /\ leaked \subseteq drawn
    /\ pc \in [Requests -> {"idle", "put", "swap", "check", "cleanup"}]
    /\ job \in [Requests -> [old : SUBSET drawn, new : SUBSET drawn]]

SmallOK == Small(photo) /\ \A r \in Requests : Small(job[r].new)

\* A deleted account has no photo, and a request that is over holds nothing.
NothingLeft ==
    /\ ~account => photo = {}
    /\ \A r \in Requests : pc[r] = "idle" => job[r].new = {}

\* The key a request has drawn and nobody refers to yet.
Pending(r) == pc[r] \in {"put", "swap"}

\* It is the request's own: no other request may delete it.
OwnKey ==
    \A r \in Requests : Pending(r) =>
        /\ job[r].new \cap photo = {}
        /\ \A q \in Requests \ {r} : job[r].new \cap job[q].new = {}

\* It is written before the row may refer to it.
Written == \A r \in Requests : pc[r] = "swap" => job[r].new \subseteq store

\* What is cleaned up is not in use, and what is checked exists.
CleanupOK ==
    \A r \in Requests :
        /\ pc[r] = "cleanup" => job[r].new \cap photo = {}
        /\ pc[r] = "check" => job[r].new # {}

\* Whose each object is.
PhotoOwned == SmallOK /\ NothingLeft /\ OwnKey /\ Written /\ CleanupOK /\ PhotoKept /\ NoOrphan

PhotoInv == PhotoShape /\ PhotoOwned

\* Request r takes the step and the job, the other requests stay where they are.
PhotoMoves(r, step, old, new) ==
    /\ pc'[r] = step /\ job'[r].old = old /\ job'[r].new = new
    /\ \A q \in Requests \ {r} : pc'[q] = pc[q] /\ job'[q] = job[q]

\* What Goto does to the request and to the others.
LEMMA PhotoGoto ==
    ASSUME PhotoShape, NEW r \in Requests, NEW step, NEW j, Goto(r, step, j)
    PROVE  PhotoMoves(r, step, j.old, j.new)
BY DEF PhotoShape, Goto, PhotoMoves

\* What Drop does: the keys are the request's last, if there are any.
LEMMA PhotoDrop ==
    ASSUME PhotoShape, NEW r \in Requests, NEW ks, Drop(r, ks)
    PROVE  /\ ks = {} => PhotoMoves(r, "idle", {}, {})
           /\ ks # {} => PhotoMoves(r, "cleanup", {}, ks)
<1>1. CASE ks = {}
  <2>1. Goto(r, "idle", NoJob) BY <1>1 DEF Drop, Done
  <2> QED BY <1>1, <2>1, PhotoGoto DEF NoJob
<1>2. CASE ks # {}
  <2> DEFINE j == [NoJob EXCEPT !.new = ks]
  <2>1. Goto(r, "cleanup", j) BY <1>2 DEF Drop
  <2>2. j.old = {} /\ j.new = ks BY DEF NoJob
  <2> HIDE DEF j
  <2> QED BY <1>2, <2>1, <2>2, PhotoGoto
<1> QED BY <1>1, <1>2

\* A job made of drawn keys keeps the shape.
LEMMA GotoShape ==
    ASSUME PhotoShape, NEW r \in Requests, drawn \subseteq drawn',
           NEW step \in {"idle", "put", "swap", "check", "cleanup"},
           NEW j \in [old : SUBSET drawn', new : SUBSET drawn'], Goto(r, step, j)
    PROVE  /\ pc' \in [Requests -> {"idle", "put", "swap", "check", "cleanup"}]
           /\ job' \in [Requests -> [old : SUBSET drawn', new : SUBSET drawn']]
BY DEF PhotoShape, Goto

LEMMA DropShape ==
    ASSUME PhotoShape, NEW r \in Requests, NEW ks \in SUBSET drawn, Drop(r, ks), drawn' = drawn
    PROVE  /\ pc' \in [Requests -> {"idle", "put", "swap", "check", "cleanup"}]
           /\ job' \in [Requests -> [old : SUBSET drawn', new : SUBSET drawn']]
<1>1. NoJob \in [old : SUBSET drawn', new : SUBSET drawn'] BY DEF NoJob
<1>2. [NoJob EXCEPT !.new = ks] \in [old : SUBSET drawn', new : SUBSET drawn'] BY DEF NoJob
<1> QED BY <1>1, <1>2, GotoShape DEF Drop, Done

\* The variables have their shape.
LEMMA PhotoShapeStep == PhotoShape /\ [Next]_vars => PhotoShape'
<1> SUFFICES ASSUME PhotoShape, [Next]_vars PROVE PhotoShape' OBVIOUS
<1>0. NoJob \in [old : SUBSET drawn', new : SUBSET drawn'] BY DEF NoJob
<1>1. \A r \in Requests : job[r] \in [old : SUBSET drawn, new : SUBSET drawn] BY DEF PhotoShape
<1>2. ASSUME NEW r \in Requests, BeginUpload(r) PROVE PhotoShape'
  <2>1. PICK k \in Keys \ drawn :
            /\ drawn' = drawn \cup {k}
            /\ Goto(r, "put", [old |-> photo, new |-> {k}])
    BY <1>2 DEF BeginUpload
  <2>2. [old |-> photo, new |-> {k}] \in [old : SUBSET drawn', new : SUBSET drawn']
    BY <2>1 DEF PhotoShape
  <2>3. /\ pc' \in [Requests -> {"idle", "put", "swap", "check", "cleanup"}]
        /\ job' \in [Requests -> [old : SUBSET drawn', new : SUBSET drawn']]
    BY <2>1, <2>2, GotoShape
  <2> QED BY <1>2, <2>1, <2>3 DEF BeginUpload, PhotoShape
<1>3. ASSUME NEW r \in Requests, BeginDelete(r) PROVE PhotoShape'
  <2>1. [old |-> photo, new |-> {}] \in [old : SUBSET drawn', new : SUBSET drawn']
    BY <1>3 DEF PhotoShape, BeginDelete
  <2>2. /\ pc' \in [Requests -> {"idle", "put", "swap", "check", "cleanup"}]
        /\ job' \in [Requests -> [old : SUBSET drawn', new : SUBSET drawn']]
    BY <1>3, <2>1, GotoShape DEF BeginDelete
  <2> QED BY <1>3, <2>2 DEF BeginDelete, PhotoShape
<1>4. ASSUME NEW r \in Requests, Put(r) PROVE PhotoShape'
  <2>1. /\ pc' \in [Requests -> {"idle", "put", "swap", "check", "cleanup"}]
        /\ job' \in [Requests -> [old : SUBSET drawn', new : SUBSET drawn']]
    BY <1>1, <1>4, GotoShape DEF Put
  <2> QED BY <1>1, <1>4, <2>1 DEF Put, PhotoShape
<1>5. ASSUME NEW r \in Requests, PutFails(r) PROVE PhotoShape'
  <2>1. /\ pc' \in [Requests -> {"idle", "put", "swap", "check", "cleanup"}]
        /\ job' \in [Requests -> [old : SUBSET drawn', new : SUBSET drawn']]
    BY <1>1, <1>5, DropShape DEF PutFails
  <2> QED BY <1>1, <1>5, <2>1 DEF PutFails, PhotoShape
<1>6. ASSUME NEW r \in Requests, Swap(r) PROVE PhotoShape'
  <2>1. /\ pc' \in [Requests -> {"idle", "put", "swap", "check", "cleanup"}]
        /\ job' \in [Requests -> [old : SUBSET drawn', new : SUBSET drawn']]
    BY <1>1, <1>6, DropShape DEF Swap
  <2> QED BY <1>1, <1>6, <2>1 DEF Swap, PhotoShape
<1>7. ASSUME NEW r \in Requests, SwapFails(r) PROVE PhotoShape'
  <2>1. /\ pc' \in [Requests -> {"idle", "put", "swap", "check", "cleanup"}]
        /\ job' \in [Requests -> [old : SUBSET drawn', new : SUBSET drawn']]
    BY <1>0, <1>1, <1>7, GotoShape DEF SwapFails, Done
  <2> QED BY <1>1, <1>7, <2>1 DEF SwapFails, PhotoShape
<1>8. ASSUME NEW r \in Requests, Check(r) PROVE PhotoShape'
  <2>1. /\ pc' \in [Requests -> {"idle", "put", "swap", "check", "cleanup"}]
        /\ job' \in [Requests -> [old : SUBSET drawn', new : SUBSET drawn']]
    BY <1>0, <1>1, <1>8, GotoShape, DropShape DEF Check, Done
  <2> QED BY <1>8, <2>1 DEF Check, PhotoShape
<1>9. ASSUME NEW r \in Requests, Cleanup(r) \/ Fail(r) PROVE PhotoShape'
  <2>1. /\ pc' \in [Requests -> {"idle", "put", "swap", "check", "cleanup"}]
        /\ job' \in [Requests -> [old : SUBSET drawn', new : SUBSET drawn']]
    BY <1>0, <1>9, GotoShape DEF Cleanup, Fail, Done
  <2> QED BY <1>1, <1>9, <2>1 DEF Cleanup, Fail, PhotoShape
<1>10. ASSUME NEW r \in Requests, DeleteAccount(r) PROVE PhotoShape'
  <2>1. photo \in SUBSET drawn BY DEF PhotoShape
  <2>2. /\ pc' \in [Requests -> {"idle", "put", "swap", "check", "cleanup"}]
        /\ job' \in [Requests -> [old : SUBSET drawn', new : SUBSET drawn']]
    BY <1>10, <2>1, DropShape DEF DeleteAccount
  <2> QED BY <1>10, <2>2 DEF DeleteAccount, PhotoShape
<1>11. CASE UNCHANGED vars BY <1>11 DEF vars, PhotoShape
<1> QED BY <1>2, <1>3, <1>4, <1>5, <1>6, <1>7, <1>8, <1>9, <1>10, <1>11 DEF Next

\* A request draws a key that nothing holds.
LEMMA BeginUploadKeeps ==
    ASSUME PhotoInv, NEW r \in Requests, BeginUpload(r)
    PROVE  PhotoOwned'
<1> USE DEF PhotoInv, PhotoOwned, PhotoMoves, Pending, Small
<1>1. PICK k \in Keys \ drawn :
          /\ drawn' = drawn \cup {k}
          /\ Goto(r, "put", [old |-> photo, new |-> {k}])
  BY DEF BeginUpload
<1>2. PhotoMoves(r, "put", photo, {k}) BY <1>1, PhotoGoto
<1>3. pc[r] = "idle" /\ UNCHANGED <<photo, account, store, leaked>> BY DEF BeginUpload
<1>4. k \notin photo /\ \A q \in Requests : k \notin job[q].new BY <1>1 DEF PhotoShape
<1>5. SmallOK' BY <1>1, <1>2, <1>3, <1>4 DEF SmallOK
<1>6. NothingLeft' BY <1>1, <1>2, <1>3, <1>4 DEF NothingLeft
<1>7. OwnKey' BY <1>1, <1>2, <1>3, <1>4 DEF OwnKey, NothingLeft
<1>8. Written' BY <1>1, <1>2, <1>3, <1>4 DEF Written, OwnKey
<1>9. CleanupOK' BY <1>1, <1>2, <1>3, <1>4 DEF CleanupOK, OwnKey
<1>10. PhotoKept' BY <1>1, <1>2, <1>3, <1>4 DEF PhotoKept, Written, CleanupOK
<1>11. NoOrphan' BY <1>1, <1>2, <1>3, <1>4 DEF NoOrphan, NothingLeft
<1> QED BY <1>5, <1>6, <1>7, <1>8, <1>9, <1>10, <1>11

\* A deletion holds no key of its own.
LEMMA BeginDeleteKeeps ==
    ASSUME PhotoInv, NEW r \in Requests, BeginDelete(r)
    PROVE  PhotoOwned'
<1> USE DEF PhotoInv, PhotoOwned, PhotoMoves, Pending, Small
<1>1. PhotoMoves(r, "swap", photo, {}) BY PhotoGoto DEF BeginDelete
<1>2. pc[r] = "idle" /\ UNCHANGED <<photo, account, store, leaked>> BY DEF BeginDelete
<1>3. SmallOK' BY <1>1, <1>2 DEF SmallOK
<1>4. NothingLeft' BY <1>1, <1>2 DEF NothingLeft
<1>5. OwnKey' BY <1>1, <1>2 DEF OwnKey, NothingLeft
<1>6. Written' BY <1>1, <1>2 DEF Written, OwnKey
<1>7. CleanupOK' BY <1>1, <1>2 DEF CleanupOK, OwnKey
<1>8. PhotoKept' BY <1>1, <1>2 DEF PhotoKept, Written, CleanupOK
<1>9. NoOrphan' BY <1>1, <1>2 DEF NoOrphan, NothingLeft
<1> QED BY <1>3, <1>4, <1>5, <1>6, <1>7, <1>8, <1>9

\* The object is written.
LEMMA PutKeeps ==
    ASSUME PhotoInv, NEW r \in Requests, Put(r)
    PROVE  PhotoOwned'
<1> USE DEF PhotoInv, PhotoOwned, PhotoMoves, Pending, Small
<1>1. PhotoMoves(r, "swap", job[r].old, job[r].new) BY PhotoGoto DEF Put
<1>2. /\ pc[r] = "put" /\ store' = store \cup job[r].new
      /\ UNCHANGED <<photo, account, leaked>>
  BY DEF Put
<1>3. SmallOK' BY <1>1, <1>2 DEF SmallOK
<1>4. NothingLeft' BY <1>1, <1>2 DEF NothingLeft
<1>5. OwnKey' BY <1>1, <1>2 DEF OwnKey, NothingLeft
<1>6. Written' BY <1>1, <1>2 DEF Written, OwnKey
<1>7. CleanupOK' BY <1>1, <1>2 DEF CleanupOK, OwnKey
<1>8. PhotoKept' BY <1>1, <1>2 DEF PhotoKept, Written, CleanupOK
<1>9. NoOrphan' BY <1>1, <1>2 DEF NoOrphan, NothingLeft
<1> QED BY <1>3, <1>4, <1>5, <1>6, <1>7, <1>8, <1>9

\* The object, written or not, is to be cleaned up.
LEMMA PutFailsKeeps ==
    ASSUME PhotoInv, NEW r \in Requests, PutFails(r)
    PROVE  PhotoOwned'
<1> USE DEF PhotoInv, PhotoOwned, PhotoMoves, Pending, Small
<1>1. /\ job[r].new = {} => PhotoMoves(r, "idle", {}, {})
      /\ job[r].new # {} => PhotoMoves(r, "cleanup", {}, job[r].new)
  BY PhotoDrop DEF PutFails
<1>2. /\ pc[r] = "put" /\ store' \in {store, store \cup job[r].new}
      /\ UNCHANGED <<photo, account, leaked>>
  BY DEF PutFails
<1>3. SmallOK' BY <1>1, <1>2 DEF SmallOK
<1>4. NothingLeft' BY <1>1, <1>2 DEF NothingLeft
<1>5. OwnKey' BY <1>1, <1>2 DEF OwnKey, NothingLeft
<1>6. Written' BY <1>1, <1>2 DEF Written, OwnKey
<1>7. CleanupOK' BY <1>1, <1>2 DEF CleanupOK, OwnKey
<1>8. PhotoKept' BY <1>1, <1>2 DEF PhotoKept, Written, CleanupOK
<1>9. NoOrphan' BY <1>1, <1>2 DEF NoOrphan, NothingLeft
<1> QED BY <1>3, <1>4, <1>5, <1>6, <1>7, <1>8, <1>9

\* The row and the request exchange their keys, or the request drops its own.
LEMMA SwapKeeps ==
    ASSUME PhotoInv, NEW r \in Requests, Swap(r)
    PROVE  PhotoOwned'
<1> USE DEF PhotoInv, PhotoOwned, PhotoMoves, Pending, Small
<1>1. pc[r] = "swap" /\ UNCHANGED <<account, store, leaked>> BY DEF Swap
<1>2. CASE AsExpected(job[r].old)
  <2>1. account /\ photo' = job[r].new BY <1>2 DEF Swap, AsExpected
  <2>2. /\ photo = {} => PhotoMoves(r, "idle", {}, {})
        /\ photo # {} => PhotoMoves(r, "cleanup", {}, photo)
    BY <1>2, PhotoDrop DEF Swap, AsExpected
  <2>3. SmallOK' BY <1>2, <1>1, <2>1, <2>2 DEF SmallOK
  <2>4. NothingLeft' BY <1>2, <1>1, <2>1, <2>2 DEF NothingLeft
  <2>5. OwnKey' BY <1>2, <1>1, <2>1, <2>2 DEF OwnKey, NothingLeft
  <2>6. Written' BY <1>2, <1>1, <2>1, <2>2 DEF Written, OwnKey
  <2>7. CleanupOK' BY <1>2, <1>1, <2>1, <2>2 DEF CleanupOK, OwnKey
  <2>8. PhotoKept' BY <1>2, <1>1, <2>1, <2>2 DEF PhotoKept, Written, CleanupOK
  <2>9. NoOrphan' BY <1>2, <1>1, <2>1, <2>2 DEF NoOrphan, NothingLeft
  <2> QED BY <2>3, <2>4, <2>5, <2>6, <2>7, <2>8, <2>9
<1>3. CASE ~AsExpected(job[r].old)
  <2>1. photo' = photo BY <1>3 DEF Swap
  <2>2. /\ job[r].new = {} => PhotoMoves(r, "idle", {}, {})
        /\ job[r].new # {} => PhotoMoves(r, "cleanup", {}, job[r].new)
    BY <1>3, PhotoDrop DEF Swap
  <2>3. SmallOK' BY <1>3, <1>1, <2>1, <2>2 DEF SmallOK
  <2>4. NothingLeft' BY <1>3, <1>1, <2>1, <2>2 DEF NothingLeft
  <2>5. OwnKey' BY <1>3, <1>1, <2>1, <2>2 DEF OwnKey, NothingLeft
  <2>6. Written' BY <1>3, <1>1, <2>1, <2>2 DEF Written, OwnKey
  <2>7. CleanupOK' BY <1>3, <1>1, <2>1, <2>2 DEF CleanupOK, OwnKey
  <2>8. PhotoKept' BY <1>3, <1>1, <2>1, <2>2 DEF PhotoKept, Written, CleanupOK
  <2>9. NoOrphan' BY <1>3, <1>1, <2>1, <2>2 DEF NoOrphan, NothingLeft
  <2> QED BY <2>3, <2>4, <2>5, <2>6, <2>7, <2>8, <2>9
<1> QED BY <1>1, <1>2, <1>3

\* Whether the row refers to the key or not, the request remembers it.
LEMMA SwapFailsKeeps ==
    ASSUME PhotoInv, NEW r \in Requests, SwapFails(r)
    PROVE  PhotoOwned'
<1> USE DEF PhotoInv, PhotoOwned, PhotoMoves, Pending, Small
<1>1. /\ pc[r] = "swap" /\ leaked' = leaked \cup job[r].old
      /\ UNCHANGED <<account, store>>
  BY DEF SwapFails
<1>2. photo' = photo \/ (account /\ photo = job[r].old /\ photo' = job[r].new)
  BY DEF SwapFails, AsExpected
<1>3. /\ job[r].new = {} => PhotoMoves(r, "idle", {}, {})
      /\ job[r].new # {} => PhotoMoves(r, "check", job[r].old, job[r].new)
  <2>1. CASE job[r].new = {}
    <3>1. Goto(r, "idle", NoJob) BY <2>1 DEF SwapFails, Done
    <3> QED BY <2>1, <3>1, PhotoGoto DEF NoJob
  <2>2. CASE job[r].new # {} BY <2>2, PhotoGoto DEF SwapFails
  <2> QED BY <2>1, <2>2
<1>4. SmallOK' BY <1>1, <1>2, <1>3 DEF SmallOK
<1>5. NothingLeft' BY <1>1, <1>2, <1>3 DEF NothingLeft
<1>6. OwnKey' BY <1>1, <1>2, <1>3 DEF OwnKey, NothingLeft
<1>7. Written' BY <1>1, <1>2, <1>3 DEF Written, OwnKey
<1>8. CleanupOK' BY <1>1, <1>2, <1>3 DEF CleanupOK, OwnKey
<1>9. PhotoKept' BY <1>1, <1>2, <1>3 DEF PhotoKept, Written, CleanupOK
<1>10. NoOrphan' BY <1>1, <1>2, <1>3 DEF NoOrphan, NothingLeft
<1> QED BY <1>4, <1>5, <1>6, <1>7, <1>8, <1>9, <1>10

\* What is not the photo goes.
LEMMA CheckKeeps ==
    ASSUME PhotoInv, NEW r \in Requests, Check(r)
    PROVE  PhotoOwned'
<1> USE DEF PhotoInv, PhotoOwned, PhotoMoves, Pending, Small
<1>1. pc[r] = "check" /\ UNCHANGED <<photo, account, store, leaked>> BY DEF Check
<1>2. job[r].new # {} BY <1>1 DEF CleanupOK
<1>3. CASE NotCurrent(r)
  <2>1. PhotoMoves(r, "cleanup", {}, job[r].new) BY <1>3, <1>2, PhotoDrop DEF Check
  <2>2. job[r].new \cap photo = {}
    BY <1>3 DEF NotCurrent, SmallOK, NothingLeft
  <2>3. SmallOK' BY <1>3, <1>1, <1>2, <2>1, <2>2 DEF SmallOK
  <2>4. NothingLeft' BY <1>3, <1>1, <1>2, <2>1, <2>2 DEF NothingLeft
  <2>5. OwnKey' BY <1>3, <1>1, <1>2, <2>1, <2>2 DEF OwnKey, NothingLeft
  <2>6. Written' BY <1>3, <1>1, <1>2, <2>1, <2>2 DEF Written, OwnKey
  <2>7. CleanupOK' BY <1>3, <1>1, <1>2, <2>1, <2>2 DEF CleanupOK, OwnKey
  <2>8. PhotoKept' BY <1>3, <1>1, <1>2, <2>1, <2>2 DEF PhotoKept, Written, CleanupOK
  <2>9. NoOrphan' BY <1>3, <1>1, <1>2, <2>1, <2>2 DEF NoOrphan, NothingLeft
  <2> QED BY <2>3, <2>4, <2>5, <2>6, <2>7, <2>8, <2>9
<1>4. CASE ~NotCurrent(r)
  <2>1. photo = job[r].new BY <1>4 DEF NotCurrent
  <2>2. PhotoMoves(r, "idle", {}, {}) BY <1>4, PhotoGoto DEF Check, Done, NoJob
  <2>3. SmallOK' BY <1>4, <1>1, <1>2, <2>1, <2>2 DEF SmallOK
  <2>4. NothingLeft' BY <1>4, <1>1, <1>2, <2>1, <2>2 DEF NothingLeft
  <2>5. OwnKey' BY <1>4, <1>1, <1>2, <2>1, <2>2 DEF OwnKey, NothingLeft
  <2>6. Written' BY <1>4, <1>1, <1>2, <2>1, <2>2 DEF Written, OwnKey
  <2>7. CleanupOK' BY <1>4, <1>1, <1>2, <2>1, <2>2 DEF CleanupOK, OwnKey
  <2>8. PhotoKept' BY <1>4, <1>1, <1>2, <2>1, <2>2 DEF PhotoKept, Written, CleanupOK
  <2>9. NoOrphan' BY <1>4, <1>1, <1>2, <2>1, <2>2 DEF NoOrphan, NothingLeft
  <2> QED BY <2>3, <2>4, <2>5, <2>6, <2>7, <2>8, <2>9
<1> QED BY <1>1, <1>2, <1>3, <1>4

\* Only what nobody uses is deleted.
LEMMA CleanupKeeps ==
    ASSUME PhotoInv, NEW r \in Requests, Cleanup(r)
    PROVE  PhotoOwned'
<1> USE DEF PhotoInv, PhotoOwned, PhotoMoves, Pending, Small
<1>1. PhotoMoves(r, "idle", {}, {}) BY PhotoGoto DEF Cleanup, Done, NoJob
<1>2. /\ pc[r] = "cleanup" /\ store' = store \ job[r].new
      /\ UNCHANGED <<photo, account, leaked>>
  BY DEF Cleanup
<1>3. SmallOK' BY <1>1, <1>2 DEF SmallOK
<1>4. NothingLeft' BY <1>1, <1>2 DEF NothingLeft
<1>5. OwnKey' BY <1>1, <1>2 DEF OwnKey, NothingLeft
<1>6. Written' BY <1>1, <1>2 DEF Written, OwnKey
<1>7. CleanupOK' BY <1>1, <1>2 DEF CleanupOK, OwnKey
<1>8. PhotoKept' BY <1>1, <1>2 DEF PhotoKept, Written, CleanupOK
<1>9. NoOrphan' BY <1>1, <1>2 DEF NoOrphan, NothingLeft
<1> QED BY <1>3, <1>4, <1>5, <1>6, <1>7, <1>8, <1>9

\* A failure lets go of what the request held.
LEMMA FailKeeps ==
    ASSUME PhotoInv, NEW r \in Requests, Fail(r)
    PROVE  PhotoOwned'
<1> USE DEF PhotoInv, PhotoOwned, PhotoMoves, Pending, Small
<1>1. PhotoMoves(r, "idle", {}, {}) BY PhotoGoto DEF Fail, Done, NoJob
<1>2. /\ pc[r] # "idle" /\ leaked' = leaked \cup job[r].new \cup job[r].old
      /\ UNCHANGED <<photo, account, store>>
  BY DEF Fail
<1>3. SmallOK' BY <1>1, <1>2 DEF SmallOK
<1>4. NothingLeft' BY <1>1, <1>2 DEF NothingLeft
<1>5. OwnKey' BY <1>1, <1>2 DEF OwnKey, NothingLeft
<1>6. Written' BY <1>1, <1>2 DEF Written, OwnKey
<1>7. CleanupOK' BY <1>1, <1>2 DEF CleanupOK, OwnKey
<1>8. PhotoKept' BY <1>1, <1>2 DEF PhotoKept, Written, CleanupOK
<1>9. NoOrphan' BY <1>1, <1>2 DEF NoOrphan, NothingLeft
<1> QED BY <1>3, <1>4, <1>5, <1>6, <1>7, <1>8, <1>9

\* The photo of a deleted account goes with it.
LEMMA DeleteAccountKeeps ==
    ASSUME PhotoInv, NEW r \in Requests, DeleteAccount(r)
    PROVE  PhotoOwned'
<1> USE DEF PhotoInv, PhotoOwned, PhotoMoves, Pending, Small
<1>1. /\ photo = {} => PhotoMoves(r, "idle", {}, {})
      /\ photo # {} => PhotoMoves(r, "cleanup", {}, photo)
  BY PhotoDrop DEF DeleteAccount
<1>2. /\ pc[r] = "idle" /\ account' = FALSE /\ photo' = {}
      /\ UNCHANGED <<store, leaked>>
  BY DEF DeleteAccount
<1>3. SmallOK' BY <1>1, <1>2 DEF SmallOK
<1>4. NothingLeft' BY <1>1, <1>2 DEF NothingLeft
<1>5. OwnKey' BY <1>1, <1>2 DEF OwnKey, NothingLeft
<1>6. Written' BY <1>1, <1>2 DEF Written, OwnKey
<1>7. CleanupOK' BY <1>1, <1>2 DEF CleanupOK, OwnKey
<1>8. PhotoKept' BY <1>1, <1>2 DEF PhotoKept, Written, CleanupOK
<1>9. NoOrphan' BY <1>1, <1>2 DEF NoOrphan, NothingLeft
<1> QED BY <1>3, <1>4, <1>5, <1>6, <1>7, <1>8, <1>9

\* Every step keeps the invariant.
LEMMA PhotoStep == PhotoInv /\ [Next]_vars => PhotoInv'
<1> SUFFICES ASSUME PhotoInv, [Next]_vars PROVE PhotoInv' OBVIOUS
<1>1. PhotoShape' BY PhotoShapeStep DEF PhotoInv
<1>2. ASSUME NEW r \in Requests,
             \/ BeginUpload(r) \/ BeginDelete(r) \/ Put(r) \/ PutFails(r)
             \/ Swap(r) \/ SwapFails(r) \/ Check(r) \/ Cleanup(r) \/ Fail(r)
             \/ DeleteAccount(r)
      PROVE  PhotoOwned'
  BY <1>2, BeginUploadKeeps, BeginDeleteKeeps, PutKeeps, PutFailsKeeps, SwapKeeps,
     SwapFailsKeeps, CheckKeeps, CleanupKeeps, FailKeeps, DeleteAccountKeeps
<1>3. CASE UNCHANGED vars
  BY <1>1, <1>3
     DEF vars, PhotoInv, PhotoOwned, SmallOK, NothingLeft, OwnKey, Pending, Written, CleanupOK,
                    PhotoKept, NoOrphan
<1> QED BY <1>1, <1>2, <1>3 DEF Next, PhotoInv

\* The invariant holds in every state.
LEMMA PhotoInvariance == AllSpec => []PhotoInv
<1>1. ASSUME Init PROVE PhotoInv
  <2> USE <1>1 DEF Init, NoJob
  <2>1. PhotoShape
    <3>1. account \in BOOLEAN /\ photo \subseteq drawn /\ store \subseteq drawn OBVIOUS
    <3>2. drawn \subseteq Keys /\ leaked \subseteq drawn OBVIOUS
    <3>3. pc \in [Requests -> {"idle", "put", "swap", "check", "cleanup"}] BY Zenon
    <3>4. job \in [Requests -> [old : SUBSET drawn, new : SUBSET drawn]] OBVIOUS
    <3> QED BY <3>1, <3>2, <3>3, <3>4 DEF PhotoShape
  <2>2. SmallOK /\ NothingLeft /\ OwnKey BY DEF SmallOK, Small, NothingLeft, OwnKey, Pending
  <2>3. Written /\ CleanupOK /\ PhotoKept /\ NoOrphan
    BY DEF Written, CleanupOK, PhotoKept, NoOrphan
  <2> QED BY <2>1, <2>2, <2>3 DEF PhotoInv, PhotoOwned
<1>2. AllInit => PhotoInv BY <1>1 DEF AllInit
<1>3. PhotoInv /\ [AllNext]_allVars => PhotoInv' BY PartSteps, PhotoStep
<1> QED BY <1>2, <1>3, PTL DEF AllSpec

\* The row refers to one object at most, and every key that is anywhere was drawn by an upload.
LEMMA PhotoTypes == PhotoInv => TypeOK
<1> SUFFICES ASSUME PhotoInv PROVE TypeOK OBVIOUS
<1>1. CASE photo = {}
  <2>1. Cardinality(photo) = 0 BY <1>1, FS_EmptySet
  <2> QED BY <2>1 DEF PhotoInv, PhotoShape, TypeOK
<1>2. ASSUME NEW k \in Keys, photo = {k} PROVE TypeOK
  <2>1. Cardinality(photo) = 1 BY <1>2, FS_Singleton
  <2> QED BY <2>1 DEF PhotoInv, PhotoShape, TypeOK
<1> QED BY <1>1, <1>2 DEF PhotoInv, PhotoOwned, SmallOK, Small

\* However uploads, deletions, their failures and the deletion of the account interleave, the
\* row never refers to an object that is gone, and an object that is not in use is either held
\* by a request that will delete it or was let go by a failure.
THEOREM ObjectsAccountedHolds == AllSpec => []ObjectsAccounted
<1>1. PhotoInv => ObjectsAccounted BY DEF PhotoInv, PhotoOwned, ObjectsAccounted
<1> QED BY <1>1, PhotoInvariance, PTL

-----------------------------------------------------------------------------
\* LoginLimit: the wrong passwords for an address.

\* Requests that have passed the limit and may still count.
Guessing == {r \in Clients : lPc[r] = "password"}

\* Each of them has room left under the bound.
RoomLeft == lFails + Cardinality(Guessing) <= FailLimit - 1 + Cardinality(Clients)

LoginInv == Logins!TypeOK /\ Logins!LockEnds /\ RoomLeft

\* The sets that are counted are finite, and no larger than that of the requests.
LEMMA GuessingFinite ==
    ASSUME IsFiniteSet(Clients)
    PROVE  /\ IsFiniteSet(Guessing) /\ Cardinality(Guessing) \in Nat
           /\ Cardinality(Clients) \in Nat
           /\ Cardinality(Guessing) <= Cardinality(Clients)
<1>1. Guessing \subseteq Clients BY DEF Guessing
<1> QED BY <1>1, FS_Subset, FS_CardinalityType

\* A request that leaves the password step leaves the count.
LEMMA GuessingShrinks ==
    ASSUME IsFiniteSet(Clients), Logins!TypeOK, NEW r \in Clients, lPc[r] = "password",
           NEW step, step # "password", lPc' = [lPc EXCEPT ![r] = step]
    PROVE  Cardinality(Guessing') = Cardinality(Guessing) - 1
<1>1. Guessing' = Guessing \ {r} BY DEF Guessing, Logins!TypeOK
<1>2. r \in Guessing BY DEF Guessing
<1> QED BY <1>1, <1>2, GuessingFinite, FS_RemoveElement

\* A request at another step that does not enter it leaves the count alone.
LEMMA GuessingSame ==
    ASSUME Logins!TypeOK, NEW r \in Clients, lPc[r] # "password",
           NEW step, step # "password", lPc' = [lPc EXCEPT ![r] = step]
    PROVE  Guessing' = Guessing
BY DEF Guessing, Logins!TypeOK

\* The type invariant holds in the initial state and is kept by every step.
LEMMA LoginTypeStep == Logins!TypeOK /\ [Logins!Next]_lVars => Logins!TypeOK'
<1> SUFFICES ASSUME Logins!TypeOK, [Logins!Next]_lVars PROVE Logins!TypeOK' OBVIOUS
<1> USE DEF Logins!TypeOK, Logins!Goto, Logins!Cleared
<1>1. ASSUME NEW r \in Clients, Logins!Check(r) PROVE Logins!TypeOK' BY <1>1 DEF Logins!Check
<1>7. ASSUME NEW r \in Clients, Logins!Refuse(r) PROVE Logins!TypeOK' BY <1>7 DEF Logins!Refuse
<1>8. ASSUME NEW r \in Clients, Logins!Succeed(r) PROVE Logins!TypeOK' BY <1>8 DEF Logins!Succeed
<1>2. ASSUME NEW r \in Clients, Logins!Fail(r) PROVE Logins!TypeOK' BY <1>2 DEF Logins!Fail
<1>3. ASSUME NEW r \in Clients, Logins!SetExpiry(r)
      PROVE  Logins!TypeOK' BY <1>3 DEF Logins!SetExpiry
<1>4. ASSUME NEW r \in Clients, Logins!Stop(r) PROVE Logins!TypeOK' BY <1>4 DEF Logins!Stop
<1>5. CASE Logins!Expire BY <1>5 DEF Logins!Expire
<1>6. CASE UNCHANGED lVars BY <1>6 DEF lVars
<1> QED BY <1>1, <1>2, <1>3, <1>4, <1>5, <1>6, <1>7, <1>8 DEF Logins!Next

\* A counter without an expiry keeps someone who gives it one, or its excuse.
LEMMA LoginLockStep == Logins!TypeOK /\ Logins!LockEnds /\ [Logins!Next]_lVars => Logins!LockEnds'
<1> SUFFICES ASSUME Logins!TypeOK, Logins!LockEnds, [Logins!Next]_lVars
             PROVE  Logins!LockEnds'
  OBVIOUS
<1> USE DEF Logins!TypeOK, Logins!LockEnds, Logins!Goto, Logins!Cleared
<1>1. ASSUME NEW r \in Clients, Logins!Check(r) \/ Logins!Refuse(r) PROVE Logins!LockEnds'
  BY <1>1 DEF Logins!Check, Logins!Refuse
<1>2. ASSUME NEW r \in Clients, Logins!Fail(r) PROVE Logins!LockEnds'
  <2>1. CASE lFails = 0 BY <1>2, <2>1 DEF Logins!Fail, Logins!First
  <2>2. CASE lFails > 0 BY <1>2, <2>2 DEF Logins!Fail, Logins!First
  <2> QED BY <2>1, <2>2
<1>3. ASSUME NEW r \in Clients, Logins!SetExpiry(r)
      PROVE  Logins!LockEnds' BY <1>3 DEF Logins!SetExpiry
<1>4. ASSUME NEW r \in Clients, Logins!Stop(r) PROVE Logins!LockEnds' BY <1>4 DEF Logins!Stop
<1>5. ASSUME NEW r \in Clients, Logins!Succeed(r) PROVE Logins!LockEnds' BY <1>5 DEF Logins!Succeed
<1>6. CASE Logins!Expire BY <1>6 DEF Logins!Expire
<1>7. CASE UNCHANGED lVars BY <1>7 DEF lVars
<1> QED BY <1>1, <1>2, <1>3, <1>4, <1>5, <1>6, <1>7 DEF Logins!Next

\* A request enters the count only below the limit, and a wrong password takes its room along.
LEMMA LoginRoomStep ==
    ASSUME IsFiniteSet(Clients), FailLimit \in Nat \ {0}, Logins!TypeOK, RoomLeft, [Logins!Next]_lVars
    PROVE  RoomLeft'
<1> USE GuessingFinite DEF RoomLeft
<1>0. Logins!TypeOK' BY LoginTypeStep
<1>1. lFails \in Nat /\ lFails' \in Nat BY <1>0 DEF Logins!TypeOK
<1>2. /\ Cardinality(Guessing') \in Nat
      /\ Cardinality(Guessing') <= Cardinality(Clients)
  <2>1. Guessing' \subseteq Clients BY DEF Guessing
  <2> QED BY <2>1, FS_Subset, FS_CardinalityType
<1>3. ASSUME NEW r \in Clients, Logins!Check(r) PROVE RoomLeft'
  BY <1>1, <1>2, <1>3 DEF Logins!Check, Logins!Open
<1>4. ASSUME NEW r \in Clients, Logins!Fail(r) PROVE RoomLeft'
  <2> DEFINE step == IF Logins!First(lFails + 1) THEN "expire" ELSE "idle"
  <2>1. step # "password" /\ lPc[r] = "password" /\ lPc' = [lPc EXCEPT ![r] = step]
    BY <1>4 DEF Logins!Fail, Logins!Goto
  <2> HIDE DEF step
  <2>2. Cardinality(Guessing') = Cardinality(Guessing) - 1 BY <2>1, GuessingShrinks
  <2> QED BY <1>1, <1>4, <2>2 DEF Logins!Fail
<1>5. ASSUME NEW r \in Clients, Logins!Refuse(r) PROVE RoomLeft'
  <2>1. Cardinality(Guessing') = Cardinality(Guessing) - 1
    BY <1>5, GuessingShrinks DEF Logins!Refuse, Logins!Goto
  <2> QED BY <1>1, <1>5, <2>1 DEF Logins!Refuse
<1>6. ASSUME NEW r \in Clients, Logins!SetExpiry(r) PROVE RoomLeft'
  <2>1. Guessing' = Guessing BY <1>6, GuessingSame DEF Logins!SetExpiry, Logins!Goto
  <2> QED BY <1>6, <2>1 DEF Logins!SetExpiry
<1>7. ASSUME NEW r \in Clients, Logins!Stop(r) PROVE RoomLeft'
  <2>1. CASE lPc[r] = "password"
    <3>1. Cardinality(Guessing') = Cardinality(Guessing) - 1
      BY <1>7, <2>1, GuessingShrinks DEF Logins!Stop, Logins!Goto
    <3> QED BY <1>1, <1>7, <3>1 DEF Logins!Stop
  <2>2. CASE lPc[r] # "password"
    <3>1. Guessing' = Guessing BY <1>7, <2>2, GuessingSame DEF Logins!Stop, Logins!Goto
    <3> QED BY <1>7, <3>1 DEF Logins!Stop
  <2> QED BY <2>1, <2>2
<1>8. ASSUME NEW r \in Clients, Logins!Succeed(r) PROVE RoomLeft'
  BY <1>2, <1>8 DEF Logins!Succeed, Logins!Cleared
<1>9. CASE Logins!Expire BY <1>2, <1>9 DEF Logins!Expire, Logins!Cleared
<1>10. CASE UNCHANGED lVars BY <1>10 DEF lVars, Guessing
<1> QED BY <1>3, <1>4, <1>5, <1>6, <1>7, <1>8, <1>9, <1>10 DEF Logins!Next

\* The invariant holds in every state.
LEMMA LoginInvariance == AllSpec => []LoginInv
<1>1. Logins!Init => LoginInv
  <2>1. ASSUME Logins!Init PROVE Guessing = {} BY <2>1 DEF Logins!Init, Guessing
  <2>2. Cardinality(Clients) \in Nat BY LoginsAssumption, FS_CardinalityType
  <2>3. ASSUME Logins!Init PROVE Logins!TypeOK
    <3>1. lFails \in Nat BY <2>3 DEF Logins!Init
    <3>2. lExpiring \in BOOLEAN /\ lCut \in BOOLEAN BY <2>3, Zenon DEF Logins!Init
    <3>3. lPc \in [Clients -> {"idle", "password", "expire"}] BY <2>3, Zenon DEF Logins!Init
    <3> QED BY <3>1, <3>2, <3>3 DEF Logins!TypeOK
  <2>7. Logins!Init => Logins!LockEnds BY DEF Logins!Init, Logins!LockEnds
  <2>4. Logins!Init => lFails = 0 BY DEF Logins!Init
  <2>5. Cardinality({}) = 0 BY FS_EmptySet
  <2>6. Logins!Init => RoomLeft BY <2>1, <2>2, <2>4, <2>5, LoginsAssumption DEF RoomLeft
  <2> QED BY <2>3, <2>6, <2>7 DEF LoginInv
<1>2. LoginInv /\ [Logins!Next]_lVars => LoginInv'
  BY LoginsAssumption, LoginTypeStep, LoginLockStep, LoginRoomStep DEF LoginInv
<1>3. AllInit => LoginInv BY <1>1 DEF AllInit
<1>4. LoginInv /\ [AllNext]_allVars => LoginInv' BY <1>2, PartSteps
<1> QED BY <1>3, <1>4, PTL DEF AllSpec

\* An address guesses at most FailLimit - 1 times and once per concurrent login between two
\* resets of its counter, and a counter that stays without its expiry is one a stopped request
\* left.
THEOREM AddressGuardedHolds == AllSpec => []AddressGuarded
<1>1. LoginInv => Logins!AddressGuarded
  <2> SUFFICES ASSUME LoginInv PROVE Logins!AddressGuarded OBVIOUS
  <2>1. lFails \in Nat /\ Cardinality(Guessing) \in Nat /\ Cardinality(Clients) \in Nat
    BY LoginsAssumption, GuessingFinite DEF LoginInv, Logins!TypeOK
  <2>2. Logins!GuessesBounded
    BY <2>1, LoginsAssumption
    DEF LoginInv, RoomLeft, Logins!GuessesBounded, Logins!Cardinality, Cardinality
  <2> QED BY <2>2 DEF LoginInv, Logins!AddressGuarded
<1> QED BY <1>1, LoginInvariance, PTL DEF AddressGuarded

-----------------------------------------------------------------------------
\* Inquiries: what a retry and a thread are answered.

SupportSteps == {"idle", "lock", "prior", "count", "commit", "status", "publish", "refused"}
Locked == {"prior", "count", "commit", "status"}

\* The types of the variables.
SupportShape ==
    /\ qMessages \in [Threads -> SUBSET Support!Ids] /\ qStatus \in [Threads -> Support!Statuses]
    /\ qTold \in [Threads \X Support!Ids -> Nat]
    /\ qPc \in [Requests -> SupportSteps]
    /\ qJob \in [Requests -> [thread : SUBSET Threads, message : SUBSET Support!Ids,
                             to : Support!Statuses, read : Support!Statuses]]

\* The lock is held between Lock and the end of the transaction, by one request a row.
LockOK ==
    /\ qHolder = {r \in Requests : qPc[r] \in Locked}
    /\ \A q, r \in qHolder : q # r => Support!Row(q) # Support!Row(r)

\* A request is about one thread: it creates it with its own id, adds one reply or none.
JobOK ==
    \A r \in Requests : qPc[r] # "idle" =>
        \E t \in Threads :
            /\ qJob[r].thread = {t}
            /\ \/ qJob[r].message = {} \/ qJob[r].message = {t}
               \/ \E m \in Replies : qJob[r].message = {m}
            /\ qPc[r] \in {"prior", "count", "commit"} => qJob[r].message # {}
            /\ qPc[r] = "count" => qJob[r].message # {t}
            /\ qPc[r] = "status" => qJob[r].message = {}

\* A thread begins with the message of its own id, and what is not a create is about a
\* thread that exists.
ThreadOK ==
    /\ \A t \in Threads : Support!Exists(t) => t \in qMessages[t]
    /\ \A r \in Requests, t \in Threads :
          qPc[r] # "idle" /\ qJob[r].thread = {t} /\ qJob[r].message # {t} => Support!Exists(t)

\* What a request has read under the lock is still so.
ReadOK ==
    \A r \in Requests, t \in Threads :
        /\ qPc[r] \in {"count", "commit"} => ~Support!Known(r)
        /\ qPc[r] \in Locked /\ qJob[r].thread = {t} /\ qJob[r].message # {t}
              => qJob[r].read = qStatus[t]
        /\ qPc[r] = "commit" /\ qJob[r].thread = {t} /\ qJob[r].message # {t}
              => qJob[r].read # "closed" /\ Support!Room(t)

\* What was notified is there.
ToldOK == \A t \in Threads, m \in Support!Ids : qTold[<<t, m>>] > 0 => m \in qMessages[t]

SupportOrderly == LockOK /\ JobOK /\ ThreadOK /\ ReadOK /\ ToldOK

SupportInv == SupportShape /\ SupportOrderly
-----------------------------------------------------------------------------
\* The variables keep their types.
LEMMA SupportShapeStep == SupportShape /\ [Support!Next]_qVars => SupportShape'
<1> SUFFICES ASSUME SupportShape, [Support!Next]_qVars PROVE SupportShape' OBVIOUS
<1> USE DEF SupportShape, Support!Goto, Support!End, Support!Begin
<1>1. Support!NoJob \in [thread : SUBSET Threads, message : SUBSET Support!Ids,
                        to : Support!Statuses, read : Support!Statuses]
  BY DEF Support!NoJob, Support!Statuses
<1>2. ASSUME NEW r \in Requests, NEW t \in Threads, Support!Create(r, t) PROVE SupportShape'
  BY <1>1, <1>2 DEF Support!Create, Support!Ids, SupportSteps
<1>3. ASSUME NEW r \in Requests, NEW t \in Threads, NEW m \in Replies, Support!Reply(r, t, m)
      PROVE  SupportShape'
  BY <1>1, <1>3 DEF Support!Reply, Support!Ids, SupportSteps
<1>4. ASSUME NEW r \in Requests, NEW t \in Threads, NEW s \in Support!Statuses, Support!SetStatus(r, t, s)
      PROVE  SupportShape'
  BY <1>1, <1>4 DEF Support!SetStatus, SupportSteps
<1>5. ASSUME NEW r \in Requests, Support!Lock(r)
      PROVE  SupportShape' BY <1>5 DEF Support!Lock, SupportSteps
<1>6. ASSUME NEW r \in Requests, Support!Prior(r)
      PROVE  SupportShape' BY <1>6 DEF Support!Prior, SupportSteps
<1>7. ASSUME NEW r \in Requests, Support!Count(r)
      PROVE  SupportShape' BY <1>7 DEF Support!Count, SupportSteps
<1>8. ASSUME NEW r \in Requests, Support!Commit(r) PROVE SupportShape'
  <2>1. PICK t \in qJob[r].thread : \E m \in qJob[r].message :
            \/ UNCHANGED <<qMessages, qTold>>
            \/ /\ qMessages' = [qMessages EXCEPT ![t] = @ \cup {m}]
               /\ qTold' = [qTold EXCEPT ![<<t, m>>] = @ + 1]
    BY <1>8 DEF Support!Commit
  <2>2. t \in Threads /\ qJob[r].message \subseteq Support!Ids OBVIOUS
  <2>3. qMessages' \in [Threads -> SUBSET Support!Ids] BY <2>1, <2>2
  <2>4. qTold' \in [Threads \X Support!Ids -> Nat]
    <3>1. qTold \in [Threads \X Support!Ids -> Nat] OBVIOUS
    <3>2. CASE UNCHANGED qTold BY <3>1, <3>2
    <3>3. ASSUME NEW m \in qJob[r].message, qTold' = [qTold EXCEPT ![<<t, m>>] = @ + 1]
          PROVE  qTold' \in [Threads \X Support!Ids -> Nat]
      <4> DEFINE x == <<t, m>>
      <4>1. x \in Threads \X Support!Ids BY <2>2
      <4> HIDE DEF x
      <4>2. \A D : \A f \in [D -> Nat], y \in D : [f EXCEPT ![y] = @ + 1] \in [D -> Nat] OBVIOUS
      <4> QED BY <3>1, <3>3, <4>1, <4>2 DEF x
    <3> QED BY <2>1, <3>2, <3>3
  <2>5. qPc' \in [Requests -> SupportSteps] BY <1>8 DEF Support!Commit, SupportSteps
  <2> QED BY <1>8, <2>3, <2>4, <2>5 DEF Support!Commit
<1>9. ASSUME NEW r \in Requests, Support!ChangeStatus(r)
      PROVE  SupportShape' BY <1>9 DEF Support!ChangeStatus, SupportSteps
<1>10. ASSUME NEW r \in Requests, Support!Answer(r) \/ Support!Stop(r) PROVE SupportShape'
  BY <1>10 DEF Support!Answer, Support!Stop, SupportSteps
<1>11. CASE UNCHANGED qVars BY <1>11 DEF qVars
<1> QED BY <1>2, <1>3, <1>4, <1>5, <1>6, <1>7, <1>8, <1>9, <1>10, <1>11 DEF Support!Next
-----------------------------------------------------------------------------
\* A request that begins disturbs nobody.
LEMMA SupportBeginKeeps ==
    ASSUME SupportInv, NEW r \in Requests, NEW t \in Threads, NEW j, Support!Begin(r, "lock", j),
           j.thread = {t},
           j.message = {} \/ j.message = {t} \/ \E m \in Replies : j.message = {m},
           j.message # {t} => Support!Exists(t)
    PROVE  SupportOrderly'
<1> USE DEF SupportInv, SupportOrderly
<1>1. /\ qPc[r] = "idle" /\ qPc'[r] = "lock" /\ qJob'[r] = j
      /\ \A q \in Requests \ {r} : qPc'[q] = qPc[q] /\ qJob'[q] = qJob[q]
      /\ UNCHANGED <<qMessages, qStatus, qTold, qHolder>>
  BY DEF Support!Begin, SupportShape
<1>2. LockOK' BY <1>1 DEF LockOK, Support!Row, Locked
<1>3. JobOK' BY <1>1 DEF JobOK
<1>4. ThreadOK' BY <1>1 DEF ThreadOK, Support!Exists
<1>5. ReadOK' BY <1>1 DEF ReadOK, Support!Known, Support!Room, Locked
<1>6. ToldOK' BY <1>1 DEF ToldOK
<1> QED BY <1>2, <1>3, <1>4, <1>5, <1>6

\* A request that is over without having changed anything disturbs nobody.
LEMMA SupportOverKeeps ==
    ASSUME SupportInv, NEW r \in Requests, qPc[r] # "idle", NEW step \in {"idle", "refused"},
           Support!Goto(r, step), qHolder' = qHolder \ {r}, UNCHANGED <<qMessages, qStatus, qTold, qJob>>
    PROVE  SupportOrderly'
<1> USE DEF SupportInv, SupportOrderly
<1>1. qPc'[r] = step /\ \A q \in Requests \ {r} : qPc'[q] = qPc[q] BY DEF Support!Goto, SupportShape
<1>2. LockOK' BY <1>1 DEF LockOK, Support!Row, Locked
<1>3. JobOK' BY <1>1 DEF JobOK
<1>4. ThreadOK' BY <1>1 DEF ThreadOK, Support!Exists
<1>5. ReadOK' BY <1>1 DEF ReadOK, Support!Known, Support!Room, Locked
<1>6. ToldOK' BY <1>1 DEF ToldOK
<1> QED BY <1>2, <1>3, <1>4, <1>5, <1>6

\* The lock is taken when nobody holds the row, and the status is read under it.
LEMMA LockKeeps ==
    ASSUME SupportInv, NEW r \in Requests, Support!Lock(r)
    PROVE  SupportOrderly'
<1> USE DEF SupportInv, SupportOrderly
<1>1. PICK t \in Threads : qJob[r].thread = {t} /\ qPc[r] = "lock"
  BY DEF Support!Lock, JobOK
<1>2. /\ qJob[r].message = {} => qPc'[r] = "status"
      /\ qJob[r].message # {} => qPc'[r] = "prior"
      /\ \A q \in Requests \ {r} : qPc'[q] = qPc[q] /\ qJob'[q] = qJob[q]
      /\ qHolder' = qHolder \cup {r} /\ UNCHANGED <<qMessages, qStatus, qTold>>
  BY <1>1 DEF Support!Lock, Support!Goto, SupportShape
<1>3. /\ qJob'[r].thread = {t} /\ qJob'[r].message = qJob[r].message
      /\ qJob'[r].read = qStatus[t]
  BY <1>1 DEF Support!Lock, SupportShape
<1>4. LockOK'
  <2>1. qHolder' = {q \in Requests : qPc'[q] \in Locked} BY <1>1, <1>2 DEF LockOK, Locked
  <2>2. \A q \in qHolder : q # r /\ Support!Row(q) # Support!Row(r)
    BY <1>1 DEF Support!Lock, Support!Unlocked, LockOK, Locked
  <2>3. \A q \in Requests : Support!Row(q)' = Support!Row(q) BY <1>1, <1>2, <1>3 DEF Support!Row
  <2> QED BY <1>2, <2>1, <2>2, <2>3 DEF LockOK
<1>5. JobOK' BY <1>1, <1>2, <1>3 DEF JobOK
<1>6. ThreadOK' BY <1>1, <1>2, <1>3 DEF ThreadOK, Support!Exists
<1>7. ReadOK' BY <1>1, <1>2, <1>3 DEF ReadOK, Support!Known, Support!Room, Locked
<1>8. ToldOK' BY <1>2 DEF ToldOK
<1> QED BY <1>4, <1>5, <1>6, <1>7, <1>8

\* A request that is new goes on: a create to its commit, a reply to the limits.
LEMMA PriorKeeps ==
    ASSUME SupportInv, NEW r \in Requests, Support!Prior(r)
    PROVE  SupportOrderly'
<1> USE DEF SupportInv, SupportOrderly
<1>1. PICK t \in Threads : qJob[r].thread = {t} /\ qPc[r] = "prior" BY DEF Support!Prior, JobOK
<1>2. CASE Support!Known(r)
  <2>1. /\ Support!Goto(r, "idle") /\ qHolder' = qHolder \ {r}
        /\ UNCHANGED <<qMessages, qStatus, qTold, qJob>>
    BY <1>1, <1>2 DEF Support!Prior, Support!RetryFirst, Support!End
  <2> QED BY <1>1, <2>1, SupportOverKeeps
<1>3. CASE ~Support!Known(r)
  <2>1. /\ qPc'[r] = IF qJob[r].message = {t} THEN "commit" ELSE "count"
        /\ \A q \in Requests \ {r} : qPc'[q] = qPc[q]
        /\ UNCHANGED <<qMessages, qStatus, qTold, qJob, qHolder>>
    BY <1>1, <1>3 DEF Support!Prior, Support!RetryFirst, Support!Goto, SupportShape
  <2>2. LockOK' BY <1>1, <2>1 DEF LockOK, Support!Row, Locked
  <2>3. JobOK' BY <1>1, <2>1 DEF JobOK
  <2>4. ThreadOK' BY <1>1, <2>1 DEF ThreadOK, Support!Exists
  <2>5. ReadOK' BY <1>1, <1>3, <2>1 DEF ReadOK, Support!Known, Support!Room, Locked
  <2>6. ToldOK' BY <2>1 DEF ToldOK
  <2> QED BY <2>2, <2>3, <2>4, <2>5, <2>6
<1> QED BY <1>2, <1>3

\* A reply goes on when the thread is open and has room.
LEMMA CountKeeps ==
    ASSUME SupportInv, NEW r \in Requests, Support!Count(r)
    PROVE  SupportOrderly'
<1> USE DEF SupportInv, SupportOrderly
<1>1. PICK t \in Threads : qJob[r].thread = {t} /\ qPc[r] = "count" BY DEF Support!Count, JobOK
<1>2. CASE qJob[r].read # "closed" /\ Support!Room(t)
  <2>1. /\ qPc'[r] = "commit" /\ \A q \in Requests \ {r} : qPc'[q] = qPc[q]
        /\ UNCHANGED <<qMessages, qStatus, qTold, qJob, qHolder>>
    BY <1>1, <1>2 DEF Support!Count, Support!Goto, SupportShape
  <2>2. LockOK' BY <1>1, <2>1 DEF LockOK, Support!Row, Locked
  <2>3. JobOK' BY <1>1, <2>1 DEF JobOK
  <2>4. ThreadOK' BY <1>1, <2>1 DEF ThreadOK, Support!Exists
  <2>5. ReadOK' BY <1>1, <1>2, <2>1 DEF ReadOK, Support!Known, Support!Room, Locked
  <2>6. ToldOK' BY <2>1 DEF ToldOK
  <2> QED BY <2>2, <2>3, <2>4, <2>5, <2>6
<1>3. CASE ~(qJob[r].read # "closed" /\ Support!Room(t))
  <2>1. /\ Support!Goto(r, "refused") /\ qHolder' = qHolder \ {r}
        /\ UNCHANGED <<qMessages, qStatus, qTold, qJob>>
    BY <1>1, <1>3 DEF Support!Count, Support!End
  <2> QED BY <1>1, <2>1, SupportOverKeeps
<1> QED BY <1>2, <1>3

\* Request r ends by adding message m to thread t, and notifies of it.
Writes(r, t, m) ==
    /\ qJob[r].thread = {t} /\ qJob[r].message = {m} /\ m \notin qMessages[t]
    /\ m # t => m \in Replies
    /\ qPc[r] = "commit" /\ qPc'[r] = "publish"
    /\ \A q \in Requests \ {r} : qPc'[q] = qPc[q]
    /\ qHolder' = qHolder \ {r} /\ UNCHANGED <<qStatus, qJob>>
    /\ qMessages'[t] = qMessages[t] \cup {m}
    /\ \A u \in Threads \ {t} : qMessages'[u] = qMessages[u]
    /\ qTold'[<<t, m>>] = qTold[<<t, m>>] + 1
    /\ \A x \in (Threads \X Support!Ids) \ {<<t, m>>} : qTold'[x] = qTold[x]

\* A commit finds its message missing, as it was when the request looked for it.
LEMMA CommitDoes ==
    ASSUME SupportInv, NEW r \in Requests, Support!Commit(r)
    PROVE  \E t \in Threads, m \in Support!Ids : Writes(r, t, m)
<1> USE DEF SupportInv, SupportOrderly
<1>1. PICK t \in Threads : qJob[r].thread = {t} /\ qPc[r] = "commit" BY DEF Support!Commit, JobOK
<1>2. PICK m \in Support!Ids : qJob[r].message = {m} /\ (m # t => m \in Replies)
  BY <1>1 DEF JobOK, Support!Ids
<1>3. ~Support!Known(r) BY <1>1 DEF ReadOK
<1>4. m \notin qMessages[t] BY <1>1, <1>2, <1>3 DEF Support!Known
<1>5. /\ qMessages' = [qMessages EXCEPT ![t] = @ \cup {m}]
      /\ qTold' = [qTold EXCEPT ![<<t, m>>] = @ + 1]
      /\ Support!Goto(r, "publish") /\ qHolder' = qHolder \ {r} /\ UNCHANGED <<qStatus, qJob>>
  BY <1>1, <1>2, <1>3 DEF Support!Commit, Support!End
<1>6. qPc'[r] = "publish" /\ \A q \in Requests \ {r} : qPc'[q] = qPc[q]
  BY <1>5 DEF Support!Goto, SupportShape
<1>7. /\ qMessages'[t] = qMessages[t] \cup {m}
      /\ \A u \in Threads \ {t} : qMessages'[u] = qMessages[u]
  BY <1>5 DEF SupportShape
<1>8. /\ qTold'[<<t, m>>] = qTold[<<t, m>>] + 1
      /\ \A x \in (Threads \X Support!Ids) \ {<<t, m>>} : qTold'[x] = qTold[x]
  BY <1>5 DEF SupportShape
<1> QED BY <1>1, <1>2, <1>4, <1>5, <1>6, <1>7, <1>8 DEF Writes

\* The others that hold a lock hold that of another row, or are about another message.
LEMMA CommitKeeps ==
    ASSUME SupportInv, NEW r \in Requests, Support!Commit(r)
    PROVE  SupportOrderly'
<1> USE DEF SupportInv, SupportOrderly, Writes
<1>1. PICK t \in Threads : \E m \in Support!Ids : Writes(r, t, m) BY CommitDoes
<1>2. PICK m \in Support!Ids : Writes(r, t, m) BY <1>1
<1>3. LockOK' BY <1>2 DEF LockOK, Support!Row, Locked
<1>4. JobOK' BY <1>2 DEF JobOK
<1>5. ThreadOK' BY <1>2 DEF ThreadOK, Support!Exists
<1>6. ReadOK'
  <2>1. ASSUME NEW q \in Requests \ {r}, qPc[q] \in Locked, qJob[q].thread = {t},
               qJob[q].message # {t}
        PROVE  m = t /\ t \in qMessages[t]
    <3>1. Support!Row(q) = {t} BY <2>1 DEF Support!Row
    <3>2. q \in qHolder /\ r \in qHolder BY <1>2, <2>1 DEF LockOK, Locked
    <3>5. Support!Row(r) # {t} BY <3>1, <3>2 DEF LockOK
    <3>3. m = t BY <1>2, <3>5 DEF Support!Row
    <3>4. t \in qMessages[t] BY <2>1 DEF ThreadOK, Locked
    <3> QED BY <3>3, <3>4
  <2>2. ASSUME NEW q \in Requests \ {r}, qPc[q] \in {"count", "commit"} PROVE ~Support!Known(q)'
    <3>1. ~Support!Known(q) BY <2>2 DEF ReadOK
    <3>2. PICK u \in Threads : qJob[q].thread = {u} /\ qJob[q].message # {} BY <2>2 DEF JobOK
    <3>3. CASE u # t BY <1>2, <3>1, <3>2, <3>3 DEF Support!Known
    <3>4. CASE u = t /\ qJob[q].message # {t}
      BY <1>2, <2>1, <2>2, <3>2, <3>4 DEF Locked
    <3>5. CASE u = t /\ qJob[q].message = {t}
      <4>1. Support!Row(q) = {} BY <3>2, <3>5 DEF Support!Row
      <4>4. q \in qHolder /\ r \in qHolder BY <1>2, <2>2 DEF LockOK, Locked
      <4>2. Support!Row(r) # {} BY <4>1, <4>4 DEF LockOK
      <4>3. m # t BY <1>2, <4>2 DEF Support!Row
      <4> QED BY <1>2, <3>1, <3>2, <3>5, <4>3 DEF Support!Known
    <3> QED BY <3>3, <3>4, <3>5
  <2>3. ASSUME NEW q \in Requests \ {r}, NEW u \in Threads, qPc[q] = "commit",
               qJob[q].thread = {u}, qJob[q].message # {u}
        PROVE  qJob[q].read # "closed" /\ Support!Room(u)'
    <3>1. qJob[q].read # "closed" /\ Support!Room(u) BY <2>3 DEF ReadOK
    <3>2. u # t BY <1>2, <2>1, <2>3 DEF Locked
    <3> QED BY <1>2, <3>1, <3>2 DEF Support!Room
  <2> QED BY <1>2, <2>2, <2>3 DEF ReadOK, Locked
<1>7. ToldOK'
  <2>1. ASSUME NEW u \in Threads, NEW n \in Support!Ids, qTold'[<<u, n>>] > 0
        PROVE  n \in qMessages'[u]
    <3>1. CASE u = t /\ n = m BY <1>2, <3>1
    <3>2. CASE u = t /\ n # m BY <1>2, <2>1, <3>2 DEF ToldOK
    <3>3. CASE u # t BY <1>2, <2>1, <3>3 DEF ToldOK
    <3> QED BY <3>1, <3>2, <3>3
  <2> QED BY <2>1 DEF ToldOK
<1> QED BY <1>3, <1>4, <1>5, <1>6, <1>7

\* A status is set under the lock of the thread's row.
LEMMA ChangeStatusKeeps ==
    ASSUME SupportInv, NEW r \in Requests, Support!ChangeStatus(r)
    PROVE  SupportOrderly'
<1> USE DEF SupportInv, SupportOrderly
<1>1. PICK t \in Threads : qJob[r].thread = {t} /\ qJob[r].message = {} /\ qPc[r] = "status"
  BY DEF Support!ChangeStatus, JobOK
<1>2. /\ qPc'[r] \in {"idle", "publish"} /\ \A q \in Requests \ {r} : qPc'[q] = qPc[q]
      /\ \A u \in Threads \ {t} : qStatus'[u] = qStatus[u]
      /\ qHolder' = qHolder \ {r} /\ UNCHANGED <<qMessages, qTold, qJob>>
  BY <1>1 DEF Support!ChangeStatus, Support!End, Support!Goto, SupportShape
<1>3. LockOK' BY <1>1, <1>2 DEF LockOK, Support!Row, Locked
<1>4. JobOK' BY <1>1, <1>2 DEF JobOK
<1>5. ThreadOK' BY <1>1, <1>2 DEF ThreadOK, Support!Exists
<1>6. ReadOK'
  <2>1. Support!Row(r) = {t} BY <1>1 DEF Support!Row
  <2>2. ASSUME NEW q \in Requests \ {r}, NEW u \in Threads, qPc[q] \in Locked,
               qJob[q].thread = {u}, qJob[q].message # {u}
        PROVE  u # t
    BY <1>1, <2>1, <2>2 DEF LockOK, Support!Row, Locked
  <2> QED BY <1>1, <1>2, <2>2 DEF ReadOK, Support!Known, Support!Room, Locked
<1>7. ToldOK' BY <1>2 DEF ToldOK
<1> QED BY <1>3, <1>4, <1>5, <1>6, <1>7

\* Every step keeps the invariant.
LEMMA SupportStep == SupportInv /\ [Support!Next]_qVars => SupportInv'
<1> SUFFICES ASSUME SupportInv, [Support!Next]_qVars PROVE SupportInv' OBVIOUS
<1>0. SupportShape' BY SupportShapeStep DEF SupportInv
<1>1. ASSUME NEW r \in Requests, NEW t \in Threads, Support!Create(r, t) PROVE SupportOrderly'
  <2> DEFINE j == [Support!NoJob EXCEPT !.thread = {t}, !.message = {t}]
  <2>1. Support!Begin(r, "lock", j) BY <1>1 DEF Support!Create
  <2>2. j.thread = {t} /\ j.message = {t} BY DEF Support!NoJob
  <2> QED BY <2>1, <2>2, SupportBeginKeeps
<1>2. ASSUME NEW r \in Requests, NEW t \in Threads, NEW m \in Replies, Support!Reply(r, t, m)
      PROVE  SupportOrderly'
  <2> DEFINE j == [Support!NoJob EXCEPT !.thread = {t}, !.message = {m}]
  <2>1. Support!Begin(r, "lock", j) /\ Support!Exists(t) BY <1>2 DEF Support!Reply
  <2>2. j.thread = {t} /\ j.message = {m} BY DEF Support!NoJob
  <2> QED BY <2>1, <2>2, SupportBeginKeeps
<1>3. ASSUME NEW r \in Requests, NEW t \in Threads, NEW s \in Support!Statuses, Support!SetStatus(r, t, s)
      PROVE  SupportOrderly'
  <2> DEFINE j == [Support!NoJob EXCEPT !.thread = {t}, !.to = s]
  <2>1. Support!Begin(r, "lock", j) /\ Support!Exists(t) BY <1>3 DEF Support!SetStatus
  <2>2. j.thread = {t} /\ j.message = {} BY DEF Support!NoJob
  <2> QED BY <2>1, <2>2, SupportBeginKeeps
<1>4. ASSUME NEW r \in Requests, Support!Answer(r) PROVE SupportOrderly'
  <2>1. qPc[r] # "idle" /\ Support!Goto(r, "idle") /\ UNCHANGED <<qMessages, qStatus, qTold, qJob>>
    BY <1>4 DEF Support!Answer
  <2>2. qHolder' = qHolder \ {r}
    BY <1>4 DEF Support!Answer, SupportInv, SupportOrderly, LockOK, Locked
  <2> QED BY <2>1, <2>2, SupportOverKeeps
<1>5. ASSUME NEW r \in Requests, Support!Stop(r) PROVE SupportOrderly'
  BY <1>5, SupportOverKeeps DEF Support!Stop, Support!End
<1>6. CASE UNCHANGED qVars
  <2> USE <1>6 DEF qVars, SupportInv, SupportOrderly
  <2>1. LockOK' /\ JobOK' BY DEF LockOK, Support!Row, JobOK
  <2>2. ThreadOK' /\ ReadOK' BY DEF ThreadOK, Support!Exists, ReadOK, Support!Known, Support!Room
  <2>3. ToldOK' BY DEF ToldOK
  <2> QED BY <1>0, <2>1, <2>2, <2>3
<1>7. SupportOrderly'
  BY <1>1, <1>2, <1>3, <1>4, <1>5, <1>6, LockKeeps, PriorKeeps, CountKeeps, CommitKeeps,
     ChangeStatusKeeps DEF Support!Next, SupportInv
<1> QED BY <1>0, <1>7 DEF SupportInv

\* The invariant holds in every state.
LEMMA SupportInvariance == AllSpec => []SupportInv
<1>1. ASSUME Support!Init PROVE SupportInv
  <2> USE <1>1 DEF Support!Init
  <2>1. qPc \in [Requests -> SupportSteps] BY DEF SupportSteps
  <2>2. qJob \in [Requests -> [thread : SUBSET Threads, message : SUBSET Support!Ids,
                             to : Support!Statuses, read : Support!Statuses]]
    BY DEF Support!NoJob, Support!Statuses
  <2>3. SupportShape BY <2>1, <2>2 DEF SupportShape, Support!Statuses
  <2>4. LockOK BY DEF LockOK, Locked
  <2>5. JobOK /\ ThreadOK BY DEF JobOK, ThreadOK, Support!Exists
  <2>6. ReadOK BY DEF ReadOK, Locked
  <2>7. ToldOK BY DEF ToldOK
  <2> QED BY <2>3, <2>4, <2>5, <2>6, <2>7 DEF SupportInv, SupportOrderly
<1>2. AllInit => SupportInv BY <1>1 DEF AllInit
<1>3. SupportInv /\ [AllNext]_allVars => SupportInv' BY PartSteps, SupportStep
<1> QED BY <1>2, <1>3, PTL DEF AllSpec

\* A request that was accepted once is never refused when it is repeated, and notifies once.
LEMMA RetryStep ==
    ASSUME SupportInv, [Support!Next]_qVars, NEW r \in Requests
    PROVE  /\ qPc[r] # "refused" /\ qPc'[r] = "refused" => ~Support!Known(r)
           /\ \A x \in Threads \X Support!Ids : qTold'[x] # qTold[x] => qTold[x] = 0
<1> USE DEF SupportInv, SupportOrderly
<1>1. ASSUME NEW q \in Requests, Support!Commit(q)
      PROVE  /\ qPc[r] # "refused" => qPc'[r] # "refused"
             /\ \A x \in Threads \X Support!Ids : qTold'[x] # qTold[x] => qTold[x] = 0
  <2>1. PICK t \in Threads : \E m \in Support!Ids : Writes(q, t, m) BY <1>1, CommitDoes
  <2>2. PICK m \in Support!Ids : Writes(q, t, m) BY <2>1
  <2>3. qTold[<<t, m>>] \in Nat BY DEF SupportShape
  <2>4. qTold[<<t, m>>] = 0 BY <2>2, <2>3 DEF ToldOK, Writes
  <2> QED BY <2>2, <2>4 DEF Writes
<1>2. ASSUME NEW q \in Requests, Support!Count(q)
      PROVE  qTold' = qTold /\ (qPc[r] # "refused" /\ qPc'[r] = "refused" => ~Support!Known(r))
  <2>1. qPc[q] = "count" /\ qTold' = qTold BY <1>2 DEF Support!Count
  <2>2. ~Support!Known(q) BY <2>1 DEF ReadOK, JobOK
  <2>3. r # q => qPc'[r] = qPc[r] BY <1>2 DEF Support!Count, Support!End, Support!Goto, SupportShape
  <2> QED BY <2>1, <2>2, <2>3
<1>3. ASSUME NEW q \in Requests,
             \/ \E t \in Threads :
                  Support!Create(q, t) \/ (\E m \in Replies : Support!Reply(q, t, m))
                    \/ (\E s \in Support!Statuses : Support!SetStatus(q, t, s))
             \/ Support!Lock(q) \/ Support!Prior(q) \/ Support!ChangeStatus(q) \/ Support!Answer(q) \/ Support!Stop(q)
      PROVE  qTold' = qTold /\ (qPc[r] # "refused" => qPc'[r] # "refused")
  <2> USE DEF Support!Goto, SupportShape
  <2>1. CASE \E t \in Threads :
               Support!Create(q, t) \/ (\E m \in Replies : Support!Reply(q, t, m))
                 \/ (\E s \in Support!Statuses : Support!SetStatus(q, t, s))
    BY <2>1 DEF Support!Create, Support!Reply, Support!SetStatus, Support!Begin
  <2>2. CASE Support!Lock(q) BY <2>2 DEF Support!Lock
  <2>3. CASE Support!Prior(q) BY <2>3 DEF Support!Prior, Support!RetryFirst, Support!End
  <2>4. CASE Support!ChangeStatus(q) BY <2>4 DEF Support!ChangeStatus, Support!End
  <2>5. CASE Support!Answer(q) \/ Support!Stop(q)
    BY <2>5 DEF Support!Answer, Support!Stop, Support!End
  <2> QED BY <1>3, <2>1, <2>2, <2>3, <2>4, <2>5
<1>4. CASE UNCHANGED qVars BY <1>4 DEF qVars
<1> QED BY <1>1, <1>2, <1>3, <1>4 DEF Support!Next

\* What the writer of a reply has read of the thread is still so.
LEMMA Reads ==
    ASSUME SupportInv, NEW r \in Requests, NEW t \in Threads,
           qPc[r] = "commit", qJob[r].thread = {t}, qJob[r].message # {t}
    PROVE  qStatus[t] # "closed" /\ Support!Room(t)
<1>1. ReadOK BY DEF SupportInv, SupportOrderly
<1>2. qJob[r].read # "closed" /\ Support!Room(t) BY <1>1 DEF ReadOK
<1>3. qJob[r].read = qStatus[t] BY <1>1 DEF ReadOK, Locked
<1> QED BY <1>2, <1>3

\* A reply that is written was counted and checked under the lock that is still held.
LEMMA LimitStep ==
    ASSUME SupportInv, [Support!Next]_qVars, NEW t \in Threads, NEW m \in Replies,
           m \in qMessages'[t] \ qMessages[t]
    PROVE  qStatus[t] # "closed" /\ Support!Cardinality(qMessages[t]) < MaxMessages
<1>1. PICK r \in Requests : Support!Commit(r)
  BY Zenon
  DEF Support!Next, qVars, Support!Create, Support!Reply, Support!SetStatus, Support!Begin,
      Support!Lock, Support!Prior, Support!Count, Support!ChangeStatus, Support!Answer, Support!Stop
<1>2. PICK u \in Threads : \E n \in Support!Ids : Writes(r, u, n) BY <1>1, CommitDoes
<1>3. PICK n \in Support!Ids : Writes(r, u, n) BY <1>2
<1>4. u = t /\ n = m BY <1>3 DEF Writes
<1>5. qPc[r] = "commit" /\ qJob[r].thread = {t} /\ qJob[r].message # {t}
  BY <1>3, <1>4, SupportAssumption DEF Writes
<1> QED BY <1>5, Reads DEF Support!Room

\* For any number of concurrent requests and whatever stops: a retry is never refused and
\* notifies nobody again, and no reply comes to a thread that is closed or full.
THEOREM RepliesSoundHolds == AllSpec => RepliesSound
<1> DEFINE Retried == \A r \in Requests :
                        /\ qPc[r] # "refused" /\ qPc'[r] = "refused" => ~Support!Known(r)
                        /\ \A x \in Threads \X Support!Ids : qTold'[x] # qTold[x] => qTold[x] = 0
           Limited == \A t \in Threads, m \in Replies :
                        m \in qMessages'[t] \ qMessages[t] =>
                          qStatus[t] # "closed" /\ Support!Cardinality(qMessages[t]) < MaxMessages
<1>1. SupportInv /\ [AllNext]_allVars => [Retried /\ Limited]_qVars
  BY PartSteps, RetryStep, LimitStep
<1>2. AllSpec => [][Retried]_qVars /\ [][Limited]_qVars
  BY <1>1, SupportInvariance, PTL DEF AllSpec
<1>3. AllSpec => Support!RetriesSucceed BY <1>2 DEF Support!RetriesSucceed, qVars, Support!vars
<1>4. AllSpec => Support!LimitsHold BY <1>2 DEF Support!LimitsHold, qVars, Support!vars
<1> QED BY <1>3, <1>4 DEF RepliesSound, Support!RepliesSound

-----------------------------------------------------------------------------
\* Identities: who is greeted.

PeopleSteps ==
    {"idle", "token", "mark", "welcome", "consume", "identity", "email", "link", "create", "enter"}

PeopleShape == People!TypeOK /\ iPc \in [Requests -> PeopleSteps]

\* Ids are given in their order.
BornInOrder ==
    \E k \in 0..MaxUsers : \A u \in People!Ids : iUsers[u].phase # "unborn" <=> u <= k

\* A request at these steps is about a user.
AboutUser ==
    \A r \in Requests : iPc[r] \in {"token", "mark", "welcome", "link"} => iJob[r].user \in People!Ids

Greets(r, u) == iPc[r] = "welcome" /\ iJob[r].user = u

\* Only the one request that verified a user is about to greet it, and nobody greeted it before.
GreeterAlone ==
    \A u \in People!Ids, r \in Requests : Greets(r, u) =>
        /\ iWelcomed[u] = 0 /\ iUsers[u].verified
        /\ \A q \in Requests \ {r} : ~Greets(q, u)

\* Who is not verified was not greeted, and who has no row is not verified.
UnverifiedUngreeted ==
    \A u \in People!Ids :
        /\ ~iUsers[u].verified => iWelcomed[u] = 0
        /\ iUsers[u].phase = "unborn" => ~iUsers[u].verified

PeopleInv ==
    PeopleShape /\ BornInOrder /\ AboutUser /\ GreeterAlone /\ UnverifiedUngreeted
      /\ People!WelcomeOnce

\* The next id has no row yet.
LEMMA NextIdUnborn ==
    ASSUME PeopleShape, BornInOrder, People!NextId \in People!Ids
    PROVE  /\ iUsers[People!NextId].phase = "unborn"
           /\ \A u \in People!Ids : iUsers[u].phase # "unborn" <=> u < People!NextId
<1>1. PICK k \in 0..MaxUsers : \A u \in People!Ids : iUsers[u].phase # "unborn" <=> u <= k
  BY DEF BornInOrder
<1>2. {u \in People!Ids : iUsers[u].phase # "unborn"} = 1..k
  BY <1>1, PeopleAssumption DEF People!Ids
<1>3. Cardinality(1..k) = k BY <1>1, PeopleAssumption, FS_Interval
<1>4. People!NextId = k + 1
  BY <1>2, <1>3 DEF People!NextId, People!Cardinality, Cardinality
<1> QED BY <1>1, <1>4, PeopleAssumption DEF People!Ids

\* Goto, request by request.
LEMMA PeopleGoto ==
    ASSUME PeopleShape, NEW r \in Requests, NEW step \in PeopleSteps, NEW j, People!Goto(r, step, j),
           j \in [user : People!Ids \cup {0}, subject : SUBSET Subjects, state : SUBSET States]
    PROVE  /\ iPc' \in [Requests -> PeopleSteps]
           /\ iJob' \in [Requests -> [user : People!Ids \cup {0}, subject : SUBSET Subjects,
                                     state : SUBSET States]]
           /\ iPc'[r] = step /\ iJob'[r].user = j.user
           /\ \A q \in Requests \ {r} : iPc'[q] = iPc[q] /\ iJob'[q] = iJob[q]
BY DEF PeopleShape, People!TypeOK, People!Goto

\* What a request works on after a step.
LEMMA PeopleJobs ==
    ASSUME PeopleShape
    PROVE  /\ People!NoJob \in [user : People!Ids \cup {0}, subject : SUBSET Subjects,
                                state : SUBSET States]
           /\ People!NoJob.user = 0
           /\ \A r \in Requests :
                iJob[r] \in [user : People!Ids \cup {0}, subject : SUBSET Subjects,
                             state : SUBSET States]
BY DEF PeopleShape, People!TypeOK, People!NoJob

\* A change of a row that leaves its owner as verified as before.
RowsAsVerified ==
    /\ iUsers' \in [People!Ids -> [phase : {"unborn", "live", "gone"},
                                 email : Emails \cup {People!NoEmail},
                                 verified : BOOLEAN, subjects : SUBSET Subjects]]
    /\ \A u \in People!Ids :
          /\ iUsers'[u].verified = iUsers[u].verified
          /\ iUsers'[u].phase = "unborn" <=> iUsers[u].phase = "unborn"

\* A step that verifies and greets nobody, of a request that was not to greet.
LEMMA PeopleMoveKeeps ==
    ASSUME PeopleInv, NEW r \in Requests, NEW step \in PeopleSteps \ {"welcome"}, NEW j,
           People!Goto(r, step, j), iPc[r] # "welcome", RowsAsVerified,
           UNCHANGED <<iWelcomed, iMissed>>,
           j \in [user : People!Ids \cup {0}, subject : SUBSET Subjects, state : SUBSET States],
           step \in {"token", "mark", "link"} => j.user \in People!Ids,
           iTokens' \subseteq People!Ids, iStates' \in [States -> {"new", "live", "gone"}]
    PROVE  PeopleInv'
<1> USE DEF PeopleInv, RowsAsVerified
<1>1. /\ iPc' \in [Requests -> PeopleSteps]
      /\ iJob' \in [Requests -> [user : People!Ids \cup {0}, subject : SUBSET Subjects,
                                state : SUBSET States]]
      /\ iPc'[r] = step /\ iJob'[r].user = j.user
      /\ \A q \in Requests \ {r} : iPc'[q] = iPc[q] /\ iJob'[q] = iJob[q]
  BY PeopleGoto
<1>2. PeopleShape' BY <1>1 DEF PeopleShape, People!TypeOK
<1>3. BornInOrder' BY DEF BornInOrder
<1>4. AboutUser' BY <1>1 DEF AboutUser
<1>5. GreeterAlone'
  <2>1. \A q \in Requests, u \in People!Ids : Greets(q, u)' => Greets(q, u)
    BY <1>1 DEF Greets
  <2> QED BY <2>1 DEF GreeterAlone
<1>6. UnverifiedUngreeted' BY DEF UnverifiedUngreeted
<1>7. People!WelcomeOnce' BY <1>1 DEF People!WelcomeOnce
<1> QED BY <1>2, <1>3, <1>4, <1>5, <1>6, <1>7

\* The same when no row changes.
LEMMA PeopleQuietKeeps ==
    ASSUME PeopleInv, NEW r \in Requests, NEW step \in PeopleSteps \ {"welcome"}, NEW j,
           People!Goto(r, step, j), iPc[r] # "welcome", UNCHANGED <<iUsers, iWelcomed, iMissed>>,
           j \in [user : People!Ids \cup {0}, subject : SUBSET Subjects, state : SUBSET States],
           step \in {"token", "mark", "link"} => j.user \in People!Ids,
           iTokens' \subseteq People!Ids, iStates' \in [States -> {"new", "live", "gone"}]
    PROVE  PeopleInv'
<1>1. RowsAsVerified BY DEF RowsAsVerified, PeopleInv, PeopleShape, People!TypeOK
<1> QED BY <1>1, PeopleMoveKeeps

\* A new row at the next id; whoever is verified by it is greeted by the request.
LEMMA InsertKeeps ==
    ASSUME PeopleInv, NEW r \in Requests, NEW step \in {"token", "welcome"}, NEW j,
           NEW e \in Emails, NEW subjects \in SUBSET Subjects, NEW verified \in BOOLEAN,
           People!Insert(e, verified, subjects), People!Goto(r, step, j), iPc[r] # "welcome",
           j \in [user : People!Ids \cup {0}, subject : SUBSET Subjects, state : SUBSET States],
           j.user = People!NextId, verified <=> step = "welcome",
           UNCHANGED <<iTokens, iStates, iWelcomed, iMissed>>
    PROVE  PeopleInv'
<1> USE DEF PeopleInv
<1>0. PICK n \in People!Ids : n = People!NextId BY DEF People!Insert
<1>1. /\ iPc' \in [Requests -> PeopleSteps]
      /\ iJob' \in [Requests -> [user : People!Ids \cup {0}, subject : SUBSET Subjects,
                                state : SUBSET States]]
      /\ iPc'[r] = step /\ iJob'[r].user = n
      /\ \A q \in Requests \ {r} : iPc'[q] = iPc[q] /\ iJob'[q] = iJob[q]
  BY <1>0, PeopleGoto DEF PeopleSteps
<1>2. /\ iUsers' \in [People!Ids -> [phase : {"unborn", "live", "gone"},
                                    email : Emails \cup {People!NoEmail},
                                    verified : BOOLEAN, subjects : SUBSET Subjects]]
      /\ iUsers'[n].phase = "live" /\ iUsers'[n].verified = verified
      /\ \A u \in People!Ids \ {n} : iUsers'[u] = iUsers[u]
  BY <1>0 DEF People!Insert, PeopleShape, People!TypeOK
<1>3. /\ iUsers[n].phase = "unborn"
      /\ \A u \in People!Ids : iUsers[u].phase # "unborn" <=> u < n
  BY <1>0, NextIdUnborn
<1>4. \A q \in Requests : ~Greets(q, n)
  BY <1>0, <1>3 DEF GreeterAlone, UnverifiedUngreeted
<1>5. iWelcomed[n] = 0 BY <1>0, <1>3 DEF UnverifiedUngreeted
<1>6. PeopleShape' BY <1>1, <1>2 DEF PeopleShape, People!TypeOK
<1>7. BornInOrder'
  <2>1. n \in 1..MaxUsers BY <1>0 DEF People!Ids
  <2>2. \A u \in People!Ids : iUsers'[u].phase # "unborn" <=> u <= n
    BY <1>2, <1>3, <2>1, PeopleAssumption DEF People!Ids
  <2>3. n \in 0..MaxUsers BY <2>1, PeopleAssumption
  <2> QED BY <2>2, <2>3 DEF BornInOrder
<1>8. AboutUser' BY <1>0, <1>1 DEF AboutUser
<1>9. GreeterAlone'
  <2>1. ASSUME NEW u \in People!Ids, NEW q \in Requests, Greets(q, u)', u # n
        PROVE  (/\ iWelcomed[u] = 0 /\ iUsers[u].verified
                /\ \A p \in Requests \ {q} : ~Greets(p, u))'
    <3>1. q # r /\ Greets(q, u) BY <1>1, <2>1 DEF Greets
    <3>2. iUsers'[u] = iUsers[u] /\ iWelcomed' = iWelcomed BY <1>2, <2>1
    <3>3. \A p \in Requests : Greets(p, u)' => Greets(p, u) BY <1>1, <2>1 DEF Greets
    <3> QED BY <3>1, <3>2, <3>3 DEF GreeterAlone
  <2>2. ASSUME NEW q \in Requests, Greets(q, n)'
        PROVE  (/\ iWelcomed[n] = 0 /\ iUsers[n].verified
                /\ \A p \in Requests \ {q} : ~Greets(p, n))'
    <3>1. q = r BY <1>1, <1>4, <2>2 DEF Greets
    <3>2. verified BY <1>1, <2>2, <3>1 DEF Greets
    <3>3. \A p \in Requests \ {r} : ~Greets(p, n)' BY <1>1, <1>4 DEF Greets
    <3> QED BY <1>2, <1>5, <3>1, <3>2, <3>3
  <2> QED BY <2>1, <2>2 DEF GreeterAlone
<1>10. UnverifiedUngreeted' BY <1>2, <1>5 DEF UnverifiedUngreeted
<1>11. People!WelcomeOnce'
  <2>1. ASSUME NEW u \in People!Ids, u # n
        PROVE  /\ iWelcomed'[u] <= 1
               /\ iUsers'[u].verified =>
                    iWelcomed'[u] = 1 \/ u \in iMissed'
                      \/ \E q \in Requests : iPc'[q] = "welcome" /\ iJob'[q].user = u
    BY <1>1, <1>2, <2>1 DEF People!WelcomeOnce
  <2>2. /\ iWelcomed'[n] <= 1
        /\ iUsers'[n].verified =>
             \E q \in Requests : iPc'[q] = "welcome" /\ iJob'[q].user = n
    BY <1>1, <1>2, <1>5
  <2> QED BY <2>1, <2>2 DEF People!WelcomeOnce
<1> QED BY <1>6, <1>7, <1>8, <1>9, <1>10, <1>11

\* The rows after the update of one of them.
LEMMA RowsExcept ==
    ASSUME PeopleShape, NEW u \in People!Ids, iUsers' = [iUsers EXCEPT ![u].verified = TRUE]
    PROVE  /\ iUsers' \in [People!Ids -> [phase : {"unborn", "live", "gone"},
                                        email : Emails \cup {People!NoEmail},
                                        verified : BOOLEAN, subjects : SUBSET Subjects]]
           /\ iUsers'[u].verified /\ iUsers'[u].phase = iUsers[u].phase
           /\ \A v \in People!Ids \ {u} : iUsers'[v] = iUsers[v]
BY DEF PeopleShape, People!TypeOK

\* Only the update that changes the row goes on to the greeting.
LEMMA MarkKeeps == ASSUME PeopleInv, NEW r \in Requests, People!Mark(r) PROVE PeopleInv'
<1> DEFINE u == iJob[r].user
<1> USE PeopleJobs DEF PeopleInv
<1>1. iPc[r] = "mark" /\ UNCHANGED <<iTokens, iStates, iWelcomed, iMissed>> BY DEF People!Mark
<1>2. u \in People!Ids BY <1>1 DEF AboutUser
<1>3. CASE ~People!Unverified(u)
  <2>1. People!Goto(r, "idle", People!NoJob) /\ UNCHANGED iUsers
    BY <1>3 DEF People!Mark, People!Done
  <2> QED BY <1>1, <2>1, PeopleQuietKeeps DEF PeopleSteps, PeopleShape, People!TypeOK
<1>4. CASE People!Unverified(u)
  <2>1. /\ iUsers' = [iUsers EXCEPT ![u].verified = TRUE]
        /\ People!Goto(r, "welcome", iJob[r])
    BY <1>4 DEF People!Mark
  <2>2. /\ iPc' \in [Requests -> PeopleSteps]
        /\ iJob' \in [Requests -> [user : People!Ids \cup {0}, subject : SUBSET Subjects,
                                  state : SUBSET States]]
        /\ iPc'[r] = "welcome" /\ iJob'[r].user = u
        /\ \A q \in Requests \ {r} : iPc'[q] = iPc[q] /\ iJob'[q] = iJob[q]
    BY <2>1, PeopleGoto DEF PeopleSteps
  <2>3. /\ iUsers' \in [People!Ids -> [phase : {"unborn", "live", "gone"},
                                      email : Emails \cup {People!NoEmail},
                                      verified : BOOLEAN, subjects : SUBSET Subjects]]
        /\ iUsers'[u].verified /\ iUsers'[u].phase = iUsers[u].phase
        /\ \A v \in People!Ids \ {u} : iUsers'[v] = iUsers[v]
    BY <1>2, <2>1, RowsExcept DEF PeopleShape, People!TypeOK
  <2>4. ~iUsers[u].verified /\ iUsers[u].phase = "live"
    BY <1>4 DEF People!Unverified, People!Live
  <2> HIDE DEF u
  <2>5. iWelcomed[u] = 0 /\ \A q \in Requests : ~Greets(q, u)
    BY <1>2, <2>4 DEF UnverifiedUngreeted, GreeterAlone
  <2>6. PeopleShape' BY <1>1, <2>2, <2>3 DEF PeopleShape, People!TypeOK
  <2>7. BornInOrder'
    <3>1. \A v \in People!Ids : iUsers'[v].phase = iUsers[v].phase BY <2>3
    <3> QED BY <3>1 DEF BornInOrder
  <2>8. AboutUser' BY <1>2, <2>2 DEF AboutUser
  <2>9. GreeterAlone' BY <1>1, <1>2, <2>2, <2>3, <2>5 DEF GreeterAlone, Greets
  <2>10. UnverifiedUngreeted' BY <1>1, <2>3, <2>4, <2>5 DEF UnverifiedUngreeted
  <2>11. People!WelcomeOnce'
    <3>1. ASSUME NEW v \in People!Ids, v # u
          PROVE  /\ iWelcomed'[v] <= 1
                 /\ iUsers'[v].verified =>
                      iWelcomed'[v] = 1 \/ v \in iMissed'
                        \/ \E q \in Requests : iPc'[q] = "welcome" /\ iJob'[q].user = v
      BY <1>1, <2>2, <2>3, <3>1 DEF People!WelcomeOnce
    <3>2. /\ iWelcomed'[u] <= 1
          /\ \E q \in Requests : iPc'[q] = "welcome" /\ iJob'[q].user = u
      BY <1>1, <2>2, <2>5
    <3> QED BY <3>1, <3>2 DEF People!WelcomeOnce
  <2> QED BY <2>6, <2>7, <2>8, <2>9, <2>10, <2>11
<1> QED BY <1>3, <1>4

\* The greeting, or what excuses it.
LEMMA GreetKeeps ==
    ASSUME PeopleInv, NEW r \in Requests, NEW u \in People!Ids, Greets(r, u),
           People!Goto(r, "idle", People!NoJob), UNCHANGED <<iUsers, iTokens, iStates>>,
           \/ iWelcomed' = [iWelcomed EXCEPT ![u] = @ + 1] /\ UNCHANGED iMissed
           \/ iMissed' = iMissed \cup {u} /\ UNCHANGED iWelcomed
    PROVE  PeopleInv'
<1> USE DEF PeopleInv
<1>1. /\ iPc' \in [Requests -> PeopleSteps]
      /\ iJob' \in [Requests -> [user : People!Ids \cup {0}, subject : SUBSET Subjects,
                                state : SUBSET States]]
      /\ iPc'[r] = "idle"
      /\ \A q \in Requests \ {r} : iPc'[q] = iPc[q] /\ iJob'[q] = iJob[q]
  BY PeopleGoto, PeopleJobs DEF PeopleSteps
<1>2. /\ iWelcomed' \in [People!Ids -> Nat] /\ iMissed' \subseteq People!Ids
      /\ iMissed \subseteq iMissed'
      /\ \A v \in People!Ids \ {u} : iWelcomed'[v] = iWelcomed[v]
      /\ iWelcomed'[u] = 1 \/ (iWelcomed'[u] = 0 /\ u \in iMissed')
  <2>1. iWelcomed[u] = 0 BY DEF GreeterAlone
  <2> QED BY <2>1 DEF PeopleShape, People!TypeOK
<1>3. iUsers[u].verified /\ \A q \in Requests \ {r} : ~Greets(q, u) BY DEF GreeterAlone
<1>4. PeopleShape' BY <1>1, <1>2 DEF PeopleShape, People!TypeOK
<1>5. BornInOrder' BY DEF BornInOrder
<1>6. AboutUser' BY <1>1 DEF AboutUser
<1>7. GreeterAlone' BY <1>1, <1>2, <1>3 DEF GreeterAlone, Greets
<1>8. UnverifiedUngreeted' BY <1>2, <1>3 DEF UnverifiedUngreeted
<1>9. People!WelcomeOnce'
  <2>1. ASSUME NEW v \in People!Ids, v # u
        PROVE  /\ iWelcomed'[v] <= 1
               /\ iUsers'[v].verified =>
                    iWelcomed'[v] = 1 \/ v \in iMissed'
                      \/ \E q \in Requests : iPc'[q] = "welcome" /\ iJob'[q].user = v
    BY <1>1, <1>2, <2>1 DEF People!WelcomeOnce, Greets
  <2> QED BY <1>2, <2>1 DEF People!WelcomeOnce
<1> QED BY <1>4, <1>5, <1>6, <1>7, <1>8, <1>9

\* A step of no request, which leaves everybody as verified as before.
LEMMA PeopleRowKeeps ==
    ASSUME PeopleInv, UNCHANGED <<iPc, iJob, iWelcomed, iMissed>>, RowsAsVerified,
           iTokens' \subseteq People!Ids, iStates' \in [States -> {"new", "live", "gone"}]
    PROVE  PeopleInv'
<1> USE DEF PeopleInv, RowsAsVerified
<1>1. PeopleShape' BY DEF PeopleShape, People!TypeOK
<1>2. BornInOrder' BY DEF BornInOrder
<1>3. AboutUser' BY DEF AboutUser
<1>4. GreeterAlone' BY DEF GreeterAlone, Greets
<1>5. UnverifiedUngreeted' BY DEF UnverifiedUngreeted
<1>6. People!WelcomeOnce' BY DEF People!WelcomeOnce
<1> QED BY <1>1, <1>2, <1>3, <1>4, <1>5, <1>6

\* Every step keeps the invariant.
LEMMA PeopleStep == PeopleInv /\ [People!Next]_iVars => PeopleInv'
<1> SUFFICES ASSUME PeopleInv, [People!Next]_iVars PROVE PeopleInv' OBVIOUS
<1> DEFINE JobSet == [user : People!Ids \cup {0}, subject : SUBSET Subjects, state : SUBSET States]
<1>0. /\ \A r \in Requests : iJob[r] \in JobSet
      /\ People!NoJob \in JobSet
      /\ iTokens \subseteq People!Ids /\ iStates \in [States -> {"new", "live", "gone"}]
      /\ \A r \in Requests : \A u \in People!Ids : [iJob[r] EXCEPT !.user = u] \in JobSet
      /\ \A u \in People!Ids : [People!NoJob EXCEPT !.user = u] \in JobSet
      /\ \A u : [People!NoJob EXCEPT !.user = u].user = u
      /\ \A r \in Requests : \A u : [iJob[r] EXCEPT !.user = u].user = u
  BY DEF PeopleInv, PeopleShape, People!TypeOK, People!NoJob
<1>1. ASSUME NEW r \in Requests, NEW e \in Emails, People!Signup(r, e) PROVE PeopleInv'
  <2> DEFINE j == [People!NoJob EXCEPT !.user = People!NextId]
  <2>1. People!Insert(e, FALSE, {}) /\ People!Goto(r, "token", j) /\ iPc[r] # "welcome"
        /\ UNCHANGED <<iTokens, iStates, iWelcomed, iMissed>>
    BY <1>1 DEF People!Signup
  <2>2. j \in JobSet /\ j.user = People!NextId BY <1>0, <2>1 DEF People!Insert
  <2> HIDE DEF j
  <2> QED BY <2>1, <2>2, InsertKeeps
<1>2. ASSUME NEW r \in Requests, NEW u \in People!Ids, People!Resend(r, u) \/ People!Verify(r, u)
      PROVE  PeopleInv'
  <2> DEFINE j == [People!NoJob EXCEPT !.user = u]
  <2>1. PICK step \in {"token", "mark"} : People!Goto(r, step, j)
    BY <1>2 DEF People!Resend, People!Verify
  <2>2. /\ iPc[r] # "welcome" /\ UNCHANGED <<iUsers, iStates, iWelcomed, iMissed>>
        /\ iTokens' \subseteq iTokens
    BY <1>2 DEF People!Resend, People!Verify
  <2>3. j \in JobSet /\ j.user = u BY <1>0
  <2> HIDE DEF j
  <2> QED BY <1>0, <2>1, <2>2, <2>3, PeopleQuietKeeps DEF PeopleSteps
<1>3. ASSUME NEW r \in Requests, People!StoreToken(r) PROVE PeopleInv'
  <2>1. /\ People!Goto(r, "idle", People!NoJob) /\ iPc[r] = "token"
        /\ iTokens' = iTokens \cup {iJob[r].user}
        /\ UNCHANGED <<iUsers, iStates, iWelcomed, iMissed>>
    BY <1>3 DEF People!StoreToken, People!Done
  <2>2. iTokens' \subseteq People!Ids BY <1>0, <2>1 DEF PeopleInv, AboutUser
  <2> QED BY <1>0, <2>1, <2>2, PeopleQuietKeeps DEF PeopleSteps
<1>4. ASSUME NEW r \in Requests, People!Welcome(r) PROVE PeopleInv'
  <2> DEFINE u == iJob[r].user
  <2>1. iPc[r] = "welcome" BY <1>4 DEF People!Welcome
  <2>2. u \in People!Ids /\ Greets(r, u) BY <2>1 DEF PeopleInv, AboutUser, Greets
  <2>3. /\ People!Goto(r, "idle", People!NoJob) /\ UNCHANGED <<iUsers, iTokens, iStates>>
        /\ \/ iWelcomed' = [iWelcomed EXCEPT ![u] = @ + 1] /\ UNCHANGED iMissed
           \/ iMissed' = iMissed \cup {u} /\ UNCHANGED iWelcomed
    BY <1>4 DEF People!Welcome, People!Done
  <2> HIDE DEF u
  <2> QED BY <2>2, <2>3, GreetKeeps
<1>5. ASSUME NEW r \in Requests, NEW s \in States, NEW x \in Subjects, People!Callback(r, s, x)
      PROVE  PeopleInv'
  <2> DEFINE j == [People!NoJob EXCEPT !.subject = {x}, !.state = {s}]
  <2>1. People!Goto(r, "consume", j) BY <1>5 DEF People!Callback
  <2>2. j \in JobSet BY DEF People!NoJob
  <2> HIDE DEF j
  <2> QED BY <1>0, <1>5, <2>1, <2>2, PeopleQuietKeeps DEF People!Callback, PeopleSteps
<1>6. ASSUME NEW r \in Requests, People!Consume(r) PROVE PeopleInv'
  <2> DEFINE j == [iJob[r] EXCEPT !.state = {}]
  <2>1. People!Goto(r, "identity", j) BY <1>6 DEF People!Consume
  <2>2. j \in JobSet BY <1>0
  <2>3. iStates' \in [States -> {"new", "live", "gone"}] BY <1>0, <1>6 DEF People!Consume
  <2> HIDE DEF j
  <2> QED BY <1>0, <1>6, <2>1, <2>2, <2>3, PeopleQuietKeeps DEF People!Consume, PeopleSteps
<1>7. ASSUME NEW r \in Requests, People!Find(r) PROVE PeopleInv'
  <2>1. /\ iPc[r] # "welcome"
        /\ UNCHANGED <<iUsers, iTokens, iStates, iWelcomed, iMissed>>
    BY <1>7 DEF People!Find
  <2>2. \/ \E u \in People!Ids : People!Goto(r, "enter", [iJob[r] EXCEPT !.user = u])
        \/ \E u \in People!Ids : People!Goto(r, "link", [iJob[r] EXCEPT !.user = u])
        \/ People!Goto(r, "email", iJob[r]) \/ People!Goto(r, "create", iJob[r])
    BY <1>7 DEF People!Find, People!WithSubject, People!WithEmail
  <2>3. ASSUME NEW u \in People!Ids, NEW step \in {"enter", "link"},
               People!Goto(r, step, [iJob[r] EXCEPT !.user = u])
        PROVE  PeopleInv'
    <3> DEFINE j == [iJob[r] EXCEPT !.user = u]
    <3>1. People!Goto(r, step, j) /\ j \in JobSet /\ j.user = u BY <1>0, <2>3
    <3> HIDE DEF j
    <3> QED BY <1>0, <2>1, <3>1, PeopleQuietKeeps DEF PeopleSteps
  <2>4. ASSUME NEW step \in {"email", "create"}, People!Goto(r, step, iJob[r]) PROVE PeopleInv'
    BY <1>0, <2>1, <2>4, PeopleQuietKeeps DEF PeopleSteps
  <2> QED BY <2>2, <2>3, <2>4
<1>8. ASSUME NEW r \in Requests, People!Link(r) PROVE PeopleInv'
  <2> DEFINE u == iJob[r].user
  <2>1. PICK x \in iJob[r].subject :
            IF People!Linkable(u, x)
            THEN /\ iUsers' = [iUsers EXCEPT ![u].subjects = @ \cup {x}]
                 /\ People!Goto(r, "enter", iJob[r])
            ELSE UNCHANGED iUsers /\ People!Goto(r, "idle", People!NoJob)
    BY <1>8 DEF People!Link, People!Done
  <2>2. iPc[r] = "link" /\ UNCHANGED <<iTokens, iStates, iWelcomed, iMissed>>
    BY <1>8 DEF People!Link
  <2>3. u \in People!Ids /\ x \in Subjects BY <1>0, <2>2 DEF PeopleInv, AboutUser
  <2>4. RowsAsVerified
    <3>1. CASE People!Linkable(u, x)
      <4>1. iUsers' = [iUsers EXCEPT ![u].subjects = @ \cup {x}] BY <2>1, <3>1
      <4> HIDE DEF u
      <4> QED BY <2>3, <4>1 DEF RowsAsVerified, PeopleInv, PeopleShape, People!TypeOK
    <3>2. CASE UNCHANGED iUsers
      BY <3>2 DEF RowsAsVerified, PeopleInv, PeopleShape, People!TypeOK
    <3> QED BY <2>1, <3>1, <3>2
  <2>5. People!Goto(r, "enter", iJob[r]) \/ People!Goto(r, "idle", People!NoJob) BY <2>1
  <2> QED BY <1>0, <2>2, <2>4, <2>5, PeopleMoveKeeps DEF PeopleSteps
<1>9. ASSUME NEW r \in Requests, People!Create(r) PROVE PeopleInv'
  <2>1. iPc[r] # "welcome" /\ UNCHANGED <<iTokens, iStates, iWelcomed, iMissed>>
    BY <1>9 DEF People!Create
  <2>2. \/ \E x \in iJob[r].subject :
              /\ People!Insert(EmailOf[x], TRUE, {x})
              /\ People!Goto(r, "welcome", [iJob[r] EXCEPT !.user = People!NextId])
        \/ UNCHANGED iUsers /\ People!Goto(r, "idle", People!NoJob)
    BY <1>9 DEF People!Create, People!Done
  <2>3. ASSUME NEW x \in iJob[r].subject, People!Insert(EmailOf[x], TRUE, {x}),
               People!Goto(r, "welcome", [iJob[r] EXCEPT !.user = People!NextId])
        PROVE  PeopleInv'
    <3> DEFINE j == [iJob[r] EXCEPT !.user = People!NextId]
    <3>1. x \in Subjects BY <1>0
    <3>2. EmailOf[x] \in Emails /\ {x} \in SUBSET Subjects BY <3>1, PeopleAssumption
    <3>3. People!Goto(r, "welcome", j) /\ j \in JobSet /\ j.user = People!NextId
      BY <1>0, <2>3 DEF People!Insert
    <3> HIDE DEF j
    <3> QED BY <2>1, <2>3, <3>2, <3>3, InsertKeeps
  <2>4. CASE UNCHANGED iUsers /\ People!Goto(r, "idle", People!NoJob)
    BY <1>0, <2>1, <2>4, PeopleQuietKeeps DEF PeopleSteps
  <2> QED BY <2>2, <2>3, <2>4
<1>10. ASSUME NEW r \in Requests, People!Enter(r) PROVE PeopleInv'
  BY <1>0, <1>10, PeopleQuietKeeps DEF People!Enter, People!Done, PeopleSteps
<1>11. ASSUME NEW r \in Requests, People!Stop(r) PROVE PeopleInv'
  <2>1. People!Goto(r, "idle", People!NoJob) /\ UNCHANGED <<iUsers, iTokens, iStates, iWelcomed>>
    BY <1>11 DEF People!Stop, People!Done
  <2>2. CASE iPc[r] = "welcome"
    <3> DEFINE u == iJob[r].user
    <3>1. u \in People!Ids /\ Greets(r, u) BY <2>2 DEF PeopleInv, AboutUser, Greets
    <3>2. iMissed' = iMissed \cup {u} BY <1>11, <2>2 DEF People!Stop
    <3> HIDE DEF u
    <3> QED BY <2>1, <3>1, <3>2, GreetKeeps
  <2>3. CASE iPc[r] # "welcome"
    <3>1. iMissed' = iMissed BY <1>11, <2>3 DEF People!Stop
    <3> QED BY <1>0, <2>1, <2>3, <3>1, PeopleQuietKeeps DEF PeopleSteps
  <2> QED BY <2>2, <2>3
<1>12. ASSUME NEW s \in States, People!StartOAuth(s) PROVE PeopleInv'
  <2>1. RowsAsVerified
    BY <1>12 DEF People!StartOAuth, RowsAsVerified, PeopleInv, PeopleShape, People!TypeOK
  <2>2. iStates' \in [States -> {"new", "live", "gone"}] BY <1>0, <1>12 DEF People!StartOAuth
  <2> QED BY <1>0, <1>12, <2>1, <2>2, PeopleRowKeeps DEF People!StartOAuth
<1>13. ASSUME NEW u \in People!Ids, People!Delete(u) PROVE PeopleInv'
  <2>1. iUsers' = [iUsers EXCEPT ![u].phase = "gone"] /\ iUsers[u].phase = "live"
    BY <1>13 DEF People!Delete, People!Live
  <2>2. RowsAsVerified BY <2>1 DEF RowsAsVerified, PeopleInv, PeopleShape, People!TypeOK
  <2> QED BY <1>0, <1>13, <2>2, PeopleRowKeeps DEF People!Delete
<1>14. CASE UNCHANGED iVars
  <2>1. RowsAsVerified
    BY <1>14 DEF iVars, RowsAsVerified, PeopleInv, PeopleShape, People!TypeOK
  <2> QED BY <1>0, <1>14, <2>1, PeopleRowKeeps DEF iVars
<1> QED
  BY <1>1, <1>2, <1>3, <1>4, <1>5, <1>6, <1>7, <1>8, <1>9, <1>10, <1>11, <1>12, <1>13, <1>14,
     MarkKeeps
  DEF People!Next

\* The invariant holds in every state.
LEMMA PeopleInvariance == AllSpec => []PeopleInv
<1>1. ASSUME People!Init PROVE PeopleInv
  <2> USE <1>1 DEF People!Init
  <2>1. PeopleShape
    <3>1. iUsers \in [People!Ids -> [phase : {"unborn", "live", "gone"},
                                    email : Emails \cup {People!NoEmail},
                                    verified : BOOLEAN, subjects : SUBSET Subjects]]
      BY DEF People!Unborn
    <3>2. iTokens \subseteq People!Ids /\ iMissed \subseteq People!Ids OBVIOUS
    <3>3. iStates \in [States -> {"new", "live", "gone"}] OBVIOUS
    <3>4. iJob \in [Requests -> [user : People!Ids \cup {0}, subject : SUBSET Subjects,
                                state : SUBSET States]]
      BY DEF People!NoJob
    <3>5. iWelcomed \in [People!Ids -> Nat] /\ iPc \in [Requests -> PeopleSteps]
      BY DEF PeopleSteps
    <3> QED BY <3>1, <3>2, <3>3, <3>4, <3>5 DEF PeopleShape, People!TypeOK
  <2>2. BornInOrder
    <3>1. \A u \in People!Ids : ~(iUsers[u].phase # "unborn") /\ ~(u <= 0)
      BY PeopleAssumption DEF People!Unborn, People!Ids
    <3>2. 0 \in 0..MaxUsers BY PeopleAssumption
    <3> QED BY <3>1, <3>2 DEF BornInOrder
  <2>3. AboutUser /\ GreeterAlone BY DEF AboutUser, GreeterAlone, Greets
  <2>4. UnverifiedUngreeted /\ People!WelcomeOnce
    BY DEF UnverifiedUngreeted, People!WelcomeOnce, People!Unborn
  <2> QED BY <2>1, <2>2, <2>3, <2>4 DEF PeopleInv
<1>2. AllInit => PeopleInv BY <1>1 DEF AllInit
<1>3. PeopleInv /\ [AllNext]_allVars => PeopleInv' BY PartSteps, PeopleStep
<1> QED BY <1>2, <1>3, PTL DEF AllSpec

\* Whichever of several verification links, callbacks and retries does it, a user is greeted at
\* most once, and exactly once unless a failure is to blame or the greeting is about to go out.
THEOREM WelcomeOnceHolds == AllSpec => []WelcomeOnce
<1>1. PeopleInv => WelcomeOnce BY DEF PeopleInv, WelcomeOnce
<1> QED BY <1>1, PeopleInvariance, PTL

-----------------------------------------------------------------------------
\* Inbox: what is delivered, and what the page shows.

NoticePhases == {"unused", "pending", "void", "unread", "read", "deleted"}

\* The types that the steps need.
NoticeShape ==
    /\ nRows \in [Notices!Ids -> [phase : NoticePhases, key : SUBSET DeliveryKeys]]
    /\ nPc \in [Notices!Actors -> {"idle", "commit", "publish"}]
    /\ nJob \in [Producers -> Notices!Ids \cup {0}]
    /\ nFetch \in {"none", "list", "summary"} /\ DOMAIN nSeen \subseteq Notices!Ids
    /\ nEvent => nOpen

\* Ids are drawn in their order.
DrawnInOrder ==
    \E k \in 0..MaxId : \A i \in Notices!Ids : Notices!Phase(i) # "unused" <=> i <= k

\* A row that waits for its commit has one producer.
CommitsOwn ==
    \A p \in Producers : nPc[p] = "commit" =>
        /\ nJob[p] \in Notices!Ids /\ Notices!Phase(nJob[p]) = "pending"
        /\ \A q \in Producers \ {p} : nPc[q] = "commit" => nJob[q] # nJob[p]

\* A row has one key or none, and a key one row that was not rolled back.
KeyOnce ==
    /\ \A i \in Notices!Ids : nRows[i].key = {} \/ \E d \in DeliveryKeys : nRows[i].key = {d}
    /\ \A i, j \in Notices!Ids, d \in DeliveryKeys :
          /\ d \in nRows[i].key /\ d \in nRows[j].key
          /\ Notices!Phase(i) # "void" /\ Notices!Phase(j) # "void"
          => i = j

\* Nothing is on its way to the page.
Settled == nOpen /\ ~nEvent /\ ~nMissed /\ \A a \in Notices!Actors : nPc[a] # "publish"

ListCurrent == nSeen = [i \in Notices!Visible |-> Notices!Phase(i)]
SummaryCurrent == nThrough = Notices!Max(Notices!Visible \cup {0})

\* A page that was listed is current until something is on its way to it.
PageCurrent ==
    /\ nFetch = "summary" /\ Settled => ListCurrent
    /\ nFetch = "none" /\ Settled => ListCurrent /\ SummaryCurrent

NoticeInv == NoticeShape /\ DrawnInOrder /\ CommitsOwn /\ KeyOnce /\ PageCurrent

\* The id that is drawn next was not used yet.
LEMMA NextRowUnused ==
    ASSUME NoticeShape, DrawnInOrder, NEW i \in Notices!Ids,
           i = Notices!Cardinality(Notices!Drawn) + 1
    PROVE  \A j \in Notices!Ids : Notices!Phase(j) # "unused" <=> j < i
<1>1. PICK k \in 0..MaxId : \A j \in Notices!Ids : Notices!Phase(j) # "unused" <=> j <= k
  BY DEF DrawnInOrder
<1>2. Notices!Drawn = 1..k BY <1>1, NoticesAssumption DEF Notices!Ids, Notices!Drawn
<1>3. Cardinality(1..k) = k BY <1>1, NoticesAssumption, FS_Interval
<1>4. i = k + 1 BY <1>2, <1>3 DEF Notices!Cardinality, Cardinality
<1> QED BY <1>1, <1>4, NoticesAssumption DEF Notices!Ids

\* Goto, actor by actor; the page is no producer.
LEMMA NoticeGoto ==
    ASSUME NoticeShape, NEW a \in Notices!Actors, NEW step \in {"idle", "commit", "publish"},
           Notices!Goto(a, step)
    PROVE  /\ nPc' \in [Notices!Actors -> {"idle", "commit", "publish"}]
           /\ nPc'[a] = step /\ \A b \in Notices!Actors \ {a} : nPc'[b] = nPc[b]
           /\ \A p \in Producers : p \in Notices!Actors /\ p # "page"
           /\ "page" \in Notices!Actors
BY NoticesAssumption DEF NoticeShape, Notices!Goto, Notices!Actors

\* A row that is inserted has a key of its own.
LEMMA NoticeInsertKeeps == ASSUME NoticeInv, NEW p \in Producers, Notices!Insert(p) PROVE NoticeInv'
<1> USE DEF NoticeInv
<1>1. PICK k \in {{}} \cup {{d} : d \in DeliveryKeys}, i \in Notices!Ids :
          /\ i = Notices!Cardinality(Notices!Drawn) + 1
          /\ k = {} \/ ~Notices!Taken(k)
          /\ nRows' = [nRows EXCEPT ![i] = [phase |-> "pending", key |-> k]]
          /\ nJob' = [nJob EXCEPT ![p] = i]
          /\ Notices!Goto(p, "commit")
  BY DEF Notices!Insert
<1>2. nPc[p] = "idle" /\ UNCHANGED <<nOpen, nEvent, nFetch, nSeen, nThrough, nMissed>>
  BY DEF Notices!Insert, Notices!page
<1>3. \A j \in Notices!Ids : Notices!Phase(j) # "unused" <=> j < i BY <1>1, NextRowUnused
<1>4. /\ nPc' \in [Notices!Actors -> {"idle", "commit", "publish"}]
      /\ nPc'[p] = "commit" /\ \A b \in Notices!Actors \ {p} : nPc'[b] = nPc[b]
      /\ \A q \in Producers : q \in Notices!Actors /\ q # "page"
  BY <1>1, NoticeGoto DEF Notices!Actors
<1>5. /\ nRows' \in [Notices!Ids -> [phase : NoticePhases, key : SUBSET DeliveryKeys]]
      /\ nRows'[i].phase = "pending" /\ nRows'[i].key = k
      /\ \A j \in Notices!Ids \ {i} : nRows'[j] = nRows[j]
  BY <1>1 DEF NoticeShape, NoticePhases
<1>6. /\ nJob' \in [Producers -> Notices!Ids \cup {0}]
      /\ nJob'[p] = i /\ \A q \in Producers \ {p} : nJob'[q] = nJob[q]
  BY <1>1 DEF NoticeShape
<1>7. NoticeShape' BY <1>2, <1>4, <1>5, <1>6 DEF NoticeShape
<1>8. DrawnInOrder'
  <2>1. i \in 1..MaxId BY DEF Notices!Ids
  <2>2. \A j \in Notices!Ids : Notices!Phase(j)' # "unused" <=> j <= i
    BY <1>3, <1>5, <2>1, NoticesAssumption DEF Notices!Ids, Notices!Phase
  <2>3. i \in 0..MaxId BY <2>1, NoticesAssumption
  <2> QED BY <2>2, <2>3 DEF DrawnInOrder
<1>9. CommitsOwn'
  <2>1. Notices!Phase(i) = "unused" BY <1>3 DEF Notices!Ids
  <2>2. \A q \in Producers \ {p} : nPc[q] = "commit" => nJob[q] # i
    BY <2>1 DEF CommitsOwn, Notices!Phase
  <2> QED BY <1>4, <1>5, <1>6, <2>2 DEF CommitsOwn, Notices!Phase
<1>10. KeyOnce'
  <2>1. k = {} \/ \E d \in DeliveryKeys : k = {d} BY <1>1
  <2>2. \A j \in Notices!Ids : nRows'[j].key = {} \/ \E d \in DeliveryKeys : nRows'[j].key = {d}
    BY <1>5, <2>1 DEF KeyOnce
  <2>3. ASSUME NEW j \in Notices!Ids \ {i}, NEW d \in DeliveryKeys, d \in k, d \in nRows[j].key
        PROVE  Notices!Phase(j) = "void"
    <3>1. k = {d} /\ nRows[j].key = {d} BY <2>1, <2>3 DEF KeyOnce
    <3> QED BY <1>1, <3>1 DEF Notices!Taken
  <2>4. ASSUME NEW j \in Notices!Ids, NEW m \in Notices!Ids, NEW d \in DeliveryKeys,
               d \in nRows'[j].key, d \in nRows'[m].key,
               Notices!Phase(j)' # "void", Notices!Phase(m)' # "void"
        PROVE  j = m
    <3>1. CASE j # i /\ m # i BY <1>5, <2>4, <3>1 DEF KeyOnce, Notices!Phase
    <3>2. CASE j = i /\ m # i BY <1>5, <2>3, <2>4, <3>2 DEF Notices!Phase
    <3>3. CASE j # i /\ m = i BY <1>5, <2>3, <2>4, <3>3 DEF Notices!Phase
    <3> QED BY <3>1, <3>2, <3>3
  <2> QED BY <2>2, <2>4 DEF KeyOnce
<1>11. PageCurrent'
  <2>1. Notices!Phase(i) = "unused" BY <1>3 DEF Notices!Ids
  <2>2. Notices!Visible' = Notices!Visible
    BY <1>5, <2>1 DEF Notices!Visible, Notices!Phase
  <2>3. \A j \in Notices!Visible : Notices!Phase(j)' = Notices!Phase(j)
    BY <1>5, <2>1 DEF Notices!Visible, Notices!Phase
  <2>4. ListCurrent => ListCurrent' BY <1>2, <2>2, <2>3 DEF ListCurrent
  <2>5. SummaryCurrent => SummaryCurrent' BY <1>2, <2>2 DEF SummaryCurrent
  <2>6. Settled' => Settled BY <1>2, <1>4 DEF Settled
  <2> QED BY <1>2, <2>4, <2>5, <2>6 DEF PageCurrent
<1> QED BY <1>7, <1>8, <1>9, <1>10, <1>11

\* A commit or a rollback of the row that only this producer has pending.
LEMMA NoticeDecideKeeps ==
    ASSUME NoticeInv, NEW p \in Producers, Notices!Commit(p) \/ Notices!Rollback(p)
    PROVE  NoticeInv'
<1> USE DEF NoticeInv
<1>1. nPc[p] = "commit" /\ UNCHANGED <<nJob, nOpen, nEvent, nFetch, nSeen, nThrough, nMissed>>
  BY DEF Notices!Commit, Notices!Rollback, Notices!page
<1>2. PICK i \in Notices!Ids : i = nJob[p] /\ Notices!Phase(i) = "pending"
  BY <1>1 DEF CommitsOwn
<1>3. PICK phase \in {"unread", "void"}, step \in {"publish", "idle"} :
          /\ nRows' = Notices!Put({i}, phase) /\ Notices!Goto(p, step)
          /\ phase = "unread" <=> step = "publish"
  BY <1>2 DEF Notices!Commit, Notices!Rollback
<1>4. /\ nPc' \in [Notices!Actors -> {"idle", "commit", "publish"}]
      /\ nPc'[p] = step /\ \A b \in Notices!Actors \ {p} : nPc'[b] = nPc[b]
      /\ \A q \in Producers : q \in Notices!Actors
  BY <1>3, NoticeGoto DEF Notices!Actors
<1>5. /\ nRows' \in [Notices!Ids -> [phase : NoticePhases, key : SUBSET DeliveryKeys]]
      /\ nRows'[i].phase = phase /\ nRows'[i].key = nRows[i].key
      /\ \A j \in Notices!Ids \ {i} : nRows'[j] = nRows[j]
  BY <1>3 DEF NoticeShape, NoticePhases, Notices!Put
<1>6. NoticeShape' BY <1>1, <1>4, <1>5 DEF NoticeShape
<1>7. DrawnInOrder'
  <2>1. \A j \in Notices!Ids : Notices!Phase(j)' # "unused" <=> Notices!Phase(j) # "unused"
    BY <1>2, <1>5 DEF Notices!Phase
  <2> QED BY <2>1 DEF DrawnInOrder
<1>8. CommitsOwn'
  <2>1. nPc'[p] # "commit" BY <1>4
  <2>2. ASSUME NEW q \in Producers \ {p}, nPc'[q] = "commit"
        PROVE  /\ nJob'[q] \in Notices!Ids /\ nRows'[nJob'[q]].phase = "pending"
               /\ nJob'[q] # i
               /\ \A o \in Producers \ {q} : nPc'[o] = "commit" => nJob'[o] # nJob'[q]
    <3>1. nPc[q] = "commit" BY <1>4, <2>2
    <3>2. nJob[q] \in Notices!Ids /\ Notices!Phase(nJob[q]) = "pending" /\ nJob[q] # i
      BY <1>1, <1>2, <2>2, <3>1 DEF CommitsOwn
    <3>3. \A o \in Producers : nPc'[o] = "commit" => nPc[o] = "commit" BY <1>4, <2>1
    <3> QED BY <1>1, <1>5, <3>1, <3>2, <3>3 DEF CommitsOwn, Notices!Phase
  <2> QED BY <2>1, <2>2 DEF CommitsOwn, Notices!Phase
<1>9. KeyOnce' BY <1>2, <1>5 DEF KeyOnce, Notices!Phase
<1>10. PageCurrent'
  <2>1. CASE step = "publish"
    <3>1. ~Settled' BY <1>4, <2>1 DEF Settled
    <3> QED BY <3>1 DEF PageCurrent
  <2>2. CASE step = "idle"
    <3>0. phase = "void" BY <1>3, <2>2
    <3>1. Notices!Visible' = Notices!Visible
      BY <1>2, <1>5, <3>0 DEF Notices!Visible, Notices!Phase
    <3>2. \A j \in Notices!Visible : Notices!Phase(j)' = Notices!Phase(j)
      BY <1>2, <1>5 DEF Notices!Visible, Notices!Phase
    <3>3. ListCurrent => ListCurrent' BY <1>1, <3>1, <3>2 DEF ListCurrent
    <3>4. SummaryCurrent => SummaryCurrent' BY <1>1, <3>1 DEF SummaryCurrent
    <3>5. Settled' => Settled BY <1>1, <1>4 DEF Settled
    <3> QED BY <1>1, <3>3, <3>4, <3>5 DEF PageCurrent
  <2> QED BY <2>1, <2>2
<1> QED BY <1>6, <1>7, <1>8, <1>9, <1>10

\* The page changes rows that it can see, and will tell so.
LEMMA NoticeChangeKeeps ==
    ASSUME NoticeInv, NEW phase \in {"read", "deleted"}, NEW is \in SUBSET Notices!Visible,
           Notices!Change(phase, is)
    PROVE  NoticeInv'
<1> USE DEF NoticeInv
<1>1. UNCHANGED <<nJob, nOpen, nEvent, nFetch, nSeen, nThrough, nMissed>>
  BY DEF Notices!Change, Notices!page
<1>2. /\ nPc' \in [Notices!Actors -> {"idle", "commit", "publish"}]
      /\ nPc'["page"] = "publish" /\ \A b \in Notices!Actors \ {"page"} : nPc'[b] = nPc[b]
      /\ \A q \in Producers : q \in Notices!Actors /\ q # "page"
      /\ "page" \in Notices!Actors
  BY NoticeGoto DEF Notices!Actors, Notices!Change
<1>3. /\ nRows' \in [Notices!Ids -> [phase : NoticePhases, key : SUBSET DeliveryKeys]]
      /\ \A j \in Notices!Ids : nRows'[j].key = nRows[j].key
      /\ \A j \in Notices!Ids : nRows'[j].phase = IF j \in is THEN phase ELSE nRows[j].phase
  BY DEF NoticeShape, NoticePhases, Notices!Put, Notices!Change
<1>4. \A j \in is : nRows[j].phase \in {"unread", "read"}
  BY DEF Notices!Visible, Notices!Phase
<1>5. NoticeShape' BY <1>1, <1>2, <1>3 DEF NoticeShape
<1>6. DrawnInOrder'
  <2>1. \A j \in Notices!Ids : Notices!Phase(j)' # "unused" <=> Notices!Phase(j) # "unused"
    BY <1>3, <1>4 DEF Notices!Phase
  <2> QED BY <2>1 DEF DrawnInOrder
<1>7. CommitsOwn' BY <1>1, <1>2, <1>3, <1>4 DEF CommitsOwn, Notices!Phase
<1>8. KeyOnce'
  <2>1. \A j \in Notices!Ids : Notices!Phase(j)' # "void" <=> Notices!Phase(j) # "void"
    BY <1>3, <1>4 DEF Notices!Phase
  <2> QED BY <1>3, <2>1 DEF KeyOnce
<1>9. PageCurrent'
  <2>1. ~Settled' BY <1>2 DEF Settled
  <2> QED BY <2>1 DEF PageCurrent
<1> QED BY <1>5, <1>6, <1>7, <1>8, <1>9

\* A step that leaves the rows alone and makes no producer commit.
LEMMA NoticeRowsKeep ==
    ASSUME NoticeInv, UNCHANGED <<nRows, nJob>>, NoticeShape',
           \A p \in Producers : nPc'[p] = "commit" => nPc[p] = "commit"
    PROVE  DrawnInOrder' /\ CommitsOwn' /\ KeyOnce'
<1> USE DEF NoticeInv
<1>1. DrawnInOrder' BY DEF DrawnInOrder, Notices!Phase
<1>2. CommitsOwn' BY DEF CommitsOwn, Notices!Phase
<1>3. KeyOnce' BY DEF KeyOnce, Notices!Phase
<1> QED BY <1>1, <1>2, <1>3

\* Every step keeps the invariant.
LEMMA NoticeStep == NoticeInv /\ [Notices!Next]_nVars => NoticeInv'
<1> SUFFICES ASSUME NoticeInv, [Notices!Next]_nVars PROVE NoticeInv' OBVIOUS
<1> USE DEF NoticeInv
<1>0. nRows' = nRows => Notices!Visible' = Notices!Visible
                          /\ \A i \in Notices!Ids : Notices!Phase(i)' = Notices!Phase(i)
  BY DEF Notices!Visible, Notices!Phase
<1>1. ASSUME NEW p \in Producers, Notices!Insert(p) \/ Notices!Commit(p) \/ Notices!Rollback(p)
      PROVE  NoticeInv'
  BY <1>1, NoticeInsertKeeps, NoticeDecideKeeps
<1>2. CASE Notices!Read \/ Notices!Delete \/ Notices!ReadAll
  <2>1. \E phase \in {"read", "deleted"}, is \in SUBSET Notices!Visible : Notices!Change(phase, is)
    <3>1. Notices!Unread \subseteq Notices!Visible BY DEF Notices!Unread, Notices!Visible
    <3>2. \A i : {i} \cap Notices!Unread \in SUBSET Notices!Visible BY <3>1
    <3>3. \A i : {i} \cap Notices!Visible \in SUBSET Notices!Visible OBVIOUS
    <3>4. Notices!Marked \in SUBSET Notices!Visible BY <3>1 DEF Notices!Marked
    <3> QED BY <1>2, <3>2, <3>3, <3>4 DEF Notices!Read, Notices!Delete, Notices!ReadAll
  <2> QED BY <2>1, NoticeChangeKeeps
<1>3. ASSUME NEW a \in Notices!Actors, Notices!Publish(a) \/ Notices!Lose(a) PROVE NoticeInv'
  <2>1. /\ nPc[a] = "publish" /\ Notices!Goto(a, "idle")
        /\ UNCHANGED <<nRows, nJob, nOpen, nFetch, nSeen, nThrough>>
        /\ (nEvent' = (nEvent \/ nOpen) /\ nMissed' = nMissed)
             \/ (nMissed' = TRUE /\ nEvent' = nEvent)
    BY <1>3 DEF Notices!Publish, Notices!Lose, Notices!page
  <2>2. /\ nPc' \in [Notices!Actors -> {"idle", "commit", "publish"}]
        /\ nPc'[a] = "idle" /\ \A b \in Notices!Actors \ {a} : nPc'[b] = nPc[b]
        /\ \A p \in Producers : p \in Notices!Actors
    BY <2>1, NoticeGoto
  <2>6. nEvent' => nOpen' BY <2>1, Zenon DEF NoticeShape
  <2>3. NoticeShape' BY <2>1, <2>2, <2>6 DEF NoticeShape
  <2>4. DrawnInOrder' /\ CommitsOwn' /\ KeyOnce' BY <2>1, <2>2, <2>3, NoticeRowsKeep
  <2>5. ~Settled' BY <2>1 DEF Settled
  <2> QED BY <2>3, <2>4, <2>5 DEF PageCurrent
<1>4. CASE Notices!Connect \/ Notices!Refetch
  <2>1. /\ UNCHANGED <<nRows, nPc, nJob, nSeen, nThrough>> /\ nFetch' = "list"
        /\ nEvent' => nOpen'
    BY <1>4 DEF Notices!Connect, Notices!SubscribedFirst, Notices!Refetch, NoticeShape
  <2>2. NoticeShape' BY <2>1 DEF NoticeShape
  <2>3. DrawnInOrder' /\ CommitsOwn' /\ KeyOnce' BY <2>1, <2>2, NoticeRowsKeep
  <2> QED BY <2>1, <2>2, <2>3 DEF PageCurrent
<1>5. CASE Notices!Disconnect
  <2>1. /\ UNCHANGED <<nRows, nPc, nJob, nFetch, nSeen, nThrough>>
        /\ nOpen' = FALSE /\ nEvent' = FALSE
    BY <1>5 DEF Notices!Disconnect, Notices!page
  <2>2. NoticeShape' BY <2>1 DEF NoticeShape
  <2>3. DrawnInOrder' /\ CommitsOwn' /\ KeyOnce' BY <2>1, <2>2, NoticeRowsKeep
  <2>4. ~Settled' BY <2>1 DEF Settled
  <2> QED BY <2>2, <2>3, <2>4 DEF PageCurrent
<1>6. CASE Notices!List
  <2>1. /\ UNCHANGED <<nRows, nPc, nJob, nOpen, nEvent, nThrough, nMissed>>
        /\ nSeen' = [i \in Notices!Visible |-> Notices!Phase(i)] /\ nFetch' = "summary"
    BY <1>6 DEF Notices!List
  <2>2. DOMAIN nSeen' \subseteq Notices!Ids BY <2>1 DEF Notices!Visible
  <2>3. NoticeShape' BY <2>1, <2>2 DEF NoticeShape
  <2>4. DrawnInOrder' /\ CommitsOwn' /\ KeyOnce' BY <2>1, <2>3, NoticeRowsKeep
  <2>5. ListCurrent'
    BY <2>1, <1>0 DEF ListCurrent, Notices!Visible
  <2> QED BY <2>1, <2>3, <2>4, <2>5 DEF PageCurrent
<1>7. CASE Notices!Summary
  <2>1. /\ UNCHANGED <<nRows, nPc, nJob, nOpen, nEvent, nSeen, nMissed>>
        /\ nThrough' = Notices!Max(Notices!Visible \cup {0})
        /\ nFetch = "summary" /\ nFetch' = "none"
    BY <1>7 DEF Notices!Summary
  <2>2. NoticeShape' BY <2>1 DEF NoticeShape
  <2>3. DrawnInOrder' /\ CommitsOwn' /\ KeyOnce' BY <2>1, <2>2, NoticeRowsKeep
  <2>4. SummaryCurrent' BY <1>0, <2>1 DEF SummaryCurrent
  <2>5. ListCurrent => ListCurrent' BY <2>1, <1>0 DEF ListCurrent, Notices!Visible
  <2>6. Settled' => Settled BY <2>1 DEF Settled
  <2> QED BY <2>1, <2>2, <2>3, <2>4, <2>5, <2>6 DEF PageCurrent
<1>8. CASE UNCHANGED nVars
  <2>1. UNCHANGED <<nRows, nPc, nJob, nOpen, nEvent, nFetch, nSeen, nThrough, nMissed>>
    BY <1>8 DEF nVars
  <2>2. NoticeShape' BY <2>1 DEF NoticeShape
  <2>3. DrawnInOrder' /\ CommitsOwn' /\ KeyOnce' BY <2>1, <2>2, NoticeRowsKeep
  <2>4. ListCurrent => ListCurrent' BY <2>1, <1>0 DEF ListCurrent, Notices!Visible
  <2>5. SummaryCurrent => SummaryCurrent' BY <1>0, <2>1 DEF SummaryCurrent
  <2>6. Settled' => Settled BY <2>1 DEF Settled
  <2> QED BY <2>1, <2>2, <2>3, <2>4, <2>5, <2>6 DEF PageCurrent
<1> QED BY <1>1, <1>2, <1>3, <1>4, <1>5, <1>6, <1>7, <1>8 DEF Notices!Next

\* The invariant holds in every state.
LEMMA NoticeInvariance == AllSpec => []NoticeInv
<1>1. ASSUME Notices!Init PROVE NoticeInv
  <2> USE <1>1 DEF Notices!Init
  <2>1. NoticeShape
    <3>1. nRows \in [Notices!Ids -> [phase : NoticePhases, key : SUBSET DeliveryKeys]]
      BY DEF Notices!Unused, NoticePhases
    <3>2. nPc \in [Notices!Actors -> {"idle", "commit", "publish"}] OBVIOUS
    <3>3. nJob \in [Producers -> Notices!Ids \cup {0}] OBVIOUS
    <3>4. nFetch \in {"none", "list", "summary"} /\ DOMAIN nSeen \subseteq Notices!Ids
          /\ (nEvent => nOpen)
      OBVIOUS
    <3> QED BY <3>1, <3>2, <3>3, <3>4 DEF NoticeShape
  <2>2. DrawnInOrder
    <3>1. \A i \in Notices!Ids : ~(Notices!Phase(i) # "unused") /\ ~(i <= 0)
      BY NoticesAssumption DEF Notices!Unused, Notices!Ids, Notices!Phase
    <3>2. 0 \in 0..MaxId BY NoticesAssumption
    <3> QED BY <3>1, <3>2 DEF DrawnInOrder
  <2>3. CommitsOwn BY DEF CommitsOwn, Notices!Actors
  <2>4. KeyOnce BY DEF KeyOnce, Notices!Unused
  <2>5. PageCurrent BY DEF PageCurrent, Settled
  <2> QED BY <2>1, <2>2, <2>3, <2>4, <2>5 DEF NoticeInv
<1>2. AllInit => NoticeInv BY <1>1 DEF AllInit
<1>3. NoticeInv /\ [AllNext]_allVars => NoticeInv' BY PartSteps, NoticeStep
<1> QED BY <1>2, <1>3, PTL DEF AllSpec

\* Whatever transactions add it at the same time, and whether the user has deleted it since, a
\* notification with a delivery key is delivered once.
THEOREM DeliveredOnceHolds == AllSpec => []DeliveredOnce
<1>1. NoticeInv => Notices!DeliveredOnce
  <2> SUFFICES ASSUME NoticeInv, NEW k \in DeliveryKeys
               PROVE  Notices!Cardinality({i \in Notices!Ids :
                          /\ k \in nRows[i].key
                          /\ Notices!Phase(i) \in {"unread", "read", "deleted"}}) <= 1
    BY DEF Notices!DeliveredOnce
  <2> DEFINE D == {i \in Notices!Ids :
                     k \in nRows[i].key /\ Notices!Phase(i) \in {"unread", "read", "deleted"}}
  <2>1. \A i, j \in D : i = j BY DEF NoticeInv, KeyOnce
  <2> HIDE DEF D
  <2>2. CASE D = {}
    <3>1. Cardinality(D) = 0 BY <2>2, FS_EmptySet
    <3> QED BY <3>1 DEF D, Notices!Cardinality, Cardinality
  <2>3. CASE D # {}
    <3>1. PICK i : D = {i} BY <2>1, <2>3
    <3>2. Cardinality(D) = 1 BY <3>1, FS_Singleton
    <3> QED BY <3>2 DEF D, Notices!Cardinality, Cardinality
  <2> QED BY <2>2, <2>3
<1> QED BY <1>1, NoticeInvariance, PTL DEF DeliveredOnce

\* However commits, lost events and reconnects interleave with the two transactions of a fetch,
\* a connected page with nothing on its way to it shows what is stored.
THEOREM PageFreshHolds == AllSpec => []PageFresh
<1>1. NoticeInv => Notices!PageFresh
  BY DEF NoticeInv, PageCurrent, Settled, ListCurrent, SummaryCurrent, Notices!PageFresh
<1> QED BY <1>1, NoticeInvariance, PTL DEF PageFresh

-----------------------------------------------------------------------------
\* ApiKeys: a key that stopped working.

\* A use that has read the row has read a count below the bound.
KeyInv ==
    /\ Credentials!TypeOK
    /\ aPc \in [Uses \cup Changes -> {"idle", "count", "owner", "admitted", "set", "delete"}]
    /\ \A r \in Uses : aPc[r] = "count" => aJob[r].copy.count < MaxCount
    /\ \A r \in Changes : aPc[r] # "count"

\* What becomes of the row: only an enable ends a revocation, and nothing the other two.
KeyRowMoves ==
    /\ aRow' \in Credentials!Rows
    /\ aRow'.exists => aRow.exists
    /\ aRow.expired => aRow'.expired

\* Every step keeps the invariant.
LEMMA KeyStep ==
    ASSUME KeyInv, [Credentials!Next]_aVars
    PROVE  KeyInv' /\ KeyRowMoves
<1> USE KeysAssumption DEF KeyInv, Credentials!TypeOK, KeyRowMoves, Credentials!Goto
<1>1. /\ aRow.exists \in BOOLEAN /\ aRow.revoked \in BOOLEAN /\ aRow.expired \in BOOLEAN
      /\ aRow.count \in 0..MaxCount
      /\ \A r \in Uses \cup Changes : aJob[r].copy.count \in 0..MaxCount
  BY DEF Credentials!Rows
<1>2. ASSUME NEW r \in Uses, Credentials!Resolve(r) PROVE KeyInv' /\ KeyRowMoves
  <2>1. aJob' = [aJob EXCEPT ![r].copy = aRow] /\ aRow.count < MaxCount /\ UNCHANGED <<aRow, aActive>>
    BY <1>2 DEF Credentials!Resolve
  <2>2. aJob'[r].copy = aRow /\ \A q \in Uses \ {r} : aJob'[q] = aJob[q] BY <2>1
  <2>3. aJob' \in [Uses \cup Changes -> [copy : Credentials!Rows, revoke : BOOLEAN]] BY <2>1
  <2>4. aPc' = [aPc EXCEPT ![r] = "count"] BY <1>2 DEF Credentials!Resolve
  <2> QED BY <2>1, <2>2, <2>3, <2>4
<1>3. ASSUME NEW r \in Uses, Credentials!CountUse(r) PROVE KeyInv' /\ KeyRowMoves
  <2>1. UNCHANGED <<aActive, aJob>> /\ aPc[r] = "count" BY <1>3 DEF Credentials!CountUse
  <2>2. aPc' = [aPc EXCEPT ![r] = "owner"] \/ aPc' = [aPc EXCEPT ![r] = "idle"]
    BY <1>3 DEF Credentials!CountUse
  <2>3. KeyRowMoves /\ (aRow'.exists <=> aRow.exists)
    <3>1. CASE aRow.exists
      <4> DEFINE n == aJob[r].copy.count + 1
      <4>1. aRow' = [aRow EXCEPT !.count = n]
        BY <1>3, <3>1 DEF Credentials!CountUse, Credentials!Counted
      <4>2. n \in 0..MaxCount BY <1>1, <2>1
      <4> HIDE DEF n
      <4> QED BY <4>1, <4>2 DEF Credentials!Rows
    <3>2. CASE ~aRow.exists BY <1>3, <3>2 DEF Credentials!CountUse
    <3> QED BY <3>1, <3>2
  <2> QED BY <2>1, <2>2, <2>3
<1>4. ASSUME NEW r \in Uses, Credentials!FindOwner(r) PROVE KeyInv' /\ KeyRowMoves
  BY <1>4 DEF Credentials!FindOwner
<1>5. ASSUME NEW r \in Uses \cup Changes, Credentials!Leave(r) PROVE KeyInv' /\ KeyRowMoves
  BY <1>5 DEF Credentials!Leave
<1>6. ASSUME NEW r \in Changes, NEW step \in {"set", "delete"}, NEW revoke \in BOOLEAN,
             Credentials!Read(r, step, revoke)
      PROVE  KeyInv' /\ KeyRowMoves
  BY <1>6 DEF Credentials!Read
<1>7. ASSUME NEW r \in Changes, Credentials!SetEnabled(r) PROVE KeyInv' /\ KeyRowMoves
  <2>1. UNCHANGED <<aActive, aJob>> /\ aPc' = [aPc EXCEPT ![r] = "idle"]
    BY <1>7 DEF Credentials!SetEnabled
  <2>2. KeyRowMoves /\ (aRow'.exists <=> aRow.exists)
    BY <1>7 DEF Credentials!SetEnabled, Credentials!Rows
  <2> QED BY <2>1, <2>2
<1>8. ASSUME NEW r \in Changes, Credentials!Delete(r) PROVE KeyInv' /\ KeyRowMoves
  BY <1>8 DEF Credentials!Delete, Credentials!Rows
<1>9. CASE Credentials!DeleteAccount BY <1>9 DEF Credentials!DeleteAccount, Credentials!Rows
<1>10. CASE Credentials!Expire BY <1>10 DEF Credentials!Expire, Credentials!Rows
<1>11. CASE UNCHANGED aVars BY <1>11 DEF aVars
<1> QED
  BY <1>2, <1>3, <1>4, <1>5, <1>6, <1>7, <1>8, <1>9, <1>10, <1>11 DEF Credentials!Next

\* The invariant holds in every state.
LEMMA KeyInvariance == AllSpec => []KeyInv
<1>1. ASSUME Credentials!Init PROVE KeyInv
  <2> USE <1>1, KeysAssumption DEF Credentials!Init
  <2>1. Credentials!New \in Credentials!Rows BY DEF Credentials!New, Credentials!Rows
  <2>2. aActive \in BOOLEAN /\ aActive BY Zenon
  <2>3. aJob \in [Uses \cup Changes -> [copy : Credentials!Rows, revoke : BOOLEAN]] BY <2>1
  <2>4. aPc \in [Uses \cup Changes -> {"idle", "count", "owner", "admitted", "set", "delete"}]
    OBVIOUS
  <2> QED BY <2>1, <2>2, <2>3, <2>4 DEF KeyInv, Credentials!TypeOK
<1>2. AllInit => KeyInv BY <1>1 DEF AllInit
<1>3. KeyInv /\ [AllNext]_allVars => KeyInv' BY PartSteps, KeyStep
<1> QED BY <1>2, <1>3, PTL DEF AllSpec

\* However many uses that had read a key write their count back, and whatever its owner does
\* concurrently, a key that is not usable becomes usable again by an enable only.
THEOREM StopsWorkingHolds == AllSpec => StopsWorking
<1> DEFINE Stays == ~Credentials!Usable(aRow) /\ Credentials!Usable(aRow')
                      => \E r \in Changes : aPc[r] = "set" /\ ~aJob[r].revoke
                                              /\ Credentials!SetEnabled(r)
<1>1. KeyInv /\ [AllNext]_allVars => [Stays]_aVars
  <2> SUFFICES ASSUME KeyInv, Credentials!Next,
                      ~Credentials!Usable(aRow), Credentials!Usable(aRow')
               PROVE  \E r \in Changes : aPc[r] = "set" /\ ~aJob[r].revoke
                                           /\ Credentials!SetEnabled(r)
    BY PartSteps
  <2>1. KeyRowMoves BY KeyStep
  <2>2. aRow.revoked /\ ~aRow'.revoked BY <2>1 DEF KeyRowMoves, Credentials!Usable
  <2>3. PICK r \in Changes : Credentials!SetEnabled(r)
    <3>1. \A r \in Uses : ~Credentials!CountUse(r)
      BY <2>2 DEF Credentials!CountUse, Credentials!Counted, KeyInv, Credentials!TypeOK,
                  Credentials!Rows
    <3>2. \A r \in Changes : ~Credentials!Delete(r)
      BY <2>2 DEF Credentials!Delete, KeyInv, Credentials!TypeOK, Credentials!Rows
    <3>3. ~Credentials!DeleteAccount /\ ~Credentials!Expire
      BY <2>2 DEF Credentials!DeleteAccount, Credentials!Expire, KeyInv, Credentials!TypeOK,
                  Credentials!Rows
    <3> QED BY <2>2, <3>1, <3>2, <3>3 DEF Credentials!Next, Credentials!Resolve,
               Credentials!FindOwner, Credentials!Read, Credentials!Leave
  <2>4. aPc[r] = "set" /\ aRow' = [aRow EXCEPT !.revoked = aJob[r].revoke]
    BY <2>2, <2>3 DEF Credentials!SetEnabled
  <2>5. aRow'.revoked = aJob[r].revoke
    BY <2>4 DEF KeyInv, Credentials!TypeOK, Credentials!Rows
  <2> QED BY <2>2, <2>3, <2>4, <2>5
<1>2. AllSpec => [][Stays]_aVars BY <1>1, KeyInvariance, PTL DEF AllSpec
<1> QED BY <1>2 DEF StopsWorking, Credentials!StopsWorking, aVars, Credentials!vars
=============================================================================
