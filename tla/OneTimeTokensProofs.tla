------------------------ MODULE OneTimeTokensProofs ------------------------
(***************************************************************************)
(* Proofs about OneTimeTokens for every number of requests and tokens.     *)
(***************************************************************************)
EXTENDS OneTimeTokens, TLAPS

\* The request is storing a token that nothing knows yet.
Storing(r) == pc[r] \in {"previous", "unlink", "put", "point"}

StoringOK ==
    \A r \in Requests :
        /\ Storing(r) \/ pc[r] = "mail" => job[r].token \in Tokens
        /\ Storing(r) =>
              /\ uses[job[r].token] = 0
              /\ job[r].token \notin mailed /\ job[r].token # latest

\* No two requests store the same token.
UniqueOK ==
    \A r, q \in Requests :
        (Storing(r) \/ pc[r] = "mail") /\ Storing(q) /\ job[q].token = job[r].token => q = r

\* A token that is still to be created is nowhere.
FreshOK ==
    \A t \in Tokens : t > created =>
        /\ uses[t] = 0 /\ t \notin mailed /\ t # latest
        /\ \A r \in Requests : job[r].token # t

\* The user's key points at the latest token or is gone.
PointerOK == current \in {NoToken, latest}

\* What a request removes was replaced; what it points at was put.
ReadOK ==
    \A r \in Requests :
        /\ pc[r] = "unlink" => job[r].read \in spent
        /\ pc[r] = "point" => job[r].token \in entry \cup spent \/ erased
        /\ pc[r] \in {"find", "remove", "forget"} => erased

\* A link that was late stays so, and gets no further than the user's key.
LateOK ==
    \A r \in Requests :
        /\ pc[r] \in {"lookup", "match", "exec", "drop", "clear"} =>
              /\ job[r].token \in mailed \cup {NoToken}
              /\ job[r].late => job[r].token # latest
        /\ pc[r] = "match" => job[r].token \in Tokens
        /\ pc[r] \in {"exec", "drop", "clear"} => ~job[r].late
        /\ pc[r] = "exec" => Verifies
        /\ pc[r] \in {"drop", "clear"} => ~Verifies

\* A request that lost once tries a token that is dead.
TriesOK ==
    \A r \in Requests :
        /\ job[r].tries \in {1, 2}
        /\ pc[r] = "exec" => job[r].tries = 1
        /\ job[r].tries = 2 =>
              /\ pc[r] \in {"lookup", "match"}
              /\ job[r].token \in mailed
              /\ current # job[r].token \/ (pc[r] = "lookup" /\ job[r].token \notin entry)

IInv ==
    /\ TypeOK
    /\ StoringOK
    /\ UniqueOK
    /\ FreshOK
    /\ PointerOK
    /\ ReadOK
    /\ LateOK
    /\ TriesOK

RequestStep(r) ==
    \/ BeginStore(r) \/ GetPrevious(r) \/ Unlink(r) \/ Put(r) \/ Point(r) \/ Mail(r)
    \/ BeginConsume(r) \/ Lookup(r) \/ Match(r)
    \/ ExecWon(r) \/ ExecLost(r) \/ Drop(r) \/ Clear(r)
    \/ BeginErase(r) \/ Find(r) \/ Remove(r) \/ Forget(r)
    \/ Cancel(r)
-----------------------------------------------------------------------------
LEMMA NoTokenIsNone == NoToken \notin Tokens
  BY DEF NoToken, Tokens

LEMMA JobType ==
    /\ NoJob \in Job /\ NoJob.token = NoToken /\ NoJob.read = NoToken
    /\ NoJob.tries = 1 /\ NoJob.late = FALSE
  BY TokensAssumption DEF NoJob, Job, NoToken

LEMMA InitIInv == Init => IInv
  <1> SUFFICES ASSUME Init PROVE IInv
    OBVIOUS
  <1>1. TypeOK
    <2>1. created \in 0..MaxTokens /\ uses \in [Tokens -> Nat]
      BY TokensAssumption DEF Init
    <2>2. pc \in [Requests -> PCs] /\ job \in [Requests -> Job]
      BY JobType DEF Init, PCs
    <2>3. \A r \in Requests : pc[r] \notin {"exec", "drop", "clear"}
      BY DEF Init
    <2> QED
      BY <2>1, <2>2, <2>3 DEF Init, TypeOK
  <1>2. \A r \in Requests : pc[r] = "idle" /\ job[r].tries = 1 /\ job[r].token = NoToken
    BY JobType DEF Init
  <1>3. StoringOK /\ UniqueOK /\ PointerOK /\ ReadOK /\ LateOK /\ TriesOK
    BY <1>2 DEF Init, StoringOK, UniqueOK, Storing, PointerOK, ReadOK, LateOK, TriesOK
  <1>4. FreshOK
    BY <1>2 DEF Init, FreshOK, Tokens, NoToken
  <1> QED
    BY <1>1, <1>3, <1>4 DEF IInv

\* Request r moves to s with the job j, the others stay.
Moves(r, s, j) ==
    /\ pc' \in [Requests -> PCs] /\ job' \in [Requests -> Job]
    /\ pc'[r] = s /\ job'[r] = j
    /\ \A q \in Requests : q # r => pc'[q] = pc[q] /\ job'[q] = job[q]

LEMMA MoveStep ==
    ASSUME TypeOK, NEW r \in Requests, NEW s \in PCs, NEW j \in Job,
           pc' = [pc EXCEPT ![r] = s], job' = [job EXCEPT ![r] = j] \/ (j = job[r] /\ job' = job)
    PROVE  Moves(r, s, j)
  BY DEF TypeOK, Moves

LEMMA GotoStep ==
    ASSUME TypeOK, NEW r \in Requests, NEW s \in PCs, Goto(r, s)
    PROVE  Moves(r, s, job[r])
  BY DEF TypeOK, Goto, Moves

LEMMA DoneStep ==
    ASSUME TypeOK, NEW r \in Requests, Done(r)
    PROVE  Moves(r, "idle", NoJob)
  BY JobType DEF TypeOK, Done, Moves, PCs

\* A request that returns or is cancelled without a command keeps the invariant.
LEMMA DoneKeeps ==
    ASSUME IInv, NEW r \in Requests, Done(r), UNCHANGED <<purpose, redis, history>>
    PROVE  IInv'
  <1>1. Moves(r, "idle", NoJob)
    BY DoneStep DEF IInv
  <1>2. TypeOK'
    BY <1>1, JobType DEF IInv, TypeOK, Moves, redis, history
  <1>3. StoringOK' /\ UniqueOK' /\ FreshOK'
    BY <1>1, JobType DEF IInv, StoringOK, UniqueOK, Storing, FreshOK, Moves, redis,
       history, Tokens, NoToken
  <1>4. PointerOK' /\ ReadOK'
    BY <1>1, JobType DEF IInv, PointerOK, ReadOK, Moves, redis, history
  <1>5. LateOK' /\ TriesOK'
    BY <1>1, JobType DEF IInv, LateOK, Verifies, TriesOK, Moves, redis, history
  <1> QED
    BY <1>2, <1>3, <1>4, <1>5 DEF IInv

LEMMA BeginStoreKeeps ==
    ASSUME IInv, NEW r \in Requests, BeginStore(r)
    PROVE  IInv'
  <1> DEFINE j == [NoJob EXCEPT !.token = created + 1]
  <1>1. created \in Nat /\ created + 1 \in Tokens /\ created' \in 0..MaxTokens /\ created' = created + 1
    BY TokensAssumption DEF IInv, TypeOK, BeginStore, Tokens
  <1>2. j \in Job /\ j.token = created + 1 /\ j.tries = 1 /\ j.read = NoToken /\ j.late = FALSE
    BY <1>1, JobType DEF Job, NoJob
  <1>3. Moves(r, "previous", j)
    BY <1>2, MoveStep DEF IInv, BeginStore, PCs
  <1> HIDE DEF j
  <1>4. TypeOK'
    BY <1>3, <1>2, <1>1, NoTokenIsNone DEF IInv, TypeOK, LateOK, StoringOK, BeginStore,
       Moves, redis, history, Tokens, Storing, Job
  <1>5. StoringOK'
    BY <1>3, <1>2, <1>1, NoTokenIsNone DEF IInv, TypeOK, StoringOK, FreshOK, LateOK,
       UniqueOK, BeginStore, Moves, redis, history, Tokens, Storing
  <1>6. UniqueOK'
    BY <1>3, <1>2, <1>1, NoTokenIsNone DEF IInv, TypeOK, UniqueOK, StoringOK, FreshOK,
       BeginStore, Moves, redis, history, Tokens, Storing
  <1>7. FreshOK'
    BY <1>3, <1>2, <1>1, NoTokenIsNone DEF IInv, TypeOK, FreshOK, StoringOK, LateOK,
       BeginStore, Moves, redis, history, Tokens, Storing
  <1>8. PointerOK'
    BY <1>3, <1>2, <1>1, NoTokenIsNone DEF IInv, TypeOK, PointerOK, BeginStore, Moves,
       redis, history, Tokens
  <1>9. ReadOK'
    BY <1>3, <1>2, <1>1, NoTokenIsNone DEF IInv, TypeOK, ReadOK, StoringOK, BeginStore,
       Moves, redis, history, Tokens, Storing
  <1>10. LateOK'
    BY <1>3, <1>2, <1>1, NoTokenIsNone DEF IInv, TypeOK, LateOK, StoringOK, PointerOK,
       BeginStore, Moves, redis, history, Tokens, Storing, Verifies
  <1>11. TriesOK'
    BY <1>3, <1>2, <1>1, NoTokenIsNone, ZenonT(60) DEF IInv, TypeOK, TriesOK, LateOK, StoringOK,
       PointerOK, BeginStore, Moves, redis, history, Tokens, Storing
  <1> QED
    BY <1>4, <1>5, <1>6, <1>7, <1>8, <1>9, <1>10, <1>11 DEF IInv

LEMMA GetPreviousKeeps ==
    ASSUME IInv, NEW r \in Requests, GetPrevious(r)
    PROVE  IInv'
  <1> DEFINE j == [job[r] EXCEPT !.read = current]
  <1>1. j \in Job /\ j.token = job[r].token /\ j.tries = job[r].tries /\ j.read = current /\ j.late = job[r].late
    BY DEF IInv, TypeOK, GetPrevious, Job
  <1>2. PICK s \in PCs : Moves(r, s, j) /\ s = IF current = NoToken THEN "put" ELSE "unlink"
    BY <1>1, MoveStep DEF IInv, TypeOK, GetPrevious, PCs
  <1> HIDE DEF j
  <1>3. TypeOK'
    BY <1>2, <1>1, NoTokenIsNone DEF IInv, TypeOK, LateOK, StoringOK, GetPrevious,
       Moves, redis, history, Storing, Job
  <1>4. StoringOK'
    BY <1>2, <1>1, NoTokenIsNone DEF IInv, TypeOK, StoringOK, FreshOK, LateOK, UniqueOK,
       GetPrevious, Moves, redis, history, Storing
  <1>5. UniqueOK'
    BY <1>2, <1>1, NoTokenIsNone DEF IInv, TypeOK, UniqueOK, StoringOK, FreshOK,
       GetPrevious, Moves, redis, history, Storing
  <1>6. FreshOK'
    BY <1>2, <1>1, NoTokenIsNone DEF IInv, TypeOK, FreshOK, StoringOK, LateOK,
       GetPrevious, Moves, redis, history, Storing
  <1>7. PointerOK'
    BY <1>2, <1>1, NoTokenIsNone DEF IInv, TypeOK, PointerOK, GetPrevious, Moves, redis,
       history
  <1>8. ReadOK'
    BY <1>2, <1>1, NoTokenIsNone DEF IInv, TypeOK, ReadOK, StoringOK, GetPrevious,
       Moves, redis, history, Storing
  <1>9. LateOK'
    BY <1>2, <1>1, NoTokenIsNone DEF IInv, TypeOK, LateOK, StoringOK, PointerOK,
       GetPrevious, Moves, redis, history, Storing, Verifies
  <1>10. TriesOK'
    BY <1>2, <1>1, NoTokenIsNone DEF IInv, TypeOK, TriesOK, LateOK, StoringOK,
       PointerOK, GetPrevious, Moves, redis, history, Storing
  <1> QED
    BY <1>3, <1>4, <1>5, <1>6, <1>7, <1>8, <1>9, <1>10 DEF IInv

LEMMA UnlinkKeeps ==
    ASSUME IInv, NEW r \in Requests, Unlink(r)
    PROVE  IInv'
  <1>1. Moves(r, "put", job[r])
    BY GotoStep DEF IInv, Unlink, PCs
  <1>2. TypeOK'
    BY <1>1, NoTokenIsNone DEF IInv, TypeOK, LateOK, StoringOK, Unlink, Moves, redis,
       history, Storing, Job
  <1>3. StoringOK'
    BY <1>1, NoTokenIsNone DEF IInv, TypeOK, StoringOK, FreshOK, LateOK, UniqueOK,
       Unlink, Moves, redis, history, Storing
  <1>4. UniqueOK'
    BY <1>1, NoTokenIsNone DEF IInv, TypeOK, UniqueOK, StoringOK, FreshOK, Unlink,
       Moves, redis, history, Storing
  <1>5. FreshOK'
    BY <1>1, NoTokenIsNone DEF IInv, TypeOK, FreshOK, StoringOK, LateOK, Unlink, Moves,
       redis, history, Storing
  <1>6. PointerOK'
    BY <1>1, NoTokenIsNone DEF IInv, TypeOK, PointerOK, Unlink, Moves, redis, history
  <1>7. ReadOK'
    BY <1>1, NoTokenIsNone DEF IInv, TypeOK, ReadOK, StoringOK, Unlink, Moves, redis,
       history, Storing
  <1>8. LateOK'
    BY <1>1, NoTokenIsNone DEF IInv, TypeOK, LateOK, StoringOK, PointerOK, Unlink,
       Moves, redis, history, Storing, Verifies
  <1>9. TriesOK'
    BY <1>1, NoTokenIsNone DEF IInv, TypeOK, TriesOK, LateOK, StoringOK, PointerOK,
       Unlink, Moves, redis, history, Storing
  <1> QED
    BY <1>2, <1>3, <1>4, <1>5, <1>6, <1>7, <1>8, <1>9 DEF IInv

LEMMA PutKeeps ==
    ASSUME IInv, NEW r \in Requests, Put(r)
    PROVE  IInv'
  <1>1. Moves(r, "point", job[r])
    BY GotoStep DEF IInv, Put, PCs
  <1>2. TypeOK'
    BY <1>1, NoTokenIsNone DEF IInv, TypeOK, LateOK, StoringOK, Put, Moves, redis,
       history, Storing, Job
  <1>3. StoringOK'
    BY <1>1, NoTokenIsNone DEF IInv, TypeOK, StoringOK, FreshOK, LateOK, UniqueOK, Put,
       Moves, redis, history, Storing
  <1>4. UniqueOK'
    BY <1>1, NoTokenIsNone DEF IInv, TypeOK, UniqueOK, StoringOK, FreshOK, Put, Moves,
       redis, history, Storing
  <1>5. FreshOK'
    BY <1>1, NoTokenIsNone DEF IInv, TypeOK, FreshOK, StoringOK, LateOK, Put, Moves,
       redis, history, Storing
  <1>6. PointerOK'
    BY <1>1, NoTokenIsNone DEF IInv, TypeOK, PointerOK, Put, Moves, redis, history
  <1>7. ReadOK'
    BY <1>1, NoTokenIsNone DEF IInv, TypeOK, ReadOK, StoringOK, Put, Moves, redis,
       history, Storing
  <1>8. LateOK'
    BY <1>1, NoTokenIsNone DEF IInv, TypeOK, LateOK, StoringOK, PointerOK, Put, Moves,
       redis, history, Storing, Verifies
  <1>9. TriesOK'
    BY <1>1, NoTokenIsNone DEF IInv, TypeOK, TriesOK, LateOK, StoringOK, PointerOK, Put,
       Moves, redis, history, Storing
  <1> QED
    BY <1>2, <1>3, <1>4, <1>5, <1>6, <1>7, <1>8, <1>9 DEF IInv

LEMMA PointKeeps ==
    ASSUME IInv, NEW r \in Requests, Point(r)
    PROVE  IInv'
  <1>1. Moves(r, "mail", job[r])
    BY GotoStep DEF IInv, Point, PCs
  <1>2. TypeOK'
    BY <1>1, NoTokenIsNone DEF IInv, TypeOK, LateOK, StoringOK, Point, Moves, redis,
       history, Storing, Job
  <1>3. StoringOK'
    BY <1>1, NoTokenIsNone DEF IInv, TypeOK, StoringOK, FreshOK, LateOK, UniqueOK,
       Point, Moves, redis, history, Storing
  <1>4. UniqueOK'
    BY <1>1, NoTokenIsNone DEF IInv, TypeOK, UniqueOK, StoringOK, FreshOK, Point, Moves,
       redis, history, Storing
  <1>5. FreshOK'
    BY <1>1, NoTokenIsNone DEF IInv, TypeOK, FreshOK, StoringOK, LateOK, Point, Moves,
       redis, history, Storing
  <1>6. PointerOK'
    BY <1>1, NoTokenIsNone DEF IInv, TypeOK, PointerOK, Point, Moves, redis, history
  <1>7. ReadOK'
    BY <1>1, NoTokenIsNone DEF IInv, TypeOK, ReadOK, StoringOK, Point, Moves, redis,
       history, Storing
  <1>8. LateOK'
    BY <1>1, NoTokenIsNone DEF IInv, TypeOK, LateOK, StoringOK, PointerOK, Point, Moves,
       redis, history, Storing, Verifies
  <1>9. TriesOK'
    BY <1>1, NoTokenIsNone DEF IInv, TypeOK, TriesOK, LateOK, StoringOK, PointerOK,
       Point, Moves, redis, history, Storing
  <1> QED
    BY <1>2, <1>3, <1>4, <1>5, <1>6, <1>7, <1>8, <1>9 DEF IInv

LEMMA MailKeeps ==
    ASSUME IInv, NEW r \in Requests, Mail(r)
    PROVE  IInv'
  <1>1. Moves(r, "idle", NoJob)
    BY DoneStep DEF IInv, Mail
  <1>2. TypeOK'
    BY <1>1, JobType, NoTokenIsNone DEF IInv, TypeOK, LateOK, StoringOK, Mail, Moves,
       redis, history, Storing, Job
  <1>3. StoringOK'
    BY <1>1, JobType, NoTokenIsNone DEF IInv, TypeOK, StoringOK, FreshOK, LateOK,
       UniqueOK, Mail, Moves, redis, history, Storing
  <1>4. UniqueOK'
    BY <1>1, JobType, NoTokenIsNone DEF IInv, TypeOK, UniqueOK, StoringOK, FreshOK,
       Mail, Moves, redis, history, Storing
  <1>5. FreshOK'
    BY <1>1, JobType, NoTokenIsNone DEF IInv, TypeOK, FreshOK, StoringOK, LateOK, Mail,
       Moves, redis, history, Storing
  <1>6. PointerOK'
    BY <1>1, JobType, NoTokenIsNone DEF IInv, TypeOK, PointerOK, Mail, Moves, redis, history
  <1>7. ReadOK'
    BY <1>1, JobType, NoTokenIsNone DEF IInv, TypeOK, ReadOK, StoringOK, Mail, Moves,
       redis, history, Storing
  <1>8. LateOK'
    BY <1>1, JobType, NoTokenIsNone DEF IInv, TypeOK, LateOK, StoringOK, PointerOK,
       Mail, Moves, redis, history, Storing, Verifies
  <1>9. TriesOK'
    BY <1>1, JobType, NoTokenIsNone DEF IInv, TypeOK, TriesOK, LateOK, StoringOK,
       PointerOK, Mail, Moves, redis, history, Storing
  <1> QED
    BY <1>2, <1>3, <1>4, <1>5, <1>6, <1>7, <1>8, <1>9 DEF IInv

LEMMA BeginConsumeKeeps ==
    ASSUME IInv, NEW r \in Requests, BeginConsume(r)
    PROVE  IInv'
  <1>1. PICK t \in mailed \cup {NoToken} :
          job' = [job EXCEPT ![r] = [NoJob EXCEPT !.token = t, !.late = (latest # t)]]
    BY DEF BeginConsume
  <1> DEFINE j == [NoJob EXCEPT !.token = t, !.late = (latest # t)]
  <1>2. /\ j \in Job /\ j.token = t /\ j.tries = 1 /\ j.read = NoToken
        /\ (j.late => t # latest) /\ t \in mailed \cup {NoToken}
    BY JobType DEF IInv, TypeOK, NoJob, Job
  <1>3. Moves(r, "lookup", j)
    BY <1>1, <1>2, MoveStep DEF IInv, BeginConsume, PCs
  <1> HIDE DEF j
  <1>4. pc[r] = "idle" /\ UNCHANGED <<purpose, redis, history>>
    BY DEF BeginConsume
  <1>5. TypeOK'
    BY <1>3, <1>2, <1>4, NoTokenIsNone DEF IInv, TypeOK, LateOK, StoringOK, Moves,
       redis, history, Storing, Job
  <1>6. StoringOK'
    BY <1>3, <1>2, <1>4, NoTokenIsNone DEF IInv, TypeOK, StoringOK, FreshOK, LateOK,
       UniqueOK, Moves, redis, history, Storing
  <1>7. UniqueOK'
    BY <1>3, <1>2, <1>4, NoTokenIsNone DEF IInv, TypeOK, UniqueOK, StoringOK, FreshOK,
       Moves, redis, history, Storing
  <1>8. FreshOK'
    BY <1>3, <1>2, <1>4, NoTokenIsNone DEF IInv, TypeOK, FreshOK, StoringOK, LateOK,
       Moves, redis, history, Storing
  <1>9. PointerOK'
    BY <1>3, <1>2, <1>4, NoTokenIsNone DEF IInv, TypeOK, PointerOK, Moves, redis, history
  <1>10. ReadOK'
    BY <1>3, <1>2, <1>4, NoTokenIsNone DEF IInv, TypeOK, ReadOK, StoringOK, Moves,
       redis, history, Storing
  <1>11. LateOK'
    BY <1>3, <1>2, <1>4, NoTokenIsNone DEF IInv, TypeOK, LateOK, StoringOK, PointerOK,
       Moves, redis, history, Storing, Verifies
  <1>12. TriesOK'
    BY <1>3, <1>2, <1>4, NoTokenIsNone DEF IInv, TypeOK, TriesOK, LateOK, StoringOK,
       PointerOK, Moves, redis, history, Storing
  <1> QED
    BY <1>5, <1>6, <1>7, <1>8, <1>9, <1>10, <1>11, <1>12 DEF IInv

LEMMA ExecWonKeeps ==
    ASSUME IInv, NEW r \in Requests, ExecWon(r)
    PROVE  IInv'
  <1>1. Moves(r, "idle", NoJob)
    BY DoneStep DEF IInv, ExecWon
  <1>2. /\ job[r].token \in Tokens /\ job[r].token \in mailed /\ uses' \in [Tokens -> Nat]
        /\ \A t \in Tokens : t # job[r].token => uses'[t] = uses[t]
    BY DEF IInv, TypeOK, LateOK, ExecWon, Accept, Tokens, NoToken
  <1>3. /\ pc[r] = "exec" /\ current' = NoToken
        /\ entry' = entry \ {job[r].token} /\ spent' = spent \cup {job[r].token}
        /\ UNCHANGED <<purpose, created, mailed, latest, erased>>
    BY DEF ExecWon
  <1>4. TypeOK'
    BY <1>1, <1>2, <1>3, JobType, NoTokenIsNone DEF IInv, TypeOK, LateOK, StoringOK,
       Moves, Storing, Job
  <1>5. StoringOK'
    BY <1>1, <1>2, <1>3, JobType, NoTokenIsNone DEF IInv, TypeOK, StoringOK, FreshOK,
       LateOK, UniqueOK, Moves, Storing
  <1>6. UniqueOK'
    BY <1>1, <1>2, <1>3, JobType, NoTokenIsNone DEF IInv, TypeOK, UniqueOK, StoringOK,
       FreshOK, Moves, Storing
  <1>7. FreshOK'
    BY <1>1, <1>2, <1>3, JobType, NoTokenIsNone DEF IInv, TypeOK, FreshOK, StoringOK,
       LateOK, Moves, Storing
  <1>8. PointerOK'
    BY <1>1, <1>2, <1>3, JobType, NoTokenIsNone DEF IInv, TypeOK, PointerOK, Moves
  <1>9. ReadOK'
    BY <1>1, <1>2, <1>3, JobType, NoTokenIsNone DEF IInv, TypeOK, ReadOK, StoringOK,
       Moves, Storing
  <1>10. LateOK'
    BY <1>1, <1>2, <1>3, JobType, NoTokenIsNone DEF IInv, TypeOK, LateOK, StoringOK,
       PointerOK, Moves, Storing, Verifies
  <1>11. TriesOK'
    BY <1>1, <1>2, <1>3, JobType, NoTokenIsNone DEF IInv, TypeOK, TriesOK, LateOK,
       StoringOK, PointerOK, Moves, Storing
  <1> QED
    BY <1>4, <1>5, <1>6, <1>7, <1>8, <1>9, <1>10, <1>11 DEF IInv

LEMMA DropKeeps ==
    ASSUME IInv, NEW r \in Requests, Drop(r)
    PROVE  IInv'
  <1>1. Moves(r, "clear", job[r])
    BY GotoStep DEF IInv, Drop, PCs
  <1>2. TypeOK'
    BY <1>1, NoTokenIsNone DEF IInv, TypeOK, LateOK, StoringOK, Drop, Moves, redis,
       history, Storing, Job
  <1>3. StoringOK'
    BY <1>1, NoTokenIsNone DEF IInv, TypeOK, StoringOK, FreshOK, LateOK, UniqueOK, Drop,
       Moves, redis, history, Storing
  <1>4. UniqueOK'
    BY <1>1, NoTokenIsNone DEF IInv, TypeOK, UniqueOK, StoringOK, FreshOK, Drop, Moves,
       redis, history, Storing
  <1>5. FreshOK'
    BY <1>1, NoTokenIsNone DEF IInv, TypeOK, FreshOK, StoringOK, LateOK, Drop, Moves,
       redis, history, Storing
  <1>6. PointerOK'
    BY <1>1, NoTokenIsNone DEF IInv, TypeOK, PointerOK, Drop, Moves, redis, history
  <1>7. ReadOK'
    BY <1>1, NoTokenIsNone DEF IInv, TypeOK, ReadOK, StoringOK, Drop, Moves, redis,
       history, Storing
  <1>8. LateOK'
    BY <1>1, NoTokenIsNone DEF IInv, TypeOK, LateOK, StoringOK, PointerOK, Drop, Moves,
       redis, history, Storing, Verifies
  <1>9. TriesOK'
    BY <1>1, NoTokenIsNone DEF IInv, TypeOK, TriesOK, LateOK, StoringOK, PointerOK,
       Drop, Moves, redis, history, Storing
  <1> QED
    BY <1>2, <1>3, <1>4, <1>5, <1>6, <1>7, <1>8, <1>9 DEF IInv

LEMMA ClearKeeps ==
    ASSUME IInv, NEW r \in Requests, Clear(r)
    PROVE  IInv'
  <1>1. Moves(r, "idle", NoJob)
    BY DoneStep DEF IInv, Clear
  <1>2. /\ job[r].token \in Tokens /\ job[r].token \in mailed /\ uses' \in [Tokens -> Nat]
        /\ \A t \in Tokens : t # job[r].token => uses'[t] = uses[t]
    BY DEF IInv, TypeOK, LateOK, Clear, Accept, Tokens, NoToken
  <1>3. /\ pc[r] = "clear" /\ current' = NoToken
        /\ UNCHANGED <<purpose, entry, created, mailed, latest, spent, erased>>
    BY DEF Clear
  <1>4. TypeOK'
    BY <1>1, <1>2, <1>3, JobType, NoTokenIsNone DEF IInv, TypeOK, LateOK, StoringOK,
       Moves, Storing, Job
  <1>5. StoringOK'
    BY <1>1, <1>2, <1>3, JobType, NoTokenIsNone DEF IInv, TypeOK, StoringOK, FreshOK,
       LateOK, UniqueOK, Moves, Storing
  <1>6. UniqueOK'
    BY <1>1, <1>2, <1>3, JobType, NoTokenIsNone DEF IInv, TypeOK, UniqueOK, StoringOK,
       FreshOK, Moves, Storing
  <1>7. FreshOK'
    BY <1>1, <1>2, <1>3, JobType, NoTokenIsNone DEF IInv, TypeOK, FreshOK, StoringOK,
       LateOK, Moves, Storing
  <1>8. PointerOK'
    BY <1>1, <1>2, <1>3, JobType, NoTokenIsNone DEF IInv, TypeOK, PointerOK, Moves
  <1>9. ReadOK'
    BY <1>1, <1>2, <1>3, JobType, NoTokenIsNone DEF IInv, TypeOK, ReadOK, StoringOK,
       Moves, Storing
  <1>10. LateOK'
    BY <1>1, <1>2, <1>3, JobType, NoTokenIsNone DEF IInv, TypeOK, LateOK, StoringOK,
       PointerOK, Moves, Storing, Verifies
  <1>11. TriesOK'
    BY <1>1, <1>2, <1>3, JobType, NoTokenIsNone DEF IInv, TypeOK, TriesOK, LateOK,
       StoringOK, PointerOK, Moves, Storing
  <1> QED
    BY <1>4, <1>5, <1>6, <1>7, <1>8, <1>9, <1>10, <1>11 DEF IInv

LEMMA BeginEraseKeeps ==
    ASSUME IInv, NEW r \in Requests, BeginErase(r)
    PROVE  IInv'
  <1>1. Moves(r, "find", job[r])
    BY JobType, MoveStep DEF IInv, TypeOK, BeginErase, PCs
  <1>2. TypeOK'
    BY <1>1, NoTokenIsNone DEF IInv, TypeOK, LateOK, StoringOK, BeginErase, Moves,
       redis, history, Storing, Job
  <1>3. StoringOK'
    BY <1>1, NoTokenIsNone DEF IInv, TypeOK, StoringOK, FreshOK, LateOK, UniqueOK,
       BeginErase, Moves, redis, history, Storing
  <1>4. UniqueOK'
    BY <1>1, NoTokenIsNone DEF IInv, TypeOK, UniqueOK, StoringOK, FreshOK, BeginErase,
       Moves, redis, history, Storing
  <1>5. FreshOK'
    BY <1>1, NoTokenIsNone DEF IInv, TypeOK, FreshOK, StoringOK, LateOK, BeginErase,
       Moves, redis, history, Storing
  <1>6. PointerOK'
    BY <1>1, NoTokenIsNone DEF IInv, TypeOK, PointerOK, BeginErase, Moves, redis, history
  <1>7. ReadOK'
    BY <1>1, NoTokenIsNone DEF IInv, TypeOK, ReadOK, StoringOK, BeginErase, Moves,
       redis, history, Storing
  <1>8. LateOK'
    BY <1>1, NoTokenIsNone DEF IInv, TypeOK, LateOK, StoringOK, PointerOK, BeginErase,
       Moves, redis, history, Storing, Verifies
  <1>9. TriesOK'
    BY <1>1, NoTokenIsNone DEF IInv, TypeOK, TriesOK, LateOK, StoringOK, PointerOK,
       BeginErase, Moves, redis, history, Storing
  <1> QED
    BY <1>2, <1>3, <1>4, <1>5, <1>6, <1>7, <1>8, <1>9 DEF IInv

LEMMA FindKeeps ==
    ASSUME IInv, NEW r \in Requests, Find(r)
    PROVE  IInv'
  <1> DEFINE j == [job[r] EXCEPT !.read = current]
  <1>1. j \in Job /\ j.token = job[r].token /\ j.tries = job[r].tries /\ j.read = current /\ j.late = job[r].late
    BY DEF IInv, TypeOK, Find, Job
  <1>2. PICK s \in PCs : Moves(r, s, j) /\ s = IF current = NoToken THEN "forget" ELSE "remove"
    BY <1>1, MoveStep DEF IInv, TypeOK, Find, PCs
  <1> HIDE DEF j
  <1>3. TypeOK'
    BY <1>2, <1>1, NoTokenIsNone DEF IInv, TypeOK, LateOK, StoringOK, Find, Moves,
       redis, history, Storing, Job
  <1>4. StoringOK'
    BY <1>2, <1>1, NoTokenIsNone DEF IInv, TypeOK, StoringOK, FreshOK, LateOK, UniqueOK,
       Find, Moves, redis, history, Storing
  <1>5. UniqueOK'
    BY <1>2, <1>1, NoTokenIsNone DEF IInv, TypeOK, UniqueOK, StoringOK, FreshOK, Find,
       Moves, redis, history, Storing
  <1>6. FreshOK'
    BY <1>2, <1>1, NoTokenIsNone DEF IInv, TypeOK, FreshOK, StoringOK, LateOK, Find,
       Moves, redis, history, Storing
  <1>7. PointerOK'
    BY <1>2, <1>1, NoTokenIsNone DEF IInv, TypeOK, PointerOK, Find, Moves, redis, history
  <1>8. ReadOK'
    BY <1>2, <1>1, NoTokenIsNone DEF IInv, TypeOK, ReadOK, StoringOK, Find, Moves,
       redis, history, Storing
  <1>9. LateOK'
    BY <1>2, <1>1, NoTokenIsNone DEF IInv, TypeOK, LateOK, StoringOK, PointerOK, Find,
       Moves, redis, history, Storing, Verifies
  <1>10. TriesOK'
    BY <1>2, <1>1, NoTokenIsNone DEF IInv, TypeOK, TriesOK, LateOK, StoringOK,
       PointerOK, Find, Moves, redis, history, Storing
  <1> QED
    BY <1>3, <1>4, <1>5, <1>6, <1>7, <1>8, <1>9, <1>10 DEF IInv

LEMMA RemoveKeeps ==
    ASSUME IInv, NEW r \in Requests, Remove(r)
    PROVE  IInv'
  <1>1. Moves(r, "forget", job[r])
    BY GotoStep DEF IInv, Remove, PCs
  <1>2. TypeOK'
    BY <1>1, NoTokenIsNone DEF IInv, TypeOK, LateOK, StoringOK, Remove, Moves, redis,
       history, Storing, Job
  <1>3. StoringOK'
    BY <1>1, NoTokenIsNone DEF IInv, TypeOK, StoringOK, FreshOK, LateOK, UniqueOK,
       Remove, Moves, redis, history, Storing
  <1>4. UniqueOK'
    BY <1>1, NoTokenIsNone DEF IInv, TypeOK, UniqueOK, StoringOK, FreshOK, Remove,
       Moves, redis, history, Storing
  <1>5. FreshOK'
    BY <1>1, NoTokenIsNone DEF IInv, TypeOK, FreshOK, StoringOK, LateOK, Remove, Moves,
       redis, history, Storing
  <1>6. PointerOK'
    BY <1>1, NoTokenIsNone DEF IInv, TypeOK, PointerOK, Remove, Moves, redis, history
  <1>7. ReadOK'
    BY <1>1, NoTokenIsNone DEF IInv, TypeOK, ReadOK, StoringOK, Remove, Moves, redis,
       history, Storing
  <1>8. LateOK'
    BY <1>1, NoTokenIsNone DEF IInv, TypeOK, LateOK, StoringOK, PointerOK, Remove,
       Moves, redis, history, Storing, Verifies
  <1>9. TriesOK'
    BY <1>1, NoTokenIsNone DEF IInv, TypeOK, TriesOK, LateOK, StoringOK, PointerOK,
       Remove, Moves, redis, history, Storing
  <1> QED
    BY <1>2, <1>3, <1>4, <1>5, <1>6, <1>7, <1>8, <1>9 DEF IInv

LEMMA ForgetKeeps ==
    ASSUME IInv, NEW r \in Requests, Forget(r)
    PROVE  IInv'
  <1>1. Moves(r, "idle", NoJob)
    BY DoneStep DEF IInv, Forget
  <1>2. TypeOK'
    BY <1>1, JobType, NoTokenIsNone DEF IInv, TypeOK, LateOK, StoringOK, Forget, Moves,
       redis, history, Storing, Job
  <1>3. StoringOK'
    BY <1>1, JobType, NoTokenIsNone DEF IInv, TypeOK, StoringOK, FreshOK, LateOK,
       UniqueOK, Forget, Moves, redis, history, Storing
  <1>4. UniqueOK'
    BY <1>1, JobType, NoTokenIsNone DEF IInv, TypeOK, UniqueOK, StoringOK, FreshOK,
       Forget, Moves, redis, history, Storing
  <1>5. FreshOK'
    BY <1>1, JobType, NoTokenIsNone DEF IInv, TypeOK, FreshOK, StoringOK, LateOK,
       Forget, Moves, redis, history, Storing
  <1>6. PointerOK'
    BY <1>1, JobType, NoTokenIsNone DEF IInv, TypeOK, PointerOK, Forget, Moves, redis,
       history
  <1>7. ReadOK'
    BY <1>1, JobType, NoTokenIsNone DEF IInv, TypeOK, ReadOK, StoringOK, Forget, Moves,
       redis, history, Storing
  <1>8. LateOK'
    BY <1>1, JobType, NoTokenIsNone DEF IInv, TypeOK, LateOK, StoringOK, PointerOK,
       Forget, Moves, redis, history, Storing, Verifies
  <1>9. TriesOK'
    BY <1>1, JobType, NoTokenIsNone DEF IInv, TypeOK, TriesOK, LateOK, StoringOK,
       PointerOK, Forget, Moves, redis, history, Storing
  <1> QED
    BY <1>2, <1>3, <1>4, <1>5, <1>6, <1>7, <1>8, <1>9 DEF IInv

LEMMA LookupKeeps ==
    ASSUME IInv, NEW r \in Requests, Lookup(r)
    PROVE  IInv'
  <1>1. CASE ~Known(job[r].token)
    BY <1>1, DoneKeeps DEF Lookup
  <1>2. CASE Known(job[r].token)
    <2>1. Moves(r, "match", job[r]) /\ UNCHANGED <<purpose, redis, history>> /\ pc[r] = "lookup"
      BY <1>2, GotoStep DEF IInv, Lookup, PCs
    <2>2. job[r].token \in entry /\ job[r].token \in Tokens
      BY <1>2 DEF Known, IInv, TypeOK
    <2>3. TypeOK'
      BY <2>1, <2>2 DEF IInv, TypeOK, Moves, redis, history
    <2>4. StoringOK' /\ UniqueOK' /\ FreshOK'
      BY <2>1 DEF IInv, StoringOK, UniqueOK, Storing, FreshOK, Moves, redis, history
    <2>5. PointerOK' /\ ReadOK'
      BY <2>1 DEF IInv, PointerOK, ReadOK, Moves, redis, history
    <2>6. LateOK' /\ TriesOK'
      BY <2>1, <2>2 DEF IInv, LateOK, Verifies, TriesOK, Moves, redis, history
    <2> QED
      BY <2>3, <2>4, <2>5, <2>6 DEF IInv
  <1> QED
    BY <1>1, <1>2

LEMMA MatchKeeps ==
    ASSUME IInv, NEW r \in Requests, Match(r)
    PROVE  IInv'
  <1>1. CASE ~Matches(job[r].token)
    BY <1>1, DoneKeeps DEF Match
  <1>2. CASE Matches(job[r].token)
    <2>1. PICK s \in PCs : /\ Moves(r, s, job[r]) /\ UNCHANGED <<purpose, redis, history>>
                           /\ pc[r] = "match" /\ current = job[r].token
                           /\ s = IF Verifies THEN "exec" ELSE "drop"
      BY <1>2, GotoStep DEF IInv, Match, Matches, Verifies, PCs
    <2>2. job[r].token \in Tokens /\ job[r].token = latest
      BY <2>1 DEF IInv, LateOK, PointerOK, Tokens, NoToken
    <2>3. ~job[r].late /\ job[r].tries = 1
      BY <2>1, <2>2 DEF IInv, LateOK, TriesOK
    <2>4. TypeOK'
      BY <2>1, <2>2 DEF IInv, TypeOK, Moves, redis, history
    <2>5. StoringOK' /\ UniqueOK' /\ FreshOK'
      BY <2>1 DEF IInv, StoringOK, UniqueOK, Storing, FreshOK, Moves, redis, history
    <2>6. PointerOK' /\ ReadOK'
      BY <2>1 DEF IInv, PointerOK, ReadOK, Moves, redis, history
    <2>7. LateOK' /\ TriesOK'
      BY <2>1, <2>2, <2>3 DEF IInv, LateOK, Verifies, TriesOK, Moves, redis, history
    <2> QED
      BY <2>4, <2>5, <2>6, <2>7 DEF IInv
  <1> QED
    BY <1>1, <1>2

LEMMA ExecLostKeeps ==
    ASSUME IInv, NEW r \in Requests, ExecLost(r)
    PROVE  IInv'
  <1>1. CASE Done(r)
    BY <1>1, DoneKeeps DEF ExecLost
  <1>2. CASE ~Done(r)
    <2> DEFINE j == [job[r] EXCEPT !.tries = @ + 1]
    <2>1. /\ pc[r] = "exec" /\ UNCHANGED <<purpose, redis, history>>
          /\ job[r].tries < MaxTries /\ ~Untouched(job[r].token)
          /\ job' = [job EXCEPT ![r] = j] /\ pc' = [pc EXCEPT ![r] = "lookup"]
      BY <1>2 DEF ExecLost
    <2>2. job[r].tries = 1 /\ job[r].token \in mailed /\ job[r].token \in Tokens /\ ~job[r].late
      BY <2>1 DEF IInv, TypeOK, LateOK, TriesOK, Tokens, NoToken
    <2>3. j \in Job /\ j.tries = 2 /\ j.token = job[r].token /\ ~j.late
      BY <2>1, <2>2, TokensAssumption DEF IInv, TypeOK, Job
    <2>4. Moves(r, "lookup", j)
      BY <2>1, <2>3, MoveStep DEF IInv, PCs
    <2> HIDE DEF j
    <2>5. TypeOK'
      BY <2>1, <2>3, <2>4 DEF IInv, TypeOK, Moves, redis, history
    <2>6. StoringOK' /\ UniqueOK' /\ FreshOK'
      BY <2>1, <2>3, <2>4 DEF IInv, StoringOK, UniqueOK, Storing, FreshOK, Moves,
         redis, history
    <2>7. PointerOK' /\ ReadOK'
      BY <2>1, <2>4 DEF IInv, PointerOK, ReadOK, Moves, redis, history
    <2>8. LateOK' /\ TriesOK'
      BY <2>1, <2>2, <2>3, <2>4 DEF IInv, LateOK, Verifies, TriesOK, Untouched, Moves,
         redis, history
    <2> QED
      BY <2>5, <2>6, <2>7, <2>8 DEF IInv
  <1> QED
    BY <1>1, <1>2

LEMMA StepIInv ==
    ASSUME IInv, NEW r \in Requests, RequestStep(r)
    PROVE  IInv'
  BY BeginStoreKeeps, GetPreviousKeeps, UnlinkKeeps, PutKeeps, PointKeeps, MailKeeps,
     BeginConsumeKeeps, LookupKeeps, MatchKeeps, ExecWonKeeps, ExecLostKeeps, DropKeeps,
     ClearKeeps, BeginEraseKeeps, FindKeeps, RemoveKeeps, ForgetKeeps, DoneKeeps
  DEF RequestStep, Cancel

LEMMA ExpireIInv ==
    ASSUME IInv, Expire \/ ExpireCurrent
    PROVE  IInv'
  <1>1. TypeOK'
    BY DEF IInv, TypeOK, Expire, ExpireCurrent, history, Tokens, NoToken
  <1>2. StoringOK' /\ UniqueOK' /\ FreshOK'
    BY DEF IInv, StoringOK, UniqueOK, Storing, FreshOK, Expire, ExpireCurrent, history
  <1>3. PointerOK' /\ ReadOK'
    BY DEF IInv, PointerOK, ReadOK, Expire, ExpireCurrent, history
  <1>4. LateOK'
    BY DEF IInv, LateOK, Verifies, Expire, ExpireCurrent, history
  <1>5. TriesOK'
    BY DEF IInv, TypeOK, TriesOK, LateOK, Expire, ExpireCurrent, history, Tokens, NoToken
  <1> QED
    BY <1>1, <1>2, <1>3, <1>4, <1>5 DEF IInv

LEMMA StutterIInv == IInv /\ UNCHANGED vars => IInv'
  BY DEF IInv, TypeOK, StoringOK, UniqueOK, Storing, FreshOK, PointerOK, ReadOK, LateOK,
     Verifies, TriesOK, vars

LEMMA Invariance == Spec => []IInv
  <1>1. IInv /\ [Next]_vars => IInv'
    BY StepIInv, ExpireIInv, StutterIInv DEF Next, RequestStep
  <1> QED
    BY InitIInv, <1>1, PTL DEF Spec

\* Every variable keeps its type, and no unknown link is accepted.
THEOREM TypeCorrect == Spec => []TypeOK
  <1>1. IInv => TypeOK
    BY DEF IInv
  <1> QED
    BY Invariance, <1>1, PTL

\* The tries of a consumption are never used up: a request loses at most once.
THEOREM ContentionEnds == Spec => []NeverContends
  <1>1. ASSUME IInv, NEW r \in Requests PROVE job[r].tries <= 2
    <2>1. job[r].tries = 1 \/ job[r].tries = 2
      BY <1>1 DEF IInv, TriesOK
    <2> QED
      BY <2>1
  <1>2. IInv => NeverContends
    BY <1>1 DEF NeverContends
  <1> QED
    BY Invariance, <1>2, PTL

\* A link that was replaced before the request arrived is refused, for both
\* purposes: the user's key never points at it again.
THEOREM ReplacedRefused == Spec => ReplacedIsRefused
  <1>1. IInv /\ [Next]_vars => [\A r \in Requests : ExecWon(r) \/ Clear(r) => ~job[r].late]_vars
    BY DEF IInv, LateOK, ExecWon, Clear
  <1> QED
    BY Invariance, <1>1, PTL DEF Spec, ReplacedIsRefused

\* A verification token that was accepted has no entry any more.
UsedOK == \A t \in Tokens : uses[t] \in {0, 1} /\ (uses[t] = 1 => t \notin entry)

Kept == ~erased /\ latest \notin spent \cup {NoToken} => current = latest /\ latest \in entry

VInv == Verifies => UsedOK /\ Kept

LEMMA ExecWonVerifies ==
    ASSUME IInv, UsedOK, NEW r \in Requests, ExecWon(r)
    PROVE  UsedOK' /\ Kept' /\ job[r].token = latest /\ uses' = [uses EXCEPT ![latest] = @ + 1]
  <1>1. job[r].token \in Tokens /\ job[r].token \in entry /\ job[r].token = latest
    BY NoTokenIsNone DEF IInv, TypeOK, PointerOK, ExecWon, Untouched
  <1>2. uses[latest] = 0 /\ uses' = [uses EXCEPT ![latest] = @ + 1]
    BY <1>1 DEF UsedOK, ExecWon, Accept
  <1>3. entry' = entry \ {latest} /\ latest' = latest /\ latest \in spent'
    BY <1>1 DEF ExecWon
  <1>4. UsedOK'
    BY <1>1, <1>2, <1>3 DEF UsedOK, IInv, TypeOK
  <1>5. Kept'
    BY <1>3 DEF Kept
  <1> QED
    BY <1>1, <1>2, <1>4, <1>5

LEMMA PutVerifies ==
    ASSUME IInv, UsedOK, Kept, NEW r \in Requests, Put(r)
    PROVE  UsedOK' /\ Kept'
  <1>1. job[r].token \in Tokens /\ uses[job[r].token] = 0
    BY DEF IInv, StoringOK, Storing, Put
  <1> QED
    BY <1>1 DEF UsedOK, Kept, Put, history

\* A verification token is lost only to a request that has replaced it, or with
\* the account.
LEMMA RequestVerifies ==
    ASSUME Verifies, IInv, UsedOK, Kept, NEW r \in Requests, RequestStep(r)
    PROVE  UsedOK' /\ Kept'
  <1>1. CASE BeginStore(r) \/ GetPrevious(r) \/ Mail(r) \/ BeginConsume(r) \/ Lookup(r) \/ Match(r)
             \/ ExecLost(r) \/ Find(r) \/ Cancel(r)
    <2>1. UNCHANGED <<entry, current, latest, uses>> /\ spent \subseteq spent'
      BY <1>1 DEF BeginStore, GetPrevious, Mail, BeginConsume, Lookup, Match,
         ExecLost, Find, Cancel,
         redis, history
    <2>2. erased' = erased
      BY <1>1 DEF BeginStore, GetPrevious, Mail, BeginConsume, Lookup, Match,
         ExecLost, Find, Cancel,
         history
    <2> QED
      BY <2>1, <2>2 DEF UsedOK, Kept
  <1>2. CASE Unlink(r)
    <2>1. job[r].read \in spent /\ entry' = entry \ {job[r].read}
      BY <1>2 DEF Unlink, IInv, ReadOK
    <2> QED
      BY <1>2, <2>1 DEF UsedOK, Kept, Unlink, history
  <1>3. CASE Point(r)
    BY <1>3 DEF UsedOK, Kept, Point, IInv, ReadOK
  <1>4. CASE Remove(r) \/ Forget(r)
    BY <1>4 DEF UsedOK, Kept, Remove, Forget, history, IInv, ReadOK
  <1>5. CASE Drop(r) \/ Clear(r)
    BY <1>5 DEF Drop, Clear, IInv, LateOK
  <1>6. CASE BeginErase(r)
    BY <1>6 DEF BeginErase, UsedOK, Kept, redis
  <1> QED
    BY <1>1, <1>2, <1>3, <1>4, <1>5, <1>6, ExecWonVerifies, PutVerifies DEF RequestStep

LEMMA PurposeStays ==
    ASSUME Next
    PROVE  UNCHANGED purpose
  BY DEF Next, BeginStore, GetPrevious, Unlink, Put, Point, Mail, BeginConsume, Lookup,
     Match,
     ExecWon, ExecLost, Drop, Clear, BeginErase, Find, Remove, Forget, Cancel, Expire, ExpireCurrent

LEMMA VerificationInvariance == Spec => []VInv
  <1>1. Init => VInv
    BY DEF Init, VInv, UsedOK, Kept
  <1>2. ASSUME IInv, VInv, Next PROVE VInv'
    <2>1. Verifies' = Verifies
      BY <1>2, PurposeStays DEF Verifies
    <2>2. ASSUME Verifies PROVE UsedOK' /\ Kept'
      <3>1. UsedOK /\ Kept
        BY <1>2, <2>2 DEF VInv
      <3>2. CASE Expire \/ ExpireCurrent
        BY <3>1, <3>2 DEF UsedOK, Kept, Expire, ExpireCurrent, history
      <3> QED
        BY <1>2, <2>2, <3>1, <3>2, RequestVerifies DEF Next, RequestStep
    <2> QED
      BY <2>1, <2>2 DEF VInv
  <1>3. IInv /\ VInv /\ UNCHANGED vars => VInv'
    BY DEF VInv, Verifies, UsedOK, Kept, vars
  <1>4. IInv /\ VInv /\ [Next]_vars => VInv'
    BY <1>2, <1>3
  <1> QED
    BY Invariance, <1>1, <1>4, PTL DEF Spec

\* A verification token is accepted at most once, however many requests follow
\* the link together: EXEC fails for all but one.
THEOREM SingleVerification == Spec => []VerifiedOnce
  <1>1. ASSUME UsedOK, NEW t \in Tokens PROVE uses[t] <= 1
    <2>1. uses[t] = 0 \/ uses[t] = 1
      BY <1>1 DEF UsedOK
    <2> QED
      BY <2>1
  <1>2. VInv => VerifiedOnce
    BY <1>1 DEF VInv, VerifiedOnce
  <1> QED
    BY VerificationInvariance, <1>2, PTL

\* The verification token stored last stays valid until it is used, replaced or
\* expires, or the account is deleted.
THEOREM VerificationNotLost == Spec => []NoTokenLost
  <1>1. VInv => NoTokenLost
    BY DEF VInv, Kept, NoTokenLost
  <1> QED
    BY VerificationInvariance, <1>1, PTL

LEMMA UsesChange ==
    ASSUME Verifies, IInv, VInv, Next, NEW t \in Tokens, uses'[t] # uses[t]
    PROVE  t = latest
  <1>1. PICK r \in Requests : ExecWon(r) \/ Clear(r)
    BY DEF Next, BeginStore, GetPrevious, Unlink, Put, Point, Mail, BeginConsume,
       Lookup, Match,
       ExecLost, Drop, BeginErase, Find, Remove, Forget, Cancel, Expire, ExpireCurrent, history
  <1>2. ExecWon(r)
    BY <1>1 DEF Clear, IInv, LateOK
  <1> QED
    BY <1>2, ExecWonVerifies DEF IInv, TypeOK, VInv

\* The verification token accepted is the latest one when it is accepted.
THEOREM LatestVerified == Spec => OnlyLatest
  <1>1. IInv /\ VInv /\ [Next]_vars
            => [Verifies => \A t \in Tokens : uses'[t] # uses[t] => t = latest]_vars
    BY UsesChange
  <1> QED
    BY Invariance, VerificationInvariance, <1>1, PTL DEF Spec, OnlyLatest
=============================================================================
