--------------------------- MODULE AccountsProofs ---------------------------
(***************************************************************************)
(* Proofs about Accounts for every set of clients and addresses and every  *)
(* bound.                                                                  *)
(***************************************************************************)
EXTENDS Accounts, FiniteSetTheorems, TLAPS

HoldsLock(c) == tx[c].pc \in LockedPCs

\* One transaction holds the table lock, and none has written the table then.
LockOK ==
    \A c, d \in Clients : HoldsLock(c) =>
        /\ HoldsLock(d) => c = d
        /\ tx[d].pc # "registered"

\* An uncommitted account belongs to the transaction that inserted it.
InsertOK ==
    \A c \in Clients : tx[c].pc = "registered" =>
        /\ account[tx[c].id].state = "pending"
        /\ \A d \in Clients : tx[d].pc = "registered" /\ tx[d].id = tx[c].id => c = d

\* What the holder of the lock has read is still so.
FoundOK ==
    \A c \in Clients :
        /\ tx[c].pc \in {"count", "save", "review", "erase"} =>
              Live(tx[c].id) /\ tx[c].previous = account[tx[c].id].role
        /\ tx[c].pc \in {"find", "count"} => tx[c].kind \in {"role", "delete"}
        /\ tx[c].pc = "save" => tx[c].kind = "role"
        /\ tx[c].pc \in {"review", "erase"} => tx[c].kind = "delete"
        /\ tx[c].pc = "lock" => tx[c].kind \in {"role", "delete"}

\* After the count there is another administrator.
AdminOK ==
    \A c \in Clients : tx[c].pc \in {"save", "review", "erase"} /\ Demotes(c) =>
        \E u \in Admins : u # tx[c].id

\* An uncommitted reservation and a deletion exclude each other.
ShareOK ==
    \A c \in Clients : tx[c].pc = "reserved" => Live(tx[c].id) /\ ~RowLocked(tx[c].id)

EraseOK ==
    \A c \in Clients : tx[c].pc = "erase" => tx[c].id \notin reserved

\* Only accounts that existed are audited.
AuditOK ==
    /\ \A i \in 1 .. Len(audit) : account[audit[i].user].state \in {"live", "gone"}
    /\ AuditExplains

IInv ==
    /\ TypeOK
    /\ LockOK
    /\ InsertOK
    /\ FoundOK
    /\ AdminOK
    /\ ShareOK
    /\ EraseOK
    /\ AuditOK

Step(c) ==
    \/ \E e \in Emails, r \in {"user", "admin"} : BeginSignup(c, e, r)
    \/ Register(c) \/ CommitSignup(c)
    \/ \E e \in Emails, r \in Roles : BeginRole(c, e, r)
    \/ \E u \in Ids : BeginDelete(c, u) \/ BeginReserve(c, u)
    \/ Lock(c) \/ FindForRole(c) \/ FindForDelete(c) \/ Count(c)
    \/ CommitRole(c) \/ Review(c) \/ CommitDelete(c)
    \/ InsertReservation(c) \/ CommitReservation(c)
    \/ Abort(c)
-----------------------------------------------------------------------------
LEMMA InitIInv == Init => IInv
  <1> SUFFICES ASSUME Init PROVE IInv
    OBVIOUS
  <1>1. TypeOK
    BY AccountsAssumption
       DEF Init, TypeOK, Unborn, Account, Idle, Transaction, PCs, Kinds, Roles, Ids
  <1>2. Len(audit) = 0 /\ \A c \in Clients : tx[c].pc = "idle"
    BY DEF Init, Idle
  <1>3. LockOK /\ InsertOK /\ FoundOK /\ AdminOK /\ ShareOK /\ EraseOK
    BY <1>2 DEF LockOK, InsertOK, FoundOK, AdminOK, ShareOK, EraseOK, HoldsLock, LockedPCs
  <1>4. AuditOK
    BY <1>2 DEF AuditOK, AuditExplains
  <1> QED
    BY <1>1, <1>3, <1>4 DEF IInv


\* The transaction of c becomes t, the others stay.
Becomes(c, t) ==
    /\ tx' \in [Clients -> Transaction]
    /\ tx'[c] = t
    /\ \A d \in Clients : d # c => tx'[d] = tx[d]

LEMMA IdleType == Idle \in Transaction /\ Idle.pc = "idle"
  BY AccountsAssumption DEF Idle, Transaction, PCs, Kinds, Roles, Ids

LEMMA RowTypes == Unborn \in Account /\ Gone \in Account /\ Unborn.state = "unborn" /\ Gone.state = "gone"
  BY DEF Unborn, Gone, Account, Roles

LEMMA Assign ==
    ASSUME tx \in [Clients -> Transaction], NEW c \in Clients, NEW t \in Transaction,
           tx' = [tx EXCEPT ![c] = t]
    PROVE  Becomes(c, t)
  BY DEF Becomes

LEMMA EndStep ==
    ASSUME TypeOK, NEW c \in Clients, End(c)
    PROVE  Becomes(c, Idle)
  BY Assign, IdleType DEF TypeOK, End

LEMMA GotoStep ==
    ASSUME TypeOK, NEW c \in Clients, NEW pc \in PCs, Goto(c, pc)
    PROVE  Becomes(c, [tx[c] EXCEPT !.pc = pc])
  <1>1. [tx[c] EXCEPT !.pc = pc] \in Transaction
    BY DEF TypeOK, Transaction
  <1> QED
    BY <1>1, Assign DEF TypeOK, Goto

\* A transaction that ends or starts without a write keeps the invariant.
LEMMA Restart ==
    ASSUME IInv, NEW c \in Clients, NEW t \in Transaction, Becomes(c, t), UNCHANGED rows,
           t.pc \in {"idle", "register", "lock", "reserve"},
           t.pc = "lock" => t.kind \in {"role", "delete"}
    PROVE  IInv'
  <1>1. TypeOK'
    BY DEF IInv, TypeOK, Becomes, rows
  <1>2. LockOK' /\ InsertOK'
    BY DEF IInv, LockOK, InsertOK, HoldsLock, LockedPCs, Becomes, rows
  <1>3. FoundOK' /\ AdminOK'
    BY DEF IInv, FoundOK, AdminOK, Admins, Demotes, Live, Becomes, rows
  <1>4. ShareOK' /\ EraseOK'
    BY DEF IInv, ShareOK, EraseOK, RowLocked, Live, Becomes, rows
  <1>5. AuditOK'
    BY DEF IInv, AuditOK, AuditExplains, LastOf, Live, rows
  <1> QED
    BY <1>1, <1>2, <1>3, <1>4, <1>5 DEF IInv

LEMMA EndKeeps ==
    ASSUME IInv, NEW c \in Clients, End(c), UNCHANGED rows
    PROVE  IInv'
  BY EndStep, Restart, IdleType DEF IInv

\* A step of a transaction that writes no row.
LEMMA ReadKeeps ==
    ASSUME IInv, NEW c \in Clients, NEW t \in Transaction, Becomes(c, t), UNCHANGED rows,
           LockOK', InsertOK', FoundOK', AdminOK', ShareOK', EraseOK'
    PROVE  IInv'
  <1>1. TypeOK'
    BY DEF IInv, TypeOK, Becomes, rows
  <1>2. AuditOK'
    BY DEF IInv, AuditOK, AuditExplains, LastOf, Live, rows
  <1> QED
    BY <1>1, <1>2 DEF IInv

LEMMA BeginKeeps ==
    ASSUME IInv, NEW c \in Clients,
           \/ \E e \in Emails, r \in {"user", "admin"} : BeginSignup(c, e, r)
           \/ \E e \in Emails, r \in Roles : BeginRole(c, e, r)
           \/ \E u \in Ids : BeginDelete(c, u) \/ BeginReserve(c, u)
    PROVE  IInv'
  <1>0. tx \in [Clients -> Transaction]
    BY DEF IInv, TypeOK
  <1>1. ASSUME NEW e \in Emails, NEW r \in {"user", "admin"}, BeginSignup(c, e, r) PROVE IInv'
    <2> DEFINE t == [Idle EXCEPT !.pc = "register", !.email = e, !.role = r]
    <2>1. t \in Transaction /\ t.pc = "register"
      BY IdleType DEF Transaction, PCs, Roles, Idle
    <2>2. Becomes(c, t) /\ UNCHANGED rows
      BY <1>0, <1>1, <2>1, Assign DEF BeginSignup
    <2> QED
      BY <2>1, <2>2, Restart
  <1>2. ASSUME NEW e \in Emails, NEW r \in Roles, BeginRole(c, e, r) PROVE IInv'
    <2> DEFINE t == [Idle EXCEPT !.pc = "lock", !.kind = "role", !.email = e, !.role = r]
    <2>1. t \in Transaction /\ t.pc = "lock" /\ t.kind = "role"
      BY IdleType DEF Transaction, PCs, Kinds, Idle
    <2>2. Becomes(c, t) /\ UNCHANGED rows
      BY <1>0, <1>2, <2>1, Assign DEF BeginRole
    <2> QED
      BY <2>1, <2>2, Restart
  <1>3. ASSUME NEW u \in Ids, BeginDelete(c, u) PROVE IInv'
    <2> DEFINE t == [Idle EXCEPT !.pc = "lock", !.kind = "delete", !.id = u]
    <2>1. t \in Transaction /\ t.pc = "lock" /\ t.kind = "delete"
      BY IdleType DEF Transaction, PCs, Kinds, Idle
    <2>2. Becomes(c, t) /\ UNCHANGED rows
      BY <1>0, <1>3, <2>1, Assign DEF BeginDelete
    <2> QED
      BY <2>1, <2>2, Restart
  <1>4. ASSUME NEW u \in Ids, BeginReserve(c, u) PROVE IInv'
    <2> DEFINE t == [Idle EXCEPT !.pc = "reserve", !.kind = "checkout", !.id = u]
    <2>1. t \in Transaction /\ t.pc = "reserve"
      BY IdleType DEF Transaction, PCs, Kinds, Idle
    <2>2. Becomes(c, t) /\ UNCHANGED rows
      BY <1>0, <1>4, <2>1, Assign DEF BeginReserve
    <2> QED
      BY <2>1, <2>2, Restart
  <1> QED
    BY <1>1, <1>2, <1>3, <1>4

LEMMA LockKeeps ==
    ASSUME IInv, NEW c \in Clients, Lock(c)
    PROVE  IInv'
  <1>0. TypeOK /\ UNCHANGED rows /\ tx[c] \in Transaction
    BY DEF IInv, TypeOK, Lock
  <1>1. CASE Goto(c, "find")
    <2> DEFINE t == [tx[c] EXCEPT !.pc = "find"]
    <2>1. /\ t \in Transaction /\ t.pc = "find" /\ t.id = tx[c].id /\ t.kind = tx[c].kind
          /\ t.previous = tx[c].previous /\ t.role = tx[c].role /\ Becomes(c, t) /\ UNCHANGED rows
      BY <1>0, <1>1, GotoStep DEF Transaction, PCs
    <2>2. /\ tx[c].pc = "lock" /\ tx[c].kind \in {"role", "delete"}
          /\ \A d \in Clients : ~HoldsLock(d) /\ tx[d].pc # "registered"
      BY <1>0, <1>1 DEF IInv, FoundOK, Lock, LockIsFree, TableLocked, TableWritten, HoldsLock
    <2> HIDE DEF t
    <2>3. LockOK' /\ InsertOK'
      BY <2>1, <2>2 DEF IInv, LockOK, InsertOK, HoldsLock, LockedPCs, Becomes, rows
    <2>4. FoundOK' /\ AdminOK'
      BY <2>1, <2>2 DEF IInv, FoundOK, AdminOK, Admins, Demotes, Live, Becomes, rows
    <2>5. ShareOK' /\ EraseOK'
      BY <2>1, <2>2 DEF IInv, FoundOK, ShareOK, EraseOK, RowLocked, RowShared, Live, Becomes, rows
    <2> QED
      BY <2>1, <2>2, <2>3, <2>4, <2>5, ReadKeeps
  <1> QED
    BY <1>1 DEF Lock

LEMMA AuditTypes ==
    ASSUME TypeOK, NEW i \in 1 .. Len(audit)
    PROVE  audit[i].user \in Ids
  <1> DEFINE Rows == [user : Ids, previous : Roles, new : Roles]
  <1>1. audit \in Seq(Rows)
    BY DEF TypeOK
  <1> HIDE DEF Rows
  <1>2. audit[i] \in Rows
    BY <1>1
  <1> QED
    BY <1>2 DEF Rows

\* The audit needs only the roles of the live accounts it names.
LEMMA AuditFrame ==
    ASSUME IInv, audit' = audit,
           \A v \in Ids : \/ account[v].state \notin {"live", "gone"}
                          \/ account'[v].state = "gone"
                          \/ /\ account'[v].state = account[v].state
                             /\ account'[v].role = account[v].role
    PROVE  AuditOK'
  <1>1. \A i \in 1 .. Len(audit) : audit[i].user \in Ids
    BY AuditTypes DEF IInv
  <1> QED
    BY <1>1 DEF IInv, AuditOK, AuditExplains, LastOf, Live

LEMMA TwoAdmins ==
    ASSUME TypeOK, NEW u \in Ids, ~(Cardinality(Admins) <= 1)
    PROVE  \E v \in Admins : v # u
  <1> SUFFICES ASSUME \A v \in Admins : v = u PROVE Cardinality(Admins) <= 1
    OBVIOUS
  <1>1. Admins \subseteq {u}
    OBVIOUS
  <1>2. IsFiniteSet({u}) /\ Cardinality({u}) = 1
    BY FS_Singleton
  <1>3. Cardinality(Admins) <= Cardinality({u})
    BY <1>1, <1>2, FS_Subset
  <1> QED
    BY <1>2, <1>3

LEMMA CountKeeps ==
    ASSUME IInv, NEW c \in Clients, Count(c)
    PROVE  IInv'
  <1>0. /\ TypeOK /\ UNCHANGED rows /\ tx[c] \in Transaction
        /\ tx[c].pc = "count" /\ tx[c].id \in Ids /\ tx[c].kind \in {"role", "delete"}
    BY DEF IInv, TypeOK, Count, Transaction, FoundOK
  <1>1. CASE IsLastAdmin(c)
    BY <1>0, <1>1, EndKeeps DEF Count
  <1>2. CASE ~IsLastAdmin(c)
    <2> DEFINE next == IF tx[c].kind = "role" THEN "save" ELSE "review"
               t == [tx[c] EXCEPT !.pc = next]
    <2>1. /\ t \in Transaction /\ t.pc = next /\ t.id = tx[c].id /\ t.kind = tx[c].kind
          /\ t.previous = tx[c].previous /\ t.role = tx[c].role /\ Becomes(c, t)
      BY <1>0, <1>2, GotoStep DEF Transaction, PCs, Count
    <2>2. Demotes(c) => \E v \in Admins : v # tx[c].id
      BY <1>0, <1>2, TwoAdmins DEF IsLastAdmin
    <2> HIDE DEF t
    <2>3. LockOK' /\ InsertOK'
      BY <1>0, <2>1 DEF IInv, LockOK, InsertOK, HoldsLock, LockedPCs, Becomes, rows
    <2>4. FoundOK' /\ AdminOK'
      BY <1>0, <2>1, <2>2 DEF IInv, FoundOK, AdminOK, Admins, Demotes, Live, Becomes, rows
    <2>5. ShareOK' /\ EraseOK'
      BY <1>0, <2>1 DEF IInv, FoundOK, ShareOK, EraseOK, RowLocked, Live, Becomes, rows
    <2> QED
      BY <1>0, <2>1, <2>3, <2>4, <2>5, ReadKeeps
  <1> QED
    BY <1>1, <1>2

LEMMA FindForRoleKeeps ==
    ASSUME IInv, NEW c \in Clients, FindForRole(c)
    PROVE  IInv'
  <1>0. /\ TypeOK /\ UNCHANGED rows /\ tx[c] \in Transaction
        /\ tx[c].pc = "find" /\ tx[c].kind = "role"
    BY DEF IInv, TypeOK, FindForRole
  <1>1. CASE End(c)
    BY <1>0, <1>1, EndKeeps
  <1>2. ASSUME NEW u \in Holders(tx[c].email),
               tx' = [tx EXCEPT ![c].pc = "count", ![c].id = u, ![c].previous = account[u].role]
        PROVE  IInv'
    <2> DEFINE t == [tx[c] EXCEPT !.pc = "count", !.id = u, !.previous = account[u].role]
    <2>1. u \in Ids /\ Live(u) /\ account[u].role \in Roles
      BY <1>0 DEF Holders, TypeOK, Account
    <2>2. /\ t \in Transaction /\ t.pc = "count" /\ t.id = u /\ t.kind = "role"
          /\ t.previous = account[u].role
      BY <1>0, <2>1 DEF Transaction, PCs
    <2>3. Becomes(c, t)
      BY <1>0, <1>2, <2>2, Assign DEF TypeOK
    <2> HIDE DEF t
    <2>4. LockOK' /\ InsertOK'
      BY <1>0, <2>2, <2>3 DEF IInv, LockOK, InsertOK, HoldsLock, LockedPCs, Becomes, rows
    <2>5. FoundOK' /\ AdminOK'
      BY <1>0, <2>1, <2>2, <2>3 DEF IInv, FoundOK, AdminOK, Admins, Demotes, Live, Becomes, rows
    <2>6. ShareOK' /\ EraseOK'
      BY <1>0, <2>2, <2>3 DEF IInv, ShareOK, EraseOK, RowLocked, Live, Becomes, rows
    <2> QED
      BY <1>0, <2>2, <2>3, <2>4, <2>5, <2>6, ReadKeeps
  <1> QED
    BY <1>1, <1>2 DEF FindForRole

LEMMA FindForDeleteKeeps ==
    ASSUME IInv, NEW c \in Clients, FindForDelete(c)
    PROVE  IInv'
  <1>0. /\ TypeOK /\ UNCHANGED rows /\ tx[c] \in Transaction
        /\ tx[c].pc = "find" /\ tx[c].kind = "delete" /\ tx[c].id \in Ids
        /\ \A d \in Clients : tx[d].pc = "reserved" => tx[d].id # tx[c].id
    BY DEF IInv, TypeOK, FindForDelete, Transaction, MustWait, RowShared
  <1>1. CASE End(c)
    BY <1>0, <1>1, EndKeeps
  <1>2. CASE /\ Live(tx[c].id)
             /\ tx' = [tx EXCEPT ![c].pc = "count", ![c].previous = account[tx[c].id].role]
    <2> DEFINE t == [tx[c] EXCEPT !.pc = "count", !.previous = account[tx[c].id].role]
    <2>1. account[tx[c].id].role \in Roles
      BY <1>0 DEF TypeOK, Account
    <2>2. /\ t \in Transaction /\ t.pc = "count" /\ t.id = tx[c].id /\ t.kind = "delete"
          /\ t.previous = account[tx[c].id].role
      BY <1>0, <2>1 DEF Transaction, PCs
    <2>3. Becomes(c, t)
      BY <1>0, <1>2, <2>2, Assign DEF TypeOK
    <2> HIDE DEF t
    <2>4. LockOK' /\ InsertOK'
      BY <1>0, <2>2, <2>3 DEF IInv, LockOK, InsertOK, HoldsLock, LockedPCs, Becomes, rows
    <2>5. FoundOK' /\ AdminOK'
      BY <1>0, <1>2, <2>2, <2>3 DEF IInv, FoundOK, AdminOK, Admins, Demotes, Live, Becomes, rows
    <2>6. ShareOK' /\ EraseOK'
      BY <1>0, <2>2, <2>3 DEF IInv, ShareOK, EraseOK, RowLocked, Live, Becomes, rows
    <2> QED
      BY <1>0, <2>2, <2>3, <2>4, <2>5, <2>6, ReadKeeps
  <1> QED
    BY <1>1, <1>2 DEF FindForDelete

LEMMA ReviewKeeps ==
    ASSUME IInv, NEW c \in Clients, Review(c)
    PROVE  IInv'
  <1>0. /\ TypeOK /\ UNCHANGED rows /\ tx[c] \in Transaction /\ tx[c].pc = "review"
    BY DEF IInv, TypeOK, Review
  <1>1. CASE tx[c].id \in reserved
    BY <1>0, <1>1, EndKeeps DEF Review
  <1>2. CASE tx[c].id \notin reserved
    <2> DEFINE t == [tx[c] EXCEPT !.pc = "erase"]
    <2>1. /\ t \in Transaction /\ t.pc = "erase" /\ t.id = tx[c].id /\ t.kind = tx[c].kind
          /\ t.previous = tx[c].previous /\ t.role = tx[c].role /\ Becomes(c, t)
      BY <1>0, <1>2, GotoStep DEF Transaction, PCs, Review
    <2> HIDE DEF t
    <2>2. LockOK' /\ InsertOK'
      BY <1>0, <2>1 DEF IInv, LockOK, InsertOK, HoldsLock, LockedPCs, Becomes, rows
    <2>3. FoundOK' /\ AdminOK'
      BY <1>0, <2>1 DEF IInv, FoundOK, AdminOK, Admins, Demotes, Live, Becomes, rows
    <2>4. ShareOK' /\ EraseOK'
      BY <1>0, <1>2, <2>1 DEF IInv, FoundOK, ShareOK, EraseOK, RowLocked, Live, Becomes, rows
    <2> QED
      BY <1>0, <2>1, <2>2, <2>3, <2>4, ReadKeeps
  <1> QED
    BY <1>1, <1>2

LEMMA InsertReservationKeeps ==
    ASSUME IInv, NEW c \in Clients, InsertReservation(c)
    PROVE  IInv'
  <1>0. /\ TypeOK /\ UNCHANGED rows /\ tx[c] \in Transaction
        /\ tx[c].pc = "reserve" /\ ~RowLocked(tx[c].id)
    BY DEF IInv, TypeOK, InsertReservation
  <1>1. CASE End(c)
    BY <1>0, <1>1, EndKeeps
  <1>2. CASE Live(tx[c].id) /\ Goto(c, "reserved")
    <2> DEFINE t == [tx[c] EXCEPT !.pc = "reserved"]
    <2>1. t \in Transaction /\ t.pc = "reserved" /\ t.id = tx[c].id /\ Becomes(c, t)
      BY <1>0, <1>2, GotoStep DEF Transaction, PCs
    <2> HIDE DEF t
    <2>2. LockOK' /\ InsertOK'
      BY <1>0, <2>1 DEF IInv, LockOK, InsertOK, HoldsLock, LockedPCs, Becomes, rows
    <2>3. FoundOK' /\ AdminOK'
      BY <1>0, <2>1 DEF IInv, FoundOK, AdminOK, Admins, Demotes, Live, Becomes, rows
    <2>4. ShareOK' /\ EraseOK'
      BY <1>0, <1>2, <2>1 DEF IInv, ShareOK, EraseOK, RowLocked, Live, Becomes, rows
    <2> QED
      BY <1>0, <2>1, <2>2, <2>3, <2>4, ReadKeeps
  <1> QED
    BY <1>1, <1>2 DEF InsertReservation
-----------------------------------------------------------------------------
\* The steps that write rows.

LEMMA RegisterKeeps ==
    ASSUME IInv, NEW c \in Clients, Register(c)
    PROVE  IInv'
  <1>0. /\ TypeOK /\ tx[c] \in Transaction /\ tx[c].pc = "register"
        /\ \A d \in Clients : ~HoldsLock(d)
    BY DEF IInv, TypeOK, Register, TableLocked, HoldsLock
  <1>1. CASE End(c) /\ UNCHANGED rows
    BY <1>1, EndKeeps
  <1>2. ASSUME NEW u \in Ids, account[u] = Unborn,
               account' = [account EXCEPT ![u] =
                   [state |-> "pending", email |-> tx[c].email, role |-> tx[c].role]],
               tx' = [tx EXCEPT ![c].pc = "registered", ![c].id = u],
               UNCHANGED <<audit, reserved, notices>>
        PROVE  IInv'
    <2> DEFINE t == [tx[c] EXCEPT !.pc = "registered", !.id = u]
               a == [state |-> "pending", email |-> tx[c].email, role |-> tx[c].role]
    <2>1. t \in Transaction /\ t.pc = "registered" /\ t.id = u
      BY <1>0 DEF Transaction, PCs
    <2>2. Becomes(c, t)
      BY <1>0, <1>2, <2>1, Assign DEF TypeOK
    <2>3. a \in Account /\ a.state = "pending"
      BY <1>0 DEF Transaction, Account
    <2>4. /\ account' \in [Ids -> Account] /\ account'[u] = a
          /\ \A v \in Ids : v # u => account'[v] = account[v]
      BY <1>0, <1>2, <2>3 DEF TypeOK
    <2>5. account[u].state = "unborn"
      BY <1>2, RowTypes
    <2> HIDE DEF t, a
    <2>6. \A d \in Clients : tx[d].id \in Ids
      BY <1>0 DEF TypeOK, Transaction
    <2>7. TypeOK'
      BY <1>0, <1>2, <2>2, <2>4 DEF TypeOK, Becomes
    <2>8. LockOK' /\ InsertOK'
      BY <1>0, <2>1, <2>2, <2>3, <2>4, <2>5, <2>6
         DEF IInv, LockOK, InsertOK, HoldsLock, LockedPCs, Becomes
    <2>9. FoundOK' /\ AdminOK'
      BY <1>0, <2>1, <2>2, <2>4, <2>5, <2>6
         DEF IInv, FoundOK, AdminOK, HoldsLock, LockedPCs, Live, Becomes
    <2>10. ShareOK' /\ EraseOK'
      BY <1>0, <1>2, <2>1, <2>2, <2>4, <2>5, <2>6
         DEF IInv, ShareOK, EraseOK, RowLocked, HoldsLock, LockedPCs, Live, Becomes
    <2>11. AuditOK'
      BY <1>2, <2>4, <2>5, AuditFrame
    <2> QED
      BY <2>7, <2>8, <2>9, <2>10, <2>11 DEF IInv
  <1> QED
    BY <1>1, <1>2 DEF Register, rows

LEMMA CommitSignupKeeps ==
    ASSUME IInv, NEW c \in Clients, CommitSignup(c)
    PROVE  IInv'
  <1> DEFINE u == tx[c].id
  <1>1. /\ TypeOK /\ u \in Ids /\ tx[c].pc = "registered" /\ account[u].state = "pending"
        /\ \A d \in Clients : tx[d].id \in Ids
        /\ \A d \in Clients : ~HoldsLock(d)
    BY DEF IInv, TypeOK, Transaction, CommitSignup, InsertOK, LockOK
  <1>2. Becomes(c, Idle) /\ UNCHANGED <<audit, reserved, notices>>
    BY <1>1, EndStep DEF CommitSignup
  <1>3. /\ account' \in [Ids -> Account] /\ account'[u].state = "live"
        /\ \A v \in Ids : v # u => account'[v] = account[v]
    BY <1>1 DEF CommitSignup, TypeOK, Account
  <1> HIDE DEF u
  <1>4. TypeOK'
    BY <1>1, <1>2, <1>3 DEF TypeOK, Becomes
  <1>5. LockOK' /\ InsertOK'
    BY <1>1, <1>2, <1>3, IdleType DEF IInv, LockOK, InsertOK, HoldsLock, LockedPCs, Becomes, u
  <1>6. FoundOK' /\ AdminOK'
    BY <1>1, <1>2, <1>3, IdleType DEF IInv, FoundOK, AdminOK, HoldsLock, LockedPCs, Becomes
  <1>7. ShareOK' /\ EraseOK'
    BY <1>1, <1>2, <1>3, IdleType
       DEF IInv, ShareOK, EraseOK, RowLocked, HoldsLock, LockedPCs, Live, Becomes
  <1>8. AuditOK'
    BY <1>1, <1>2, <1>3, AuditFrame
  <1> QED
    BY <1>4, <1>5, <1>6, <1>7, <1>8 DEF IInv

\* The account of a transaction about to commit its change.
LEMMA Holder ==
    ASSUME IInv, NEW c \in Clients, tx[c].pc \in {"save", "erase"}
    PROVE  /\ TypeOK /\ tx[c] \in Transaction /\ tx[c].id \in Ids
           /\ Live(tx[c].id) /\ tx[c].previous = account[tx[c].id].role
           /\ \A d \in Clients : d # c => ~HoldsLock(d)
           /\ \A d \in Clients : tx[d].pc # "registered" /\ tx[d].id \in Ids
  BY DEF IInv, TypeOK, Transaction, LockOK, FoundOK, HoldsLock, LockedPCs

LEMMA AuditedExplains ==
    ASSUME IInv, NEW c \in Clients, CommitRole(c)
    PROVE  AuditOK'
  <1> DEFINE u == tx[c].id
             n == Len(audit)
             row == [user |-> u, previous |-> tx[c].previous, new |-> tx[c].role]
  <1>1. /\ u \in Ids /\ Live(u) /\ tx[c].previous = account[u].role
        /\ audit \in Seq([user : Ids, previous : Roles, new : Roles])
        /\ account \in [Ids -> Account]
        /\ tx[c].role \in Roles
    BY Holder DEF CommitRole, TypeOK, Transaction
  <1>2. account' = [account EXCEPT ![u].role = tx[c].role]
    BY DEF CommitRole
  <1>3. /\ account'[u].role = tx[c].role
        /\ \A v \in Ids : v # u => account'[v] = account[v]
        /\ \A v \in Ids : account'[v].state = account[v].state
    BY <1>1, <1>2 DEF Account
  <1>4. CASE tx[c].previous = tx[c].role
    <2>1. audit' = audit
      BY <1>4 DEF CommitRole, Audited
    <2>2. \A v \in Ids : account'[v].role = account[v].role
      BY <1>1, <1>3, <1>4
    <2> QED
      BY <1>3, <2>1, <2>2, AuditFrame
  <1>5. CASE tx[c].previous # tx[c].role
    <2>1. audit' = Append(audit, row)
      BY <1>5 DEF CommitRole, Audited
    <2>2. row.user = u /\ row.previous = account[u].role /\ row.new = tx[c].role
      BY <1>1
    <2>0. \A i \in 1..n : audit[i].user \in Ids
      BY AuditTypes DEF IInv
    <2>3. /\ n \in Nat /\ Len(audit') = n + 1 /\ audit'[n + 1] = row
          /\ \A i \in 1..n : audit'[i] = audit[i]
      BY <1>1, <2>1
    <2> HIDE DEF n, u, row
    <2>4. \A i \in 1 .. Len(audit') : account'[audit'[i].user].state \in {"live", "gone"}
      BY <1>1, <1>3, <2>0, <2>2, <2>3 DEF IInv, AuditOK, Live, n
    <2>5. ASSUME NEW i \in 1 .. Len(audit'), LastOf(i)', Live(audit[i].user)'
          PROVE  audit'[i].new = account'[audit'[i].user].role
      <3>1. CASE i = n + 1
        BY <1>3, <2>2, <2>3, <3>1
      <3>2. CASE i \in 1..n
        <4>1. n + 1 \in i + 1 .. n + 1
          BY <2>3, <3>2
        <4>2. audit[i].user # u /\ audit[i].user \in Ids
          BY <2>0, <2>2, <2>3, <2>5, <3>2, <4>1 DEF LastOf
        <4>3. \A j \in i + 1 .. n : audit[j].user # audit[i].user
          BY <2>3, <2>5, <3>2 DEF LastOf
        <4>4. Live(audit[i].user) /\ account'[audit[i].user] = account[audit[i].user]
          BY <1>3, <2>3, <2>5, <3>2, <4>2 DEF Live
        <4>5. audit[i].new = account[audit[i].user].role
          BY <3>2, <4>3, <4>4 DEF IInv, AuditOK, AuditExplains, LastOf, n
        <4> QED
          BY <2>3, <3>2, <4>4, <4>5
      <3> QED
        BY <2>3, <3>1, <3>2
    <2>6. ASSUME NEW i \in 1 .. Len(audit'), NEW j \in i + 1 .. Len(audit'),
                 audit'[j].user = audit'[i].user,
                 \A k \in i + 1 .. j - 1 : audit'[k].user # audit'[i].user
          PROVE  audit'[j].previous = audit'[i].new
      <3>1. i \in 1..n
        BY <2>3, <2>6
      <3>2. CASE j = n + 1
        <4>1. audit[i].user = u
          BY <2>2, <2>3, <2>6, <3>1, <3>2
        <4>2. \A k \in i + 1 .. n : audit[k].user # audit[i].user
          BY <2>3, <2>6, <3>1, <3>2
        <4>3. audit[i].new = account[u].role
          BY <1>1, <3>1, <4>1, <4>2 DEF IInv, AuditOK, AuditExplains, LastOf, n
        <4> QED
          BY <2>2, <2>3, <3>1, <3>2, <4>3
      <3>3. CASE j \in 1..n
        <4>1. j \in i + 1 .. n /\ \A k \in i + 1 .. j - 1 : k \in 1..n
          BY <2>3, <2>6, <3>1, <3>3
        <4> QED
          BY <2>3, <2>6, <3>1, <3>3, <4>1, ZenonT(60) DEF IInv, AuditOK, AuditExplains, n
      <3> QED
        BY <2>3, <2>6, <3>1, <3>2, <3>3
    <2>7. AuditExplains'
      BY <2>5, <2>6 DEF AuditExplains
    <2> QED
      BY <2>4, <2>7 DEF AuditOK
  <1> QED
    BY <1>4, <1>5

LEMMA CommitRoleKeeps ==
    ASSUME IInv, NEW c \in Clients, CommitRole(c)
    PROVE  IInv'
  <1> DEFINE u == tx[c].id
  <1>1. /\ TypeOK /\ u \in Ids /\ tx[c].pc = "save" /\ tx[c] \in Transaction
        /\ \A d \in Clients : d # c => ~HoldsLock(d)
        /\ \A d \in Clients : tx[d].pc # "registered" /\ tx[d].id \in Ids
    BY Holder DEF CommitRole
  <1>2. Becomes(c, Idle) /\ UNCHANGED <<reserved, notices>>
    BY <1>1, EndStep DEF CommitRole
  <1>3. /\ account' \in [Ids -> Account]
        /\ \A v \in Ids : account'[v].state = account[v].state
    <2>1. tx[c].role \in Roles
      BY <1>1 DEF Transaction
    <2>2. [account[u] EXCEPT !.role = tx[c].role] \in Account
      BY <1>1, <2>1 DEF TypeOK, Account
    <2>3. account' = [account EXCEPT ![u] = [account[u] EXCEPT !.role = tx[c].role]]
      BY <1>1 DEF CommitRole, TypeOK
    <2> QED
      BY <1>1, <2>2, <2>3 DEF TypeOK, Account
  <1>4. audit' \in Seq([user : Ids, previous : Roles, new : Roles])
    <2> DEFINE row == [user |-> u, previous |-> tx[c].previous, new |-> tx[c].role]
               Rows == [user : Ids, previous : Roles, new : Roles]
    <2>1. row \in Rows /\ audit \in Seq(Rows)
      BY <1>1 DEF Transaction, TypeOK
    <2>2. audit' = audit \/ audit' = Append(audit, row)
      BY DEF CommitRole, Audited
    <2> HIDE DEF row, Rows
    <2>3. audit' \in Seq(Rows)
      BY <2>1, <2>2
    <2> QED
      BY <2>3 DEF Rows
  <1> HIDE DEF u
  <1>5. TypeOK'
    BY <1>1, <1>2, <1>3, <1>4 DEF TypeOK, Becomes
  <1>6. LockOK' /\ InsertOK'
    BY <1>1, <1>2, IdleType DEF IInv, LockOK, InsertOK, HoldsLock, LockedPCs, Becomes
  <1>7. FoundOK' /\ AdminOK'
    BY <1>1, <1>2, IdleType DEF IInv, FoundOK, AdminOK, HoldsLock, LockedPCs, Becomes
  <1>8. ShareOK' /\ EraseOK'
    BY <1>1, <1>2, <1>3, IdleType
       DEF IInv, ShareOK, EraseOK, RowLocked, HoldsLock, LockedPCs, Live, Becomes
  <1> QED
    BY <1>5, <1>6, <1>7, <1>8, AuditedExplains DEF IInv

LEMMA CommitDeleteKeeps ==
    ASSUME IInv, NEW c \in Clients, CommitDelete(c)
    PROVE  IInv'
  <1> DEFINE u == tx[c].id
  <1>1. /\ TypeOK /\ u \in Ids /\ tx[c].pc = "erase"
        /\ \A d \in Clients : d # c => ~HoldsLock(d)
        /\ \A d \in Clients : tx[d].pc # "registered" /\ tx[d].id \in Ids
    BY Holder DEF CommitDelete
  <1>2. Becomes(c, Idle) /\ audit' = audit /\ reserved' = reserved \ {u}
    BY <1>1, EndStep DEF CommitDelete
  <1>3. /\ account' \in [Ids -> Account] /\ account'[u].state = "gone"
        /\ \A v \in Ids : v # u => account'[v] = account[v]
    BY <1>1, RowTypes DEF CommitDelete, TypeOK
  <1>4. \A d \in Clients : tx[d].pc = "reserved" => tx[d].id # u
    BY <1>1 DEF IInv, ShareOK, RowLocked, FoundOK
  <1>5. TypeOK'
    BY <1>1, <1>2, <1>3 DEF TypeOK, Becomes, CommitDelete
  <1> HIDE DEF u
  <1>6. LockOK' /\ InsertOK'
    BY <1>1, <1>2, IdleType DEF IInv, LockOK, InsertOK, HoldsLock, LockedPCs, Becomes
  <1>7. FoundOK' /\ AdminOK'
    BY <1>1, <1>2, IdleType DEF IInv, FoundOK, AdminOK, HoldsLock, LockedPCs, Becomes
  <1>8. ShareOK' /\ EraseOK'
    BY <1>1, <1>2, <1>3, <1>4, IdleType
       DEF IInv, ShareOK, EraseOK, RowLocked, HoldsLock, LockedPCs, Live, Becomes
  <1>9. AuditOK'
    BY <1>2, <1>3, AuditFrame
  <1> QED
    BY <1>5, <1>6, <1>7, <1>8, <1>9 DEF IInv

LEMMA CommitReservationKeeps ==
    ASSUME IInv, NEW c \in Clients, CommitReservation(c)
    PROVE  IInv'
  <1>1. /\ TypeOK /\ tx[c].id \in Ids /\ tx[c].pc = "reserved" /\ ~RowLocked(tx[c].id)
    BY DEF IInv, TypeOK, Transaction, CommitReservation, ShareOK
  <1>2. Becomes(c, Idle) /\ UNCHANGED <<account, audit, notices>>
        /\ reserved' = reserved \cup {tx[c].id}
    BY <1>1, EndStep DEF CommitReservation
  <1>3. TypeOK'
    BY <1>1, <1>2 DEF TypeOK, Becomes
  <1>4. LockOK' /\ InsertOK'
    BY <1>2, IdleType DEF IInv, LockOK, InsertOK, HoldsLock, LockedPCs, Becomes
  <1>5. FoundOK' /\ AdminOK'
    BY <1>2, IdleType DEF IInv, FoundOK, AdminOK, Admins, Demotes, Live, Becomes
  <1>6. ShareOK' /\ EraseOK'
    BY <1>1, <1>2, IdleType DEF IInv, ShareOK, EraseOK, FoundOK, RowLocked, Live, Becomes
  <1>7. AuditOK'
    BY <1>2 DEF IInv, AuditOK, AuditExplains, LastOf, Live
  <1> QED
    BY <1>3, <1>4, <1>5, <1>6, <1>7 DEF IInv

LEMMA AbortKeeps ==
    ASSUME IInv, NEW c \in Clients, Abort(c)
    PROVE  IInv'
  <1> DEFINE u == tx[c].id
  <1>0. TypeOK /\ Becomes(c, Idle) /\ UNCHANGED <<audit, reserved, notices>>
    BY EndStep DEF IInv, Abort
  <1>1. CASE tx[c].pc # "registered"
    <2>1. UNCHANGED rows
      BY <1>0, <1>1 DEF Abort, rows
    <2> QED
      BY <1>0, <2>1, Restart, IdleType
  <1>2. CASE tx[c].pc = "registered"
    <2>1. /\ u \in Ids /\ account[u].state = "pending"
          /\ \A d \in Clients : tx[d].id \in Ids
          /\ \A d \in Clients : ~HoldsLock(d)
      BY <1>2 DEF IInv, TypeOK, Transaction, InsertOK, LockOK
    <2>2. /\ account' \in [Ids -> Account] /\ account'[u].state = "gone"
          /\ \A v \in Ids : v # u => account'[v] = account[v]
      BY <1>0, <1>2, <2>1, RowTypes DEF Abort, TypeOK
    <2> HIDE DEF u
    <2>3. TypeOK'
      BY <1>0, <2>2 DEF TypeOK, Becomes
    <2>4. LockOK' /\ InsertOK'
      BY <1>0, <1>2, <2>1, <2>2, IdleType
         DEF IInv, LockOK, InsertOK, HoldsLock, LockedPCs, Becomes, u
    <2>5. FoundOK' /\ AdminOK'
      BY <1>0, <2>1, IdleType DEF IInv, FoundOK, AdminOK, HoldsLock, LockedPCs, Becomes
    <2>6. ShareOK' /\ EraseOK'
      BY <1>0, <2>1, <2>2, IdleType
         DEF IInv, ShareOK, EraseOK, RowLocked, HoldsLock, LockedPCs, Live, Becomes
    <2>7. AuditOK'
      BY <1>0, <2>2, AuditFrame
    <2> QED
      BY <2>3, <2>4, <2>5, <2>6, <2>7 DEF IInv
  <1> QED
    BY <1>1, <1>2

LEMMA StepIInv ==
    ASSUME IInv, NEW c \in Clients, Step(c)
    PROVE  IInv'
  BY BeginKeeps, RegisterKeeps, CommitSignupKeeps, LockKeeps, FindForRoleKeeps,
     FindForDeleteKeeps, CountKeeps, CommitRoleKeeps, ReviewKeeps, CommitDeleteKeeps,
     InsertReservationKeeps, CommitReservationKeeps, AbortKeeps DEF Step

LEMMA StutterIInv == IInv /\ UNCHANGED vars => IInv'
  BY DEF vars, IInv, TypeOK, LockOK, InsertOK, FoundOK, AdminOK, ShareOK, EraseOK, AuditOK,
         HoldsLock, Demotes, Admins, Live, RowLocked, AuditExplains, LastOf

\* The inductive invariant holds in every reachable state.
THEOREM Invariance == Spec => []IInv
  <1>1. IInv /\ [Next]_vars => IInv'
    BY StepIInv, StutterIInv DEF Next, Step
  <1> QED
    BY InitIInv, <1>1, PTL DEF Spec
-----------------------------------------------------------------------------
\* Every variable keeps its type.
THEOREM TypeCorrect == Spec => []TypeOK
  <1>1. IInv => TypeOK
    BY DEF IInv
  <1> QED
    BY Invariance, <1>1, PTL

\* The audit explains every role: a role is read and written under the table lock.
THEOREM RolesExplained == Spec => []AuditExplains
  <1>1. IInv => AuditExplains
    BY DEF IInv, AuditOK
  <1> QED
    BY Invariance, <1>1, PTL

LEMMA AdminStep ==
    ASSUME IInv, NEW c \in Clients, Step(c), Admins # {}
    PROVE  Admins' # {}
  <1>1. CASE CommitRole(c)
    <2>1. /\ TypeOK /\ tx[c].id \in Ids /\ Live(tx[c].id) /\ tx[c].pc = "save"
          /\ tx[c].kind = "role" /\ tx[c].previous = account[tx[c].id].role
      BY <1>1, Holder DEF CommitRole, IInv, FoundOK
    <2>2. account' = [account EXCEPT ![tx[c].id].role = tx[c].role]
      BY <1>1 DEF CommitRole
    <2>3. CASE Demotes(c)
      <3>1. PICK v \in Admins : v # tx[c].id
        BY <2>1, <2>3 DEF IInv, AdminOK
      <3>2. v \in Admins'
        BY <2>1, <2>2, <3>1 DEF Admins, Live, TypeOK
      <3> QED
        BY <3>2
    <2>4. CASE ~Demotes(c)
      <3>1. PICK v \in Admins : TRUE
        OBVIOUS
      <3>2. v = tx[c].id => tx[c].role = "admin"
        BY <2>1, <2>4, <3>1 DEF Admins, Demotes
      <3>3. v \in Admins'
        BY <2>1, <2>2, <3>1, <3>2 DEF Admins, Live, TypeOK, Account
      <3> QED
        BY <3>3
    <2> QED
      BY <2>3, <2>4
  <1>2. CASE CommitDelete(c)
    <2>1. /\ TypeOK /\ tx[c].id \in Ids /\ Live(tx[c].id) /\ tx[c].pc = "erase"
          /\ tx[c].kind = "delete" /\ tx[c].previous = account[tx[c].id].role
      BY <1>2, Holder DEF CommitDelete, IInv, FoundOK
    <2>2. PICK v \in Admins : v # tx[c].id
      BY <2>1 DEF IInv, AdminOK, Demotes, Admins
    <2>3. v \in Admins'
      BY <1>2, <2>1, <2>2 DEF CommitDelete, Admins, Live, TypeOK
    <2> QED
      BY <2>3
  <1>3. CASE Register(c) \/ CommitSignup(c) \/ Abort(c)
    <2>1. PICK v \in Admins : TRUE
      OBVIOUS
    <2>2. \/ account' = account
          \/ \E u \in Ids, a \in Account : ~Live(u) /\ account' = [account EXCEPT ![u] = a]
      <3>1. CASE Register(c)
        BY <3>1, RowTypes DEF Register, rows, Live, IInv, TypeOK, Transaction, Account
      <3>2. CASE CommitSignup(c)
        <4>1. tx[c].id \in Ids /\ account[tx[c].id].state = "pending"
          BY <3>2 DEF CommitSignup, IInv, InsertOK, TypeOK, Transaction
        <4>2. [account[tx[c].id] EXCEPT !.state = "live"] \in Account
          BY <4>1 DEF IInv, TypeOK, Account
        <4>3. account' = [account EXCEPT ![tx[c].id] = [account[tx[c].id] EXCEPT !.state = "live"]]
          BY <3>2, <4>1 DEF CommitSignup, IInv, TypeOK
        <4> QED
          BY <4>1, <4>2, <4>3 DEF Live
      <3>3. CASE Abort(c)
        BY <3>3, RowTypes DEF Abort, Live, IInv, InsertOK, TypeOK, Transaction
      <3> QED
        BY <1>3, <3>1, <3>2, <3>3
    <2>3. v \in Admins'
      BY <2>1, <2>2 DEF Admins, Live, IInv, TypeOK
    <2> QED
      BY <2>3
  <1>4. CASE UNCHANGED rows
    BY <1>4 DEF Admins, Live, rows
  <1>5. CASE CommitReservation(c)
    BY <1>5 DEF CommitReservation, Admins, Live
  <1> QED
    BY <1>1, <1>2, <1>3, <1>4, <1>5
       DEF Step, BeginSignup, BeginRole, BeginDelete, BeginReserve, Lock, FindForRole,
           FindForDelete, Count, Review, InsertReservation

\* Once there is an administrator there always is one: the count and the commit
\* of a demotion or a deletion are under one table lock.
THEOREM AdminAlwaysStays == Spec => AdminStays
  <1>1. IInv /\ [Next]_vars => [Admins # {} => Admins' # {}]_vars
    BY AdminStep, SMTT(30) DEF Next, Step
  <1> QED
    BY Invariance, <1>1, PTL DEF Spec, AdminStays

LEMMA ReservationStep ==
    ASSUME IInv, NEW c \in Clients, Step(c)
    PROVE  reserved \subseteq reserved'
  <1>1. CASE CommitDelete(c)
    BY <1>1 DEF CommitDelete, IInv, EraseOK
  <1> QED
    BY <1>1 DEF Step, BeginSignup, Register, CommitSignup, BeginRole, BeginDelete, BeginReserve,
       Lock, FindForRole, FindForDelete, Count, CommitRole, Review, InsertReservation,
       CommitReservation, Abort, rows

\* A deletion takes no reservation with it: it holds the account's row from
\* before its check, and a reservation being inserted makes it wait.
THEOREM ReservationsSurvive == Spec => ReservationSurvives
  <1>1. IInv /\ [Next]_vars => [reserved \subseteq reserved']_vars
    BY ReservationStep DEF Next, Step
  <1> QED
    BY Invariance, <1>1, PTL DEF Spec, ReservationSurvives
=============================================================================
