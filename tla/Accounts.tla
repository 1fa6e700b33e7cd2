------------------------------ MODULE Accounts ------------------------------
(***************************************************************************)
(* The user table under concurrent transactions (models/user.py): sign-up  *)
(* and the development bootstrap insert accounts, the operator command     *)
(* changes roles and writes an audit row, account deletion removes the     *)
(* row, and the billing service reserves a checkout that refers to it      *)
(* (models/billing.py).                                                    *)
(*                                                                         *)
(* Each statement of a transaction is a step under PostgreSQL's READ       *)
(* COMMITTED isolation: a statement sees what is committed when it starts. *)
(* What the locks do is modelled by who has to wait:                       *)
(*   - LOCK TABLE users IN SHARE ROW EXCLUSIVE MODE waits for every        *)
(*     transaction that holds it or has written the table, and they for it;*)
(*   - SELECT ... FOR UPDATE waits for a transaction that inserted a row   *)
(*     referring to the account, and such an insert for it.                *)
(* A transaction may be rolled back at any step (Abort).  With SQLite      *)
(* BEGIN IMMEDIATE locks the whole database: a subset of the behaviours.   *)
(***************************************************************************)
EXTENDS Integers, Sequences, FiniteSets

CONSTANTS Clients,      \* the requests and commands that run transactions
          Emails,       \* the addresses people sign up with
          NoEmail,      \* the address of a row that does not exist
          MaxAccounts,  \* bound: ids the sequence hands out
          MaxAudits     \* bound: audit rows

ASSUME AccountsAssumption == MaxAccounts \in Nat \ {0} /\ MaxAudits \in Nat

Ids == 1..MaxAccounts
Roles == {"user", "manager", "admin"}

(* Ids are never reused: SQLite's AUTOINCREMENT and PostgreSQL's sequences *)
(* also skip the id of an insert that was rolled back.                     *)
Account == [state : {"unborn", "pending", "live", "gone"},
            email : Emails \cup {NoEmail}, role : Roles]
Unborn == [state |-> "unborn", email |-> NoEmail, role |-> "user"]
Gone == [Unborn EXCEPT !.state = "gone"]

(* A transaction names an address (sign-up, role change) or an id          *)
(* (deletion, reservation), and a role where it sets one; previous is the  *)
(* role it read with the row.                                              *)
PCs == {"idle", "register", "registered", "lock", "find", "count", "save",
        "review", "erase", "reserve", "reserved"}
Kinds == {"signup", "role", "delete", "checkout"}
Transaction == [pc : PCs, kind : Kinds, id : Ids,
                email : Emails \cup {NoEmail}, role : Roles, previous : Roles]
Idle == [pc |-> "idle", kind |-> "signup", id |-> 1,
         email |-> NoEmail, role |-> "user", previous |-> "user"]

VARIABLES account,    \* the rows of users, by id
          audit,      \* role_change_audit, in the order of commit
          reserved,   \* the accounts with a row in billing_checkouts
          notices,    \* the accounts whose deletion notice is in the outbox
          tx          \* the transaction of each client
vars == <<account, audit, reserved, notices, tx>>
rows == <<account, audit, reserved, notices>>

Live(u) == account[u].state = "live"
Admins == {u \in Ids : Live(u) /\ account[u].role = "admin"}
Holders(e) == {u \in Ids : Live(u) /\ account[u].email = e}

Init ==
    /\ account = [u \in Ids |-> Unborn]
    /\ audit = << >>
    /\ reserved = {}
    /\ notices = {}
    /\ tx = [c \in Clients |-> Idle]

Goto(c, pc) == tx' = [tx EXCEPT ![c].pc = pc]
End(c) == tx' = [tx EXCEPT ![c] = Idle]

(***************************************************************************)
(* The locks, as the transactions that hold them.                          *)
(***************************************************************************)
LockedPCs == {"find", "count", "save", "review", "erase"}
TableLocked == \E c \in Clients : tx[c].pc \in LockedPCs
TableWritten == \E c \in Clients : tx[c].pc = "registered"
(* FOR UPDATE on the row, held from the read of a deletion to its end.     *)
RowLocked(u) == \E c \in Clients :
    tx[c].kind = "delete" /\ tx[c].id = u /\ tx[c].pc \in {"count", "review", "erase"}
(* FOR KEY SHARE, which the foreign key of an inserted reservation takes.  *)
RowShared(u) == \E c \in Clients : tx[c].pc = "reserved" /\ tx[c].id = u

(***************************************************************************)
(* Inserts: create_signup_user (role user) and create_oauth_user, which    *)
(* the bootstrap calls with role admin.  Both look for the address first;  *)
(* the unique index decides.                                               *)
(***************************************************************************)
BeginSignup(c, e, r) ==
    /\ tx[c].pc = "idle"
    /\ Holders(e) = {}
    /\ tx' = [tx EXCEPT ![c] = [Idle EXCEPT !.pc = "register", !.email = e, !.role = r]]
    /\ UNCHANGED rows

(* The flush: it waits for the table lock and for an uncommitted row with  *)
(* the same address; a committed one is an IntegrityError, which ends the  *)
(* transaction.                                                            *)
Register(c) ==
    /\ tx[c].pc = "register"
    /\ ~TableLocked
    /\ \A d \in Clients : tx[d].pc = "registered" => tx[d].email # tx[c].email
    /\ \/ /\ Holders(tx[c].email) # {}
          /\ End(c)
          /\ UNCHANGED rows
       \/ /\ Holders(tx[c].email) = {}
          /\ \E u \in Ids :
                /\ account[u] = Unborn
                /\ \A v \in Ids : v < u => account[v] # Unborn
                /\ account' = [account EXCEPT ![u] =
                       [state |-> "pending", email |-> tx[c].email, role |-> tx[c].role]]
                /\ tx' = [tx EXCEPT ![c].pc = "registered", ![c].id = u]
          /\ UNCHANGED <<audit, reserved, notices>>

CommitSignup(c) ==
    /\ tx[c].pc = "registered"
    /\ account' = [account EXCEPT ![tx[c].id].state = "live"]
    /\ End(c)
    /\ UNCHANGED <<audit, reserved, notices>>

(***************************************************************************)
(* Role changes and deletions take the table lock first.                   *)
(***************************************************************************)
BeginRole(c, e, r) ==
    /\ tx[c].pc = "idle"
    /\ Len(audit) < MaxAudits
    /\ tx' = [tx EXCEPT ![c] =
           [Idle EXCEPT !.pc = "lock", !.kind = "role", !.email = e, !.role = r]]
    /\ UNCHANGED rows

BeginDelete(c, u) ==
    /\ tx[c].pc = "idle"
    /\ Live(u)
    /\ tx' = [tx EXCEPT ![c] = [Idle EXCEPT !.pc = "lock", !.kind = "delete", !.id = u]]
    /\ UNCHANGED rows

\* Defect: no lock against other changes.
LockIsFreeOfWriters == ~TableWritten
LockIsFree == ~TableLocked /\ ~TableWritten

Lock(c) ==
    /\ tx[c].pc = "lock"
    /\ LockIsFree
    /\ Goto(c, "find")
    /\ UNCHANGED rows

(* set_operator_role looks the account up by its address ...               *)
FindForRole(c) ==
    /\ tx[c].pc = "find" /\ tx[c].kind = "role"
    /\ \/ /\ Holders(tx[c].email) = {}
          /\ End(c)
       \/ \E u \in Holders(tx[c].email) :
             tx' = [tx EXCEPT ![c].pc = "count", ![c].id = u,
                              ![c].previous = account[u].role]
    /\ UNCHANGED rows

(* ... delete_account by its id, FOR UPDATE.                               *)
\* Defect: the row is read without FOR UPDATE.
NeverWaits(u) == FALSE
MustWait(u) == RowShared(u)

FindForDelete(c) ==
    /\ tx[c].pc = "find" /\ tx[c].kind = "delete"
    /\ ~MustWait(tx[c].id)
    /\ \/ /\ Live(tx[c].id)
          /\ tx' = [tx EXCEPT ![c].pc = "count", ![c].previous = account[tx[c].id].role]
       \/ ~Live(tx[c].id) /\ End(c)
    /\ UNCHANGED rows

(* The transaction takes the admin rights of its account away.             *)
Demotes(c) ==
    /\ tx[c].previous = "admin"
    /\ tx[c].kind = "role" => tx[c].role # "admin"

IsLastAdmin(c) == Demotes(c) /\ Cardinality(Admins) <= 1

Count(c) ==
    /\ tx[c].pc = "count"
    /\ IF IsLastAdmin(c) THEN End(c)
       ELSE Goto(c, IF tx[c].kind = "role" THEN "save" ELSE "review")
    /\ UNCHANGED rows

(* The audit row is written only when the role changes, and commits with   *)
(* the change.                                                             *)
\* Defect: the audit names the address.
AuditedByEmail(u, old, new) ==
    IF old = new THEN audit
    ELSE Append(audit, [user |-> account[u].email, previous |-> old, new |-> new])
Audited(u, old, new) ==
    IF old = new THEN audit
    ELSE Append(audit, [user |-> u, previous |-> old, new |-> new])

CommitRole(c) ==
    /\ tx[c].pc = "save"
    /\ audit' = Audited(tx[c].id, tx[c].previous, tx[c].role)
    /\ account' = [account EXCEPT ![tx[c].id].role = tx[c].role]
    /\ End(c)
    /\ UNCHANGED <<reserved, notices>>

(* A reservation may stand for a payment in progress: the account stays.   *)
Review(c) ==
    /\ tx[c].pc = "review"
    /\ IF tx[c].id \in reserved THEN End(c) ELSE Goto(c, "erase")
    /\ UNCHANGED rows

(* The foreign key cascades to billing_checkouts; the deletion notice is   *)
(* added to the outbox in the same transaction.                            *)
CommitDelete(c) ==
    /\ tx[c].pc = "erase"
    /\ account' = [account EXCEPT ![tx[c].id] = Gone]
    /\ reserved' = reserved \ {tx[c].id}
    /\ notices' = notices \cup {tx[c].id}
    /\ End(c)
    /\ UNCHANGED audit

(***************************************************************************)
(* BillingCheckouts.reserve: a row that exists is kept (its values are     *)
(* renewed once it expired); otherwise it is inserted.  The insert waits   *)
(* for another one of the same key and for a deletion that holds the row;  *)
(* if either of them wins it is an IntegrityError, which ends the          *)
(* transaction with the winner's row or with an error.                     *)
(***************************************************************************)
BeginReserve(c, u) ==
    /\ tx[c].pc = "idle"
    /\ Live(u) /\ u \notin reserved
    /\ tx' = [tx EXCEPT ![c] = [Idle EXCEPT !.pc = "reserve", !.kind = "checkout", !.id = u]]
    /\ UNCHANGED rows

InsertReservation(c) ==
    /\ tx[c].pc = "reserve"
    /\ ~RowLocked(tx[c].id) /\ ~RowShared(tx[c].id)
    /\ IF Live(tx[c].id) /\ tx[c].id \notin reserved THEN Goto(c, "reserved") ELSE End(c)
    /\ UNCHANGED rows

CommitReservation(c) ==
    /\ tx[c].pc = "reserved"
    /\ reserved' = reserved \cup {tx[c].id}
    /\ End(c)
    /\ UNCHANGED <<account, audit, notices>>

(* A lost connection, a cancelled request or a dead process rolls the      *)
(* transaction back; an inserted account loses its id.                     *)
Abort(c) ==
    /\ tx[c].pc # "idle"
    /\ account' = IF tx[c].pc = "registered"
                  THEN [account EXCEPT ![tx[c].id] = Gone] ELSE account
    /\ End(c)
    /\ UNCHANGED <<audit, reserved, notices>>

Next ==
    \E c \in Clients :
        \/ \E e \in Emails, r \in {"user", "admin"} : BeginSignup(c, e, r)
        \/ Register(c) \/ CommitSignup(c)
        \/ \E e \in Emails, r \in Roles : BeginRole(c, e, r)
        \/ \E u \in Ids : BeginDelete(c, u) \/ BeginReserve(c, u)
        \/ Lock(c) \/ FindForRole(c) \/ FindForDelete(c) \/ Count(c)
        \/ CommitRole(c) \/ Review(c) \/ CommitDelete(c)
        \/ InsertReservation(c) \/ CommitReservation(c)
        \/ Abort(c)

Spec == Init /\ [][Next]_vars

(***************************************************************************)
(* Properties                                                              *)
(***************************************************************************)
(* Every variable keeps its type.                                          *)
TypeOK ==
    /\ account \in [Ids -> Account]
    /\ audit \in Seq([user : Ids, previous : Roles, new : Roles])
    /\ reserved \subseteq Ids
    /\ notices \subseteq Ids
    /\ tx \in [Clients -> Transaction]

(* Once the system has an administrator it keeps one: no interleaving of   *)
(* demotions and deletions, each of which saw another administrator, takes *)
(* the last one away.                                                      *)
AdminStays == [][Admins # {} => Admins' # {}]_vars

(* The audit explains every role: the changes of one account form a chain, *)
(* each starting from the role the one before it left, and the last one    *)
(* left the role that a live account has now.                              *)
LastOf(i) == \A j \in i + 1 .. Len(audit) : audit[j].user # audit[i].user
AuditExplains ==
    \A i \in 1 .. Len(audit) :
        /\ LastOf(i) /\ Live(audit[i].user) => audit[i].new = account[audit[i].user].role
        /\ \A j \in i + 1 .. Len(audit) :
              /\ audit[j].user = audit[i].user
              /\ \A k \in i + 1 .. j - 1 : audit[k].user # audit[i].user
              => audit[j].previous = audit[i].new

(* A deletion never cascades a reservation away, even one that was being   *)
(* inserted while the deletion looked: Stripe may be charging for it.      *)
ReservationSurvives == [][reserved \subseteq reserved']_vars
=============================================================================
