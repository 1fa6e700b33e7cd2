---------------------------- MODULE ProfilePhoto ----------------------------
(***************************************************************************)
(* One user's profile photo (services/profile_photo.py,                    *)
(* models/profile_photo.py): objects in a store that may fail without      *)
(* telling whether it acted, and a reference in the users row that is      *)
(* replaced by compare-and-swap and whose commit may fail the same way.    *)
(* Every object has a key of its own.                                      *)
(***************************************************************************)
EXTENDS Naturals, FiniteSets

CONSTANTS
    Requests,  \* concurrent uploads and deletions
    Keys       \* object keys, each drawn by one upload

VARIABLES
    photo,   \* the reference in the row, or none: a set of at most one key
    account, \* the user exists
    store,   \* the objects in the store
    drawn,   \* keys drawn by uploads
    pc, job, \* job[r]: the reference r replaces and the key it has drawn, as sets
    leaked   \* history: keys a failure of a store, a commit or a process excuses

vars == <<photo, account, store, drawn, pc, job, leaked>>
-----------------------------------------------------------------------------
NoJob == [old |-> {}, new |-> {}]

Init ==
    /\ photo = {} /\ account = TRUE /\ store = {} /\ drawn = {} /\ leaked = {}
    /\ pc = [r \in Requests |-> "idle"] /\ job = [r \in Requests |-> NoJob]

Goto(r, step, j) == pc' = [pc EXCEPT ![r] = step] /\ job' = [job EXCEPT ![r] = j]
Done(r) == Goto(r, "idle", NoJob)

\* cleanup of the keys ks is what is left to do.
Drop(r, ks) == IF ks = {} THEN Done(r) ELSE Goto(r, "cleanup", [NoJob EXCEPT !.new = ks])
-----------------------------------------------------------------------------
\* The key is drawn after the image has been received.
BeginUpload(r) ==
    \E k \in Keys \ drawn :
        /\ pc[r] = "idle" /\ account
        /\ drawn' = drawn \cup {k}
        /\ Goto(r, "put", [old |-> photo, new |-> {k}])
        /\ UNCHANGED <<photo, account, store, leaked>>

BeginDelete(r) ==
    /\ pc[r] = "idle" /\ account
    /\ Goto(r, "swap", [old |-> photo, new |-> {}])
    /\ UNCHANGED <<photo, account, store, drawn, leaked>>

Put(r) ==
    /\ pc[r] = "put"
    /\ store' = store \cup job[r].new
    /\ Goto(r, "swap", job[r])
    /\ UNCHANGED <<photo, account, drawn, leaked>>

\* A failed response may still have written the object.
PutFails(r) ==
    /\ pc[r] = "put"
    /\ store' \in {store, store \cup job[r].new}
    /\ Drop(r, job[r].new)
    /\ UNCHANGED <<photo, account, drawn, leaked>>

\* Defect: the reference is replaced whatever it has become.
AsExpectedAlways(old) == account

AsExpected(old) == account /\ photo = old

\* replace: changed, and the previous object goes; or a conflict, and the own one does.
Swap(r) ==
    /\ pc[r] = "swap"
    /\ IF AsExpected(job[r].old)
       THEN photo' = job[r].new /\ Drop(r, job[r].old)
       ELSE UNCHANGED photo /\ Drop(r, job[r].new)
    /\ UNCHANGED <<account, store, drawn, leaked>>

\* The commit's outcome is unknown to the request, but decided.  A deletion leaves it so.
SwapFails(r) ==
    /\ pc[r] = "swap"
    /\ photo' \in IF AsExpected(job[r].old) THEN {photo, job[r].new} ELSE {photo}
    /\ leaked' = leaked \cup job[r].old
    /\ IF job[r].new = {} THEN Done(r) ELSE Goto(r, "check", job[r])
    /\ UNCHANGED <<account, store, drawn>>

NotCurrent(r) == ~account \/ photo # job[r].new

\* _compensate
Check(r) ==
    /\ pc[r] = "check"
    /\ IF NotCurrent(r) THEN Drop(r, job[r].new) ELSE Done(r)
    /\ UNCHANGED <<photo, account, store, drawn, leaked>>

Cleanup(r) ==
    /\ pc[r] = "cleanup"
    /\ store' = store \ job[r].new
    /\ Done(r)
    /\ UNCHANGED <<photo, account, drawn, leaked>>

\* The store fails in cleanup, the database in _compensate, or the process stops.
Fail(r) ==
    /\ pc[r] # "idle"
    /\ leaked' = leaked \cup job[r].new \cup job[r].old
    /\ Done(r)
    /\ UNCHANGED <<photo, account, store, drawn>>

\* delete_account returns the reference of the row it has locked, and cleans it up.
DeleteAccount(r) ==
    /\ pc[r] = "idle" /\ account
    /\ account' = FALSE /\ photo' = {}
    /\ Drop(r, photo)
    /\ UNCHANGED <<store, drawn, leaked>>

Next ==
    \E r \in Requests :
        \/ BeginUpload(r) \/ BeginDelete(r) \/ Put(r) \/ PutFails(r)
        \/ Swap(r) \/ SwapFails(r) \/ Check(r) \/ Cleanup(r) \/ Fail(r)
        \/ DeleteAccount(r)

Spec == Init /\ [][Next]_vars
-----------------------------------------------------------------------------
\* Properties.

TypeOK ==
    /\ photo \subseteq drawn /\ Cardinality(photo) <= 1 /\ account \in BOOLEAN
    /\ store \subseteq drawn /\ drawn \subseteq Keys /\ leaked \subseteq drawn
    /\ pc \in [Requests -> {"idle", "put", "swap", "check", "cleanup"}]
    /\ job \in [Requests -> [old : SUBSET drawn, new : SUBSET drawn]]

\* notes/object-storage.md: "an ambiguous successful commit must not delete the new current
\* image": the object the row refers to is in the store, whatever fails.
PhotoKept == photo \subseteq store

\* An object is in use, or about to be used or cleaned up, unless a failure let it go.
NoOrphan ==
    \A k \in store \ (photo \cup leaked) : \E r \in Requests : k \in job[r].new

\* Every reference has its object, and every object its reference or its excuse.
ObjectsAccounted == PhotoKept /\ NoOrphan
=============================================================================
