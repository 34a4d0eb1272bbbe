--------------------------- MODULE FileRetirement ---------------------------
(***************************************************************************)
(* The keys of stored Personnel files.  A counseling or document row names *)
(* the storage key of its file.  Any client with the authority may change  *)
(* rows directly, so statement triggers decide what becomes of a key: one  *)
(* that no row names any more is retired, its bytes are removed by         *)
(* whoever comes first, and it is never attached or filled again.  A key   *)
(* some row still names is put on hold and looked at again by the          *)
(* scheduled cleanup.  Uploads register their key before the provider      *)
(* stores a byte and end the registration when the key is attached or      *)
(* retired.                                                                *)
(*                                                                         *)
(* A transaction that changes rows takes an advisory lock on every key it  *)
(* attaches or detaches, one after the other, and keeps them to its end;   *)
(* what it wrote is invisible to the others until it commits.  Functions   *)
(* that lock a single key are one action each.                             *)
(***************************************************************************)
EXTENDS Naturals

CONSTANTS
    Rows,       \* rows that may name a file
    Keys,       \* storage keys, numbered by their advisory lock id
    Sessions,   \* database sessions that change rows
    NoSession,
    PersonOf,   \* the Person of each row
    KeyPerson,  \* the Person under whose prefix each key lies
    Uploads,    \* keys that are uploaded; the others are stored already
    FirstPath   \* the key each row names at the start

NoKey == 0

ASSUME FileAssumption ==
    /\ Keys \subseteq Nat \ {NoKey}
    /\ Uploads \subseteq Keys
    /\ NoSession \notin Sessions
    /\ FirstPath \in [Rows -> (Keys \ Uploads) \cup {NoKey}]

VARIABLES
    path,        \* file_path of each row, as committed
    retired,     \* file_retirements: none, object_name set, or cleared
    held,        \* file_retirement_holds
    registered,  \* file_uploads
    bytes,       \* keys the provider holds bytes under
    arriving,    \* keys whose provider call may still store bytes
    removed,     \* keys whose removal was confirmed and not yet recorded
    upload,      \* where the upload of each key is
    attaching,   \* keys whose attach request was sent and not yet begun
    attached,    \* keys whose attach request committed
    changing,    \* the rows a session's open transaction has changed
    change,      \* the key it made each of them name
    request,     \* the upload whose attach request the transaction is
    todo,        \* the keys it has yet to lock
    retiring,    \* the keys it retires and
    holding,     \* puts on hold when it commits
    lock         \* the session with the advisory lock of each key

fileVars == <<path, retired, held>>
storeVars == <<registered, bytes, arriving, removed>>
uploadVars == <<upload, attaching, attached>>
txVars == <<changing, change, request, todo, retiring, holding, lock>>
vars == <<fileVars, storeVars, uploadVars, txVars>>

Idle(s) == changing[s] = {}

TypeOK ==
    /\ path \in [Rows -> Keys \cup {NoKey}]
    /\ retired \in [Keys -> {"no", "pending", "done"}]
    /\ held \subseteq Keys
    /\ registered \subseteq Keys /\ bytes \subseteq Keys
    /\ arriving \subseteq Keys /\ removed \subseteq Keys
    /\ upload \in [Uploads -> {"new", "registered", "sent", "stored",
                               "attaching", "failed", "settled", "over"}]
    /\ attaching \subseteq Uploads /\ attached \subseteq Uploads
    /\ changing \in [Sessions -> SUBSET Rows]
    /\ change \in [Sessions -> [Rows -> Keys \cup {NoKey}]]
    /\ request \in [Sessions -> Uploads \cup {NoKey}]
    /\ todo \in [Sessions -> SUBSET Keys]
    /\ retiring \in [Sessions -> SUBSET Keys]
    /\ holding \in [Sessions -> SUBSET Keys]
    /\ lock \in [Keys -> Sessions \cup {NoSession}]
    \* Advisory locks end with their transaction.
    /\ \A k \in Keys : lock[k] \in Sessions => ~Idle(lock[k])

----------------------------------------------------------------------------
(* Keys. *)

\* artifact_file_owned
Owned(r, k) == k # NoKey /\ PersonOf[r] = KeyPerson[k]

\* What session s reads as row r's key: its own change, or what is committed.
Seen(s, r) == IF r \in changing[s] THEN change[s][r] ELSE path[r]

Named(k) == \E r \in Rows : path[r] = k

\* Faulty variant: the key is not locked.
LockFreeFaulty(k) == TRUE

\* lock_file_key returns.
LockFree(k) == lock[k] = NoSession

\* retire_unreferenced_file by a statement of its own, for an unnamed key.
Retire(k) ==
    /\ retired' = [retired EXCEPT ![k] = IF @ = "no" THEN "pending" ELSE @]
    /\ held' = held \ {k}

----------------------------------------------------------------------------
(* Transactions that insert, update or delete rows. *)

Attached(s) == {change[s][r] : r \in changing[s]} \ {NoKey}

\* The statement itself: it locks the rows and has its new values in hand.
\* What a deleted row named is detached; a row is also a slot for an insert.
Begin(s, R, new, k) ==
    /\ Idle(s)
    /\ R # {} /\ \A t \in Sessions : R \cap changing[t] = {}
    /\ \A r \in R : new[r] # path[r] /\ (new[r] = NoKey \/ Owned(r, new[r]))
    /\ changing' = [changing EXCEPT ![s] = R]
    /\ change' = [change EXCEPT
           ![s] = [r \in Rows |-> IF r \in R THEN new[r] ELSE NoKey]]
    /\ request' = [request EXCEPT ![s] = k]
    /\ todo' = [todo EXCEPT
           ![s] = ({new[r] : r \in R} \ {NoKey})
                  \cup {path[r] : r \in {q \in R : Owned(q, path[q])}}]
    /\ UNCHANGED <<fileVars, storeVars, upload, attached, retiring, holding,
                   lock>>

\* A direct change by a client, which knows the key of a file once stored.
ChangeRows(s, R, new) ==
    /\ \A r \in R : new[r] \in Uploads => upload[new[r]] # "new"
    /\ Begin(s, R, new, NoKey)
    /\ UNCHANGED attaching

\* The server's insert of the row an upload is for.
AttachUpload(s, r, k) ==
    /\ k \in attaching /\ path[r] = NoKey
    /\ Begin(s, {r}, [q \in {r} |-> k], k)
    /\ attaching' = attaching \ {k}

\* The locks, the retirements and the holds of s end.
Forget(s) ==
    /\ changing' = [changing EXCEPT ![s] = {}]
    /\ todo' = [todo EXCEPT ![s] = {}]
    /\ retiring' = [retiring EXCEPT ![s] = {}]
    /\ holding' = [holding EXCEPT ![s] = {}]
    /\ change' = [change EXCEPT ![s] = [r \in Rows |-> NoKey]]
    /\ request' = [request EXCEPT ![s] = NoKey]

Unlocked(s) == [k \in Keys |-> IF lock[k] = s THEN NoSession ELSE lock[k]]

\* Faulty variant: the keys are locked in the order the statement met them.
NextKeyFaulty(s, k) == k \in todo[s]

\* apply_artifact_file_changes goes through the keys by lock id.
NextKey(s, k) == k \in todo[s] /\ \A j \in todo[s] : k <= j

TakeLock(s, k) ==
    /\ NextKey(s, k)
    /\ LockFree(k)
    /\ lock' = [lock EXCEPT ![k] = s]
    /\ todo' = [todo EXCEPT ![s] = @ \ {k}]

\* A key the statement attaches must not be retired.
LockAttached(s, k) ==
    /\ k \in Attached(s)
    /\ retired[k] = "no"
    /\ TakeLock(s, k)
    /\ UNCHANGED <<fileVars, storeVars, uploadVars, changing, change, request,
                   retiring, holding>>

\* Faulty variant: a key some row still names is left to that row.
HoldsFaulty(s, k) == {}

\* The key is put on hold unless it was retired before.
Holds(s, k) == IF retired[k] = "no" THEN {k} ELSE {}

\* A key the statement only detaches: retire_unreferenced_file.
LockDetached(s, k) ==
    /\ k \notin Attached(s)
    /\ TakeLock(s, k)
    /\ IF \E r \in Rows : Seen(s, r) = k
       THEN /\ holding' = [holding EXCEPT ![s] = @ \cup Holds(s, k)]
            /\ UNCHANGED retiring
       ELSE /\ retiring' = [retiring EXCEPT ![s] = @ \cup {k}]
            /\ UNCHANGED holding
    /\ UNCHANGED <<fileVars, storeVars, uploadVars, changing, change, request>>

Commit(s) ==
    /\ ~Idle(s) /\ todo[s] = {}
    /\ path' = [r \in Rows |-> Seen(s, r)]
    /\ retired' = [k \in Keys |-> IF k \in retiring[s] /\ retired[k] = "no"
                                  THEN "pending" ELSE retired[k]]
    /\ held' = (held \cup holding[s]) \ retiring[s]
    /\ attached' = attached \cup ({request[s]} \ {NoKey})
    /\ lock' = Unlocked(s)
    /\ Forget(s)
    /\ UNCHANGED <<storeVars, upload, attaching>>

\* A retired key, another refusal of the statement or a lost connection.
Abort(s) ==
    /\ ~Idle(s)
    /\ lock' = Unlocked(s)
    /\ Forget(s)
    /\ UNCHANGED <<fileVars, storeVars, uploadVars>>

----------------------------------------------------------------------------
(* One upload, createPersonnelDocument or createPersonnelCounselingRecord. *)

Register(k) ==
    /\ upload[k] = "new"
    /\ LockFree(k) /\ retired[k] = "no"
    /\ registered' = registered \cup {k}
    /\ upload' = [upload EXCEPT ![k] = "registered"]
    /\ UNCHANGED <<fileVars, bytes, arriving, removed, attaching, attached,
                   txVars>>

SendBytes(k) ==
    /\ upload[k] = "registered"
    /\ upload' = [upload EXCEPT ![k] = "sent"]
    /\ arriving' = arriving \cup {k}
    /\ UNCHANGED <<fileVars, registered, bytes, removed, attaching, attached,
                   txVars>>

\* Faulty variant: a registration is enough.
StorableFaulty(k) == k \in registered

\* require_registered_file_upload
Storable(k) == retired[k] = "no" /\ k \in registered

\* The provider writes its row, however late; the trigger may refuse it.
ProviderStores(k) ==
    /\ k \in arriving
    /\ LockFree(k)
    /\ bytes' = IF Storable(k) THEN bytes \cup {k} ELSE bytes
    /\ arriving' = arriving \ {k}
    /\ UNCHANGED <<fileVars, registered, removed, uploadVars, txVars>>

HearStored(k) ==
    /\ upload[k] = "sent" /\ k \notin arriving /\ k \in bytes
    /\ upload' = [upload EXCEPT ![k] = "stored"]
    /\ UNCHANGED <<fileVars, storeVars, attaching, attached, txVars>>

SendAttach(k) ==
    /\ upload[k] = "stored"
    /\ upload' = [upload EXCEPT ![k] = "attaching"]
    /\ attaching' = attaching \cup {k}
    /\ UNCHANGED <<fileVars, storeVars, attached, txVars>>

HearAttached(k) ==
    /\ upload[k] = "attaching" /\ k \in attached
    /\ upload' = [upload EXCEPT ![k] = "settled"]
    /\ UNCHANGED <<fileVars, storeVars, attaching, attached, txVars>>

\* An error or a timeout says nothing of what happened or will happen.
HearError(k) ==
    /\ upload[k] \in {"sent", "attaching"}
    /\ upload' = [upload EXCEPT ![k] = "failed"]
    /\ UNCHANGED <<fileVars, storeVars, attaching, attached, txVars>>

\* reconcile_personnel_file_attachment: the row is there, or the key is
\* retired so that it never will be.
Reconcile(k) ==
    /\ upload[k] = "failed"
    /\ LockFree(k)
    /\ IF Named(k) THEN UNCHANGED <<retired, held>> ELSE Retire(k)
    /\ upload' = [upload EXCEPT ![k] = "settled"]
    /\ UNCHANGED <<path, storeVars, attaching, attached, txVars>>

\* settle_organization_file_upload
Complete(k) ==
    /\ upload[k] = "settled"
    /\ registered' = registered \ {k}
    /\ upload' = [upload EXCEPT ![k] = "over"]
    /\ UNCHANGED <<fileVars, bytes, arriving, removed, attaching, attached,
                   txVars>>

\* The server dies between two calls, or a call it does not repeat fails.
Die(k) ==
    /\ upload[k] \notin {"new", "over"}
    /\ upload' = [upload EXCEPT ![k] = "over"]
    /\ UNCHANGED <<fileVars, storeVars, attaching, attached, txVars>>

----------------------------------------------------------------------------
(* removeRetiredOrganizationFiles, by the request that retired the key or   *)
(* by the scheduled drain.                                                  *)

RemoveBytes(k) ==
    /\ retired[k] = "pending"
    /\ bytes' = bytes \ {k}
    /\ removed' = removed \cup {k}
    /\ UNCHANGED <<fileVars, registered, arriving, uploadVars, txVars>>

CompleteRetirement(k) ==
    /\ k \in removed
    /\ retired' = [retired EXCEPT ![k] = IF @ = "pending" THEN "done" ELSE @]
    /\ removed' = removed \ {k}
    /\ UNCHANGED <<path, held, registered, bytes, arriving, uploadVars, txVars>>

\* Faulty variant: a hold is tried once.
StillHeldFaulty(k) == held \ {k}

StillHeld(k) == held

\* promote_file_retirement_holds passes over a key that is locked.
Promote(k) ==
    /\ k \in held
    /\ LockFree(k)
    /\ IF Named(k)
       THEN held' = StillHeld(k) /\ UNCHANGED retired
       ELSE Retire(k)
    /\ UNCHANGED <<path, storeVars, uploadVars, txVars>>

----------------------------------------------------------------------------

Init ==
    /\ path = FirstPath
    /\ retired = [k \in Keys |-> "no"]
    /\ held = {}
    /\ registered = {} /\ bytes = Keys \ Uploads
    /\ arriving = {} /\ removed = {}
    /\ upload = [k \in Uploads |-> "new"]
    /\ attaching = {} /\ attached = {}
    /\ changing = [s \in Sessions |-> {}]
    /\ change = [s \in Sessions |-> [r \in Rows |-> NoKey]]
    /\ request = [s \in Sessions |-> NoKey]
    /\ todo = [s \in Sessions |-> {}]
    /\ retiring = [s \in Sessions |-> {}]
    /\ holding = [s \in Sessions |-> {}]
    /\ lock = [k \in Keys |-> NoSession]

Locking(s) == \E k \in Keys : LockAttached(s, k) \/ LockDetached(s, k)

SessionStep(s) ==
    \/ \E R \in SUBSET Rows : \E new \in [R -> Keys \cup {NoKey}] :
          ChangeRows(s, R, new)
    \/ \E r \in Rows, k \in Uploads : AttachUpload(s, r, k)
    \/ Locking(s) \/ Commit(s) \/ Abort(s)

UploadStep(k) ==
    \/ Register(k) \/ SendBytes(k) \/ HearStored(k) \/ SendAttach(k)
    \/ HearAttached(k) \/ HearError(k) \/ Reconcile(k) \/ Complete(k) \/ Die(k)

KeyStep(k) ==
    ProviderStores(k) \/ RemoveBytes(k) \/ CompleteRetirement(k) \/ Promote(k)

Next ==
    \/ \E s \in Sessions : SessionStep(s)
    \/ \E k \in Uploads : UploadStep(k)
    \/ \E k \in Keys : KeyStep(k)

Spec == Init /\ [][Next]_vars

\* Transactions run to their end, and the daily drain comes round again.
FairSpec ==
    /\ Spec
    /\ \A s \in Sessions : WF_vars(Locking(s)) /\ WF_vars(Commit(s) \/ Abort(s))
    /\ \A k \in Keys :
        /\ SF_vars(Promote(k))
        /\ WF_vars(RemoveBytes(k)) /\ WF_vars(CompleteRetirement(k))

----------------------------------------------------------------------------
(* Properties. *)

\* No row names a retired key, whose bytes anyone may be removing: a change
\* that attaches a key and one that gives it up never both succeed.
NoRetiredReference == \A r \in Rows : path[r] # NoKey => retired[path[r]] = "no"

\* Once a removal is recorded no bytes are there again, though the provider
\* may run a late call and the registration may still be open.
RemovedStaysEmpty == \A k \in Keys : retired[k] = "done" => k \notin bytes

\* Keys that are uploaded or that a row of their own Person names first.  What
\* only a foreign row names is never retired, on purpose.
Ours == Uploads \cup {FirstPath[r] : r \in {q \in Rows : Owned(q, FirstPath[q])}}

\* Stored bytes are never forgotten: a row names them, an upload answers for
\* them, or the key is retired or held so that the drain finds it.
NoBytesForgotten ==
    \A k \in bytes \cap Ours :
        Named(k) \/ k \in registered \/ retired[k] = "pending" \/ k \in held

WaitsFor(s, t) == \E k \in Keys : NextKey(s, k) /\ lock[k] = t

\* No group of transactions waits for each other's keys.
NoLockCycle ==
    ~\E S \in (SUBSET Sessions) \ {{}} :
        \A s \in S : \E t \in S \ {s} : WaitsFor(s, t)

\* Bytes that no row names and no upload answers for are removed in the end.
UnownedBytesGo ==
    \A k \in Ours :
        k \in bytes /\ k \notin registered /\ ~Named(k)
            ~> k \notin bytes \/ Named(k)

----------------------------------------------------------------------------
(* It implements FileCustody. *)

Custody == INSTANCE FileCustody
    WITH names <- path, fate <- retired, watched <- held, awaited <- registered, stored <- bytes

\* A transaction locks its keys one by one and judges each by what is committed
\* then; yet at its commit, whatever the others did meanwhile, what it retires
\* is named by no row, everything else it gave up is held, and what it attached
\* is not retired.
ImplementsCustody == Custody!Spec

=============================================================================
