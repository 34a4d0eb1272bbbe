------------------------ MODULE FileRetirementProofs ------------------------
(***************************************************************************)
(* FileRetirement's safety for any number of rows, keys and sessions.  The *)
(* inductive invariant says what the advisory locks are for: from the time *)
(* a transaction has locked a key it attaches until it ends, the key is    *)
(* not retired by anyone; and of a key it is about to retire it knows that *)
(* no row names it, whatever the others commit meanwhile.  What is owed    *)
(* for a key that is detached then gives that bytes are never forgotten,   *)
(* and the order of the locks that nobody waits in a circle.               *)
(***************************************************************************)
EXTENDS FileRetirement, TLAPS, FiniteSetTheorems

\* Two transactions never change the same row.
ChangesDisjoint ==
    \A s, t \in Sessions : s # t => changing[s] \cap changing[t] = {}

\* A session that changes nothing has nothing to lock or to retire.
IdleHoldsNothing ==
    \A s \in Sessions : Idle(s) => todo[s] = {} /\ retiring[s] = {}

\* Once its lock is taken, an attached key stays good until the transaction
\* ends.
AttachedIsFenced ==
    \A s \in Sessions : \A k \in Attached(s) \ todo[s] :
        lock[k] = s /\ retired[k] = "no"

\* A key that a transaction will retire is locked and no row will name it.
RetiringIsUnnamed ==
    \A s \in Sessions : \A k \in retiring[s] :
        lock[k] = s /\ \A r \in Rows : Seen(s, r) # k

\* Only retired keys have their bytes removed, and they stay removed.
RemovedIsRetired == \A k \in removed : retired[k] # "no" /\ k \notin bytes

Fenced ==
    /\ ChangesDisjoint
    /\ IdleHoldsNothing
    /\ AttachedIsFenced
    /\ RetiringIsUnnamed
    /\ NoRetiredReference

Emptied == RemovedIsRetired /\ RemovedStaysEmpty

IInv == TypeOK /\ Fenced /\ Emptied

----------------------------------------------------------------------------
(* Types. *)

\* A statement's keys are keys, and what it makes rows name too.
LEMMA BeginType ==
    ASSUME TypeOK, NEW s \in Sessions, NEW R \in SUBSET Rows,
           NEW new \in [R -> Keys \cup {NoKey}], NEW k \in Uploads \cup {NoKey},
           Begin(s, R, new, k), attaching' \subseteq Uploads
    PROVE  TypeOK'
<1>1. /\ changing' \in [Sessions -> SUBSET Rows]
      /\ request' \in [Sessions -> Uploads \cup {NoKey}]
  BY DEF TypeOK, Begin
<1>2. change' \in [Sessions -> [Rows -> Keys \cup {NoKey}]]
  <2>1. [r \in Rows |-> IF r \in R THEN new[r] ELSE NoKey]
            \in [Rows -> Keys \cup {NoKey}]
    OBVIOUS
  <2>2. QED BY <2>1 DEF TypeOK, Begin
<1>3. todo' \in [Sessions -> SUBSET Keys]
  <2>1. {path[r] : r \in {q \in R : Owned(q, path[q])}} \subseteq Keys
    BY DEF TypeOK, Owned
  <2>2. {new[r] : r \in R} \ {NoKey} \subseteq Keys
    OBVIOUS
  <2>3. QED BY <2>1, <2>2 DEF TypeOK, Begin
<1>4. \A j \in Keys : lock'[j] \in Sessions => changing'[lock'[j]] # {}
  BY DEF TypeOK, Begin, Idle, txVars
<1>5. UNCHANGED <<path, retired, held, registered, bytes, arriving, removed,
                  upload, attached, retiring, holding, lock>>
  BY DEF Begin, fileVars, storeVars
<1>6. QED BY <1>1, <1>2, <1>3, <1>4, <1>5 DEF TypeOK, Idle

\* The end of a transaction leaves its session idle and without a lock.
LEMMA ForgetType ==
    ASSUME TypeOK, NEW s \in Sessions, Forget(s), lock' = Unlocked(s)
    PROVE  /\ changing' \in [Sessions -> SUBSET Rows]
           /\ change' \in [Sessions -> [Rows -> Keys \cup {NoKey}]]
           /\ request' \in [Sessions -> Uploads \cup {NoKey}]
           /\ todo' \in [Sessions -> SUBSET Keys]
           /\ retiring' \in [Sessions -> SUBSET Keys]
           /\ holding' \in [Sessions -> SUBSET Keys]
           /\ lock' \in [Keys -> Sessions \cup {NoSession}]
           /\ \A k \in Keys : lock'[k] \in Sessions => changing'[lock'[k]] # {}
<1>1. [r \in Rows |-> NoKey] \in [Rows -> Keys \cup {NoKey}]
  OBVIOUS
<1>2. lock' \in [Keys -> Sessions \cup {NoSession}]
  BY DEF TypeOK, Unlocked
<1>3. ASSUME NEW k \in Keys, lock'[k] \in Sessions
      PROVE  changing'[lock'[k]] # {}
  <2>1. lock'[k] # s /\ lock'[k] = lock[k]
    BY <1>3, FileAssumption DEF TypeOK, Unlocked
  <2>2. QED BY <1>3, <2>1 DEF TypeOK, Idle, Forget
<1>4. QED BY <1>1, <1>2, <1>3 DEF TypeOK, Forget

\* Every step keeps the types; a lock is taken by a session with keys to do.
LEMMA TypeStep == IInv /\ [Next]_vars => TypeOK'
<1> SUFFICES ASSUME IInv, [Next]_vars PROVE TypeOK'
  OBVIOUS
<1> USE DEF fileVars, storeVars, uploadVars, txVars
<1>a. TypeOK /\ IdleHoldsNothing
  BY DEF IInv, Fenced
<1>1. ASSUME NEW s \in Sessions, SessionStep(s) PROVE TypeOK'
  <2>1. ASSUME NEW R \in SUBSET Rows, NEW new \in [R -> Keys \cup {NoKey}],
               ChangeRows(s, R, new)
        PROVE  TypeOK'
    BY <1>a, <2>1, BeginType DEF ChangeRows, TypeOK
  <2>2. ASSUME NEW r \in Rows, NEW k \in Uploads, AttachUpload(s, r, k)
        PROVE  TypeOK'
    <3>1. [q \in {r} |-> k] \in [{r} -> Keys \cup {NoKey}]
      BY FileAssumption
    <3>2. attaching' \subseteq Uploads
      BY <1>a, <2>2 DEF AttachUpload, TypeOK
    <3>3. Begin(s, {r}, [q \in {r} |-> k], k)
      BY <2>2 DEF AttachUpload
    <3>4. QED BY <1>a, <3>1, <3>2, <3>3, BeginType
  <2>3. ASSUME NEW k \in Keys, LockAttached(s, k) \/ LockDetached(s, k)
        PROVE  TypeOK'
    <3>1. /\ TakeLock(s, k)
          /\ UNCHANGED <<fileVars, storeVars, uploadVars, changing, change,
                         request>>
      BY <2>3 DEF LockAttached, LockDetached
    <3>2. /\ retiring' \in [Sessions -> SUBSET Keys]
          /\ holding' \in [Sessions -> SUBSET Keys]
      <4>1. Holds(s, k) \subseteq Keys
        BY DEF Holds
      <4>2. CASE LockAttached(s, k)
        BY <1>a, <4>2 DEF LockAttached, TypeOK
      <4>3. CASE LockDetached(s, k)
        <5>1. \/ /\ holding' = [holding EXCEPT ![s] = @ \cup Holds(s, k)]
                 /\ UNCHANGED retiring
              \/ /\ retiring' = [retiring EXCEPT ![s] = @ \cup {k}]
                 /\ UNCHANGED holding
          BY <4>3 DEF LockDetached
        <5>2. holding[s] \cup Holds(s, k) \in SUBSET Keys
          BY <1>a, <4>1 DEF TypeOK
        <5>3. retiring[s] \cup {k} \in SUBSET Keys
          BY <1>a DEF TypeOK
        <5>4. QED BY <1>a, <5>1, <5>2, <5>3 DEF TypeOK
      <4>4. QED BY <2>3, <4>2, <4>3
    <3>3. ~Idle(s)
      BY <1>a, <3>1 DEF TakeLock, NextKey, IdleHoldsNothing
    <3>4. /\ todo' \in [Sessions -> SUBSET Keys]
          /\ lock' \in [Keys -> Sessions \cup {NoSession}]
          /\ \A j \in Keys : lock'[j] \in Sessions => changing[lock'[j]] # {}
      BY <1>a, <3>1, <3>3 DEF TakeLock, TypeOK, Idle
    <3>5. QED BY <1>a, <3>1, <3>2, <3>4 DEF TypeOK, Idle
  <2>4. CASE Commit(s)
    <3>1. path' \in [Rows -> Keys \cup {NoKey}]
      BY <1>a, <2>4 DEF Commit, Seen, TypeOK
    <3>2. retired' \in [Keys -> {"no", "pending", "done"}]
      BY <1>a, <2>4 DEF Commit, TypeOK
    <3>3. held' \subseteq Keys /\ attached' \subseteq Uploads
      BY <1>a, <2>4 DEF Commit, TypeOK
    <3>4. UNCHANGED <<registered, bytes, arriving, removed, upload, attaching>>
      BY <2>4 DEF Commit
    <3>5. Forget(s) /\ lock' = Unlocked(s)
      BY <2>4 DEF Commit
    <3>6. QED
      BY <1>a, <3>1, <3>2, <3>3, <3>4, <3>5, ForgetType DEF TypeOK, Idle
  <2>5. CASE Abort(s)
    BY <1>a, <2>5, ForgetType DEF Abort, TypeOK, Idle
  <2>6. QED
    BY <1>1, <2>1, <2>2, <2>3, <2>4, <2>5 DEF SessionStep, Locking
<1>2. ASSUME NEW k \in Uploads, UploadStep(k) PROVE TypeOK'
  <2>k. k \in Keys
    BY FileAssumption
  <2>1. CASE Register(k)
    BY <1>a, <2>k, <2>1 DEF Register, TypeOK, Idle
  <2>2. CASE SendBytes(k)
    BY <1>a, <2>k, <2>2 DEF SendBytes, TypeOK, Idle
  <2>3. CASE HearStored(k)
    BY <1>a, <2>k, <2>3 DEF HearStored, TypeOK, Idle
  <2>4. CASE SendAttach(k)
    BY <1>a, <2>k, <2>4 DEF SendAttach, TypeOK, Idle
  <2>5. CASE HearAttached(k)
    BY <1>a, <2>k, <2>5 DEF HearAttached, TypeOK, Idle
  <2>6. CASE HearError(k)
    BY <1>a, <2>k, <2>6 DEF HearError, TypeOK, Idle
  <2>7. CASE Reconcile(k)
    BY <1>a, <2>k, <2>7 DEF Reconcile, Retire, TypeOK, Idle
  <2>8. CASE Complete(k)
    BY <1>a, <2>k, <2>8 DEF Complete, TypeOK, Idle
  <2>9. CASE Die(k)
    BY <1>a, <2>k, <2>9 DEF Die, TypeOK, Idle
  <2>10. QED
    BY <1>2, <2>1, <2>2, <2>3, <2>4, <2>5,
       <2>6, <2>7, <2>8, <2>9 DEF UploadStep
<1>3. ASSUME NEW k \in Keys, KeyStep(k) PROVE TypeOK'
  <2>1. CASE ProviderStores(k)
    BY <1>a, <2>1 DEF ProviderStores, TypeOK, Idle
  <2>2. CASE RemoveBytes(k)
    BY <1>a, <2>2 DEF RemoveBytes, TypeOK, Idle
  <2>3. CASE CompleteRetirement(k)
    BY <1>a, <2>3 DEF CompleteRetirement, TypeOK, Idle
  <2>4. CASE Promote(k)
    BY <1>a, <2>4 DEF Promote, StillHeld, Retire, TypeOK, Idle
  <2>5. QED
    BY <1>3, <2>1, <2>2, <2>3, <2>4 DEF KeyStep
<1>4. CASE UNCHANGED vars
  BY <1>a, <1>4 DEF vars, TypeOK, Idle
<1>5. QED BY <1>1, <1>2, <1>3, <1>4 DEF Next

----------------------------------------------------------------------------
(* Locks and retirements. *)

\* The rows, the retirements and the transactions are all that is at stake.
LEMMA FenceUndisturbed ==
    ASSUME Fenced,
           UNCHANGED <<path, retired, changing, change, todo, retiring, lock>>
    PROVE  Fenced'
BY DEF Fenced, ChangesDisjoint, IdleHoldsNothing, AttachedIsFenced,
       RetiringIsUnnamed, NoRetiredReference, Idle, Attached, Seen

\* A key that nobody has locked and no row names can be retired: whoever is
\* about to attach it will meet the retirement once it has the lock.
LEMMA RetireKeeps ==
    ASSUME TypeOK, Fenced, NEW k \in Keys, LockFree(k), ~Named(k),
           retired' = [retired EXCEPT ![k] = IF @ = "no" THEN "pending" ELSE @],
           UNCHANGED <<path, changing, change, todo, retiring, lock>>
    PROVE  Fenced'
<1>1. \A s \in Sessions : lock[k] # s
  BY FileAssumption DEF LockFree
<1>2. AttachedIsFenced'
  <2>1. ASSUME NEW s \in Sessions, NEW j \in Attached(s) \ todo[s]
        PROVE  lock[j] = s /\ retired'[j] = "no"
    <3>1. lock[j] = s /\ retired[j] = "no" /\ j # k
      BY <1>1 DEF Fenced, AttachedIsFenced
    <3>2. QED BY <3>1 DEF TypeOK
  <2>2. QED BY <2>1 DEF AttachedIsFenced, Attached
<1>3. NoRetiredReference'
  BY DEF Fenced, NoRetiredReference, TypeOK, Named
<1>4. ChangesDisjoint' /\ IdleHoldsNothing' /\ RetiringIsUnnamed'
  BY DEF Fenced, ChangesDisjoint, IdleHoldsNothing, RetiringIsUnnamed, Idle,
         Seen
<1>5. QED BY <1>2, <1>3, <1>4 DEF Fenced

\* A statement starts with rows of its own and every lock still to take.
LEMMA BeginKeeps ==
    ASSUME TypeOK, Fenced, NEW s \in Sessions, NEW R \in SUBSET Rows,
           NEW new \in [R -> Keys \cup {NoKey}], NEW k \in Uploads \cup {NoKey},
           Begin(s, R, new, k)
    PROVE  Fenced'
<1>1. /\ Idle(s) /\ todo[s] = {} /\ retiring[s] = {}
      /\ \A t \in Sessions : R \cap changing[t] = {}
      /\ changing' = [changing EXCEPT ![s] = R]
      /\ UNCHANGED <<path, retired, retiring, lock>>
  BY DEF Begin, Fenced, IdleHoldsNothing, fileVars
<1>2. \A t \in Sessions \ {s} :
          /\ changing'[t] = changing[t] /\ change'[t] = change[t]
          /\ todo'[t] = todo[t]
  BY DEF Begin, TypeOK
<1>3. /\ changing'[s] = R
      /\ change'[s] = [r \in Rows |-> IF r \in R THEN new[r] ELSE NoKey]
      /\ {new[r] : r \in R} \ {NoKey} \subseteq todo'[s]
  BY DEF Begin, TypeOK
<1>4. ChangesDisjoint'
  BY <1>1, <1>2, <1>3 DEF Fenced, ChangesDisjoint
<1>5. IdleHoldsNothing'
  <2>1. R # {}
    BY DEF Begin
  <2>2. QED BY <1>1, <1>2, <1>3, <2>1 DEF Fenced, IdleHoldsNothing, Idle
<1>6. AttachedIsFenced'
  <2>1. ASSUME NEW t \in Sessions, NEW j \in Attached(t)' \ todo'[t]
        PROVE  lock'[j] = t /\ retired'[j] = "no"
    <3>1. CASE t = s
      <4>1. Attached(s)' \subseteq {new[r] : r \in R} \ {NoKey}
        BY <1>3 DEF Attached
      <4>2. QED BY <1>3, <3>1, <4>1
    <3>2. CASE t # s
      <4>1. j \in Attached(t) \ todo[t]
        BY <1>2, <3>2 DEF Attached
      <4>2. QED BY <1>1, <4>1 DEF Fenced, AttachedIsFenced
    <3>3. QED BY <3>1, <3>2
  <2>2. QED BY <2>1 DEF AttachedIsFenced
<1>7. RetiringIsUnnamed'
  <2>1. ASSUME NEW t \in Sessions, NEW j \in retiring'[t]
        PROVE  lock'[j] = t /\ \A r \in Rows : Seen(t, r)' # j
    <3>1. t # s /\ j \in retiring[t]
      BY <1>1
    <3>2. \A r \in Rows : Seen(t, r)' = Seen(t, r)
      BY <1>1, <1>2, <3>1 DEF Seen
    <3>3. QED BY <1>1, <3>1, <3>2 DEF Fenced, RetiringIsUnnamed
  <2>2. QED BY <2>1 DEF RetiringIsUnnamed
<1>8. NoRetiredReference'
  BY <1>1 DEF Fenced, NoRetiredReference
<1>9. QED BY <1>4, <1>5, <1>6, <1>7, <1>8 DEF Fenced

\* A lock is taken while it is free, so it disturbs nobody else's.
LEMMA LockKeeps ==
    ASSUME TypeOK, Fenced, NEW s \in Sessions, NEW k \in Keys,
           LockAttached(s, k) \/ LockDetached(s, k)
    PROVE  Fenced'
<1>1. /\ k \in todo[s] /\ lock[k] \notin Sessions
      /\ lock' = [lock EXCEPT ![k] = s]
      /\ todo' = [todo EXCEPT ![s] = @ \ {k}]
      /\ UNCHANGED <<path, retired, changing, change>>
  BY FileAssumption
     DEF LockAttached, LockDetached, TakeLock, NextKey, LockFree, fileVars
<1>2. ~Idle(s)
  BY <1>1 DEF Fenced, IdleHoldsNothing
<1>3. \A t \in Sessions \ {s} : retiring'[t] = retiring[t] /\ todo'[t] = todo[t]
  <2>1. CASE LockAttached(s, k)
    BY <1>1, <2>1 DEF LockAttached, TypeOK
  <2>2. CASE LockDetached(s, k)
    BY <1>1, <2>2 DEF LockDetached, TypeOK
  <2>3. QED BY <2>1, <2>2
<1>4. \A j \in retiring'[s] :
          j \in retiring[s] \/ (j = k /\ \A r \in Rows : Seen(s, r) # k)
  <2>1. CASE LockAttached(s, k)
    BY <2>1 DEF LockAttached
  <2>2. CASE LockDetached(s, k) /\ \E r \in Rows : Seen(s, r) = k
    BY <2>2 DEF LockDetached
  <2>3. CASE LockDetached(s, k) /\ \A r \in Rows : Seen(s, r) # k
    <3>1. retiring' = [retiring EXCEPT ![s] = @ \cup {k}]
      BY <2>3 DEF LockDetached
    <3>2. QED BY <2>3, <3>1 DEF TypeOK
  <2>4. QED BY <2>1, <2>2, <2>3
<1>5. \A t \in Sessions, r \in Rows : Seen(t, r)' = Seen(t, r)
  BY <1>1 DEF Seen
<1>6. \A t \in Sessions : Attached(t)' = Attached(t) /\ Attached(t) \subseteq Keys
  BY <1>1 DEF Attached, TypeOK
<1>7. \A t \in Sessions, j \in Keys : lock[j] = t => lock'[j] = t
  BY <1>1 DEF TypeOK
<1>8. lock'[k] = s
  BY <1>1 DEF TypeOK
<1>9. ChangesDisjoint' /\ NoRetiredReference'
  BY <1>1 DEF Fenced, ChangesDisjoint, NoRetiredReference
<1>10. IdleHoldsNothing'
  BY <1>1, <1>2, <1>3 DEF Fenced, IdleHoldsNothing, Idle
<1>11. AttachedIsFenced'
  <2>1. ASSUME NEW t \in Sessions, NEW j \in Attached(t) \ todo'[t]
        PROVE  lock'[j] = t /\ retired[j] = "no"
    <3>1. CASE j \in todo[t]
      <4>1. t = s /\ j = k
        BY <1>1, <1>3, <3>1 DEF TypeOK
      <4>2. LockAttached(s, k)
        BY <4>1 DEF LockDetached
      <4>3. QED BY <1>8, <4>1, <4>2 DEF LockAttached
    <3>2. CASE j \notin todo[t]
      BY <1>6, <1>7, <3>2 DEF Fenced, AttachedIsFenced
    <3>3. QED BY <3>1, <3>2
  <2>2. QED BY <1>1, <1>6, <2>1 DEF AttachedIsFenced
<1>12. RetiringIsUnnamed'
  <2>1. ASSUME NEW t \in Sessions, NEW j \in retiring'[t]
        PROVE  lock'[j] = t /\ \A r \in Rows : Seen(t, r) # j
    <3>1. CASE j \in retiring[t]
      BY <1>7, <3>1 DEF Fenced, RetiringIsUnnamed, TypeOK
    <3>2. CASE j \notin retiring[t]
      BY <1>3, <1>4, <1>8, <3>2
    <3>3. QED BY <3>1, <3>2
  <2>2. QED BY <1>5, <2>1 DEF RetiringIsUnnamed
<1>13. QED BY <1>9, <1>10, <1>11, <1>12 DEF Fenced

\* What the end of a transaction leaves of it: nothing, for the others
\* everything.
LEMMA ForgetLeaves ==
    ASSUME TypeOK, NEW s \in Sessions, Forget(s), lock' = Unlocked(s)
    PROVE  /\ changing'[s] = {} /\ todo'[s] = {} /\ retiring'[s] = {}
           /\ \A t \in Sessions \ {s} :
                 /\ changing'[t] = changing[t] /\ change'[t] = change[t]
                 /\ todo'[t] = todo[t] /\ retiring'[t] = retiring[t]
                 /\ \A k \in Keys : lock[k] = t => lock'[k] = t
BY DEF TypeOK, Forget, Unlocked

\* A commit makes rows name only keys it has locked and found good, and
\* retires only keys that no row names then.
LEMMA CommitKeeps ==
    ASSUME TypeOK, Fenced, NEW s \in Sessions, Commit(s)
    PROVE  Fenced'
<1>1. /\ todo[s] = {} /\ path' = [r \in Rows |-> Seen(s, r)]
      /\ retired' = [k \in Keys |-> IF k \in retiring[s] /\ retired[k] = "no"
                                    THEN "pending" ELSE retired[k]]
      /\ Forget(s) /\ lock' = Unlocked(s)
  BY DEF Commit
<1>2. /\ changing'[s] = {} /\ todo'[s] = {} /\ retiring'[s] = {}
      /\ \A t \in Sessions \ {s} :
            /\ changing'[t] = changing[t] /\ change'[t] = change[t]
            /\ todo'[t] = todo[t] /\ retiring'[t] = retiring[t]
            /\ \A k \in Keys : lock[k] = t => lock'[k] = t
  BY <1>1, ForgetLeaves
<1>3. \A k \in Keys : k \notin retiring[s] => retired'[k] = retired[k]
  BY <1>1
<1>4. \A r \in changing[s] : change[s][r] # NoKey => change[s][r] \in Attached(s)
  BY DEF Attached
<1>5. \A t \in Sessions : Attached(t) \subseteq Keys /\ retiring[t] \subseteq Keys
  BY DEF Attached, TypeOK
<1>6. ChangesDisjoint' /\ IdleHoldsNothing'
  BY <1>2 DEF Fenced, ChangesDisjoint, IdleHoldsNothing, Idle
<1>7. AttachedIsFenced'
  <2>1. ASSUME NEW t \in Sessions, NEW j \in Attached(t)' \ todo'[t]
        PROVE  lock'[j] = t /\ retired'[j] = "no"
    <3>1. t # s
      BY <1>2 DEF Attached
    <3>2. j \in Attached(t) \ todo[t]
      BY <1>2, <3>1 DEF Attached
    <3>3. lock[j] = t /\ retired[j] = "no" /\ j \in Keys
      BY <1>5, <3>2 DEF Fenced, AttachedIsFenced
    <3>4. j \notin retiring[s]
      BY <3>1, <3>3 DEF Fenced, RetiringIsUnnamed
    <3>5. QED BY <1>2, <1>3, <3>1, <3>3, <3>4
  <2>2. QED BY <2>1 DEF AttachedIsFenced
<1>8. RetiringIsUnnamed'
  <2>1. ASSUME NEW t \in Sessions, NEW j \in retiring'[t]
        PROVE  lock'[j] = t /\ \A r \in Rows : Seen(t, r)' # j
    <3>1. t # s /\ j \in retiring[t] /\ j \in Keys
      BY <1>2, <1>5
    <3>2. lock[j] = t /\ \A r \in Rows : Seen(t, r) # j
      BY <3>1 DEF Fenced, RetiringIsUnnamed
    <3>3. ASSUME NEW r \in Rows, r \in changing[t]
          PROVE  Seen(t, r)' # j
      BY <1>2, <3>1, <3>2, <3>3 DEF Seen
    <3>4. ASSUME NEW r \in Rows, r \notin changing[t]
          PROVE  Seen(t, r)' # j
      <4>1. Seen(t, r)' = Seen(s, r)
        BY <1>1, <1>2, <3>1, <3>4 DEF Seen
      <4>2. path[r] # j
        BY <3>2, <3>4 DEF Seen
      <4>3. CASE r \in changing[s] /\ change[s][r] = j
        <5>1. j \in Attached(s)
          BY <1>4, <3>1, <4>3, FileAssumption
        <5>2. lock[j] = s
          BY <1>1, <5>1 DEF Fenced, AttachedIsFenced
        <5>3. QED BY <3>1, <3>2, <5>2
      <4>4. QED BY <4>1, <4>2, <4>3 DEF Seen
    <3>5. QED BY <1>2, <3>1, <3>2, <3>3, <3>4
  <2>2. QED BY <2>1 DEF RetiringIsUnnamed
<1>9. NoRetiredReference'
  <2>1. ASSUME NEW r \in Rows, path'[r] # NoKey
        PROVE  retired'[path'[r]] = "no"
    <3>1. path'[r] = Seen(s, r) /\ Seen(s, r) \notin retiring[s]
      BY <1>1 DEF Fenced, RetiringIsUnnamed
    <3>2. retired[Seen(s, r)] = "no" /\ Seen(s, r) \in Keys
      <4>1. CASE r \in changing[s]
        BY <1>1, <1>4, <1>5, <2>1, <3>1, <4>1
           DEF Fenced, AttachedIsFenced, Seen
      <4>2. CASE r \notin changing[s]
        BY <2>1, <3>1, <4>2 DEF Fenced, NoRetiredReference, Seen, TypeOK
      <4>3. QED BY <4>1, <4>2
    <3>3. QED BY <1>3, <3>1, <3>2
  <2>2. QED BY <2>1 DEF NoRetiredReference
<1>10. QED BY <1>6, <1>7, <1>8, <1>9 DEF Fenced

\* An abort only lets go of what the others never saw.
LEMMA AbortKeeps ==
    ASSUME TypeOK, Fenced, NEW s \in Sessions, Abort(s)
    PROVE  Fenced'
<1>1. /\ Forget(s) /\ lock' = Unlocked(s) /\ UNCHANGED <<path, retired>>
  BY DEF Abort, fileVars
<1>2. /\ changing'[s] = {} /\ todo'[s] = {} /\ retiring'[s] = {}
      /\ \A t \in Sessions \ {s} :
            /\ changing'[t] = changing[t] /\ change'[t] = change[t]
            /\ todo'[t] = todo[t] /\ retiring'[t] = retiring[t]
            /\ \A k \in Keys : lock[k] = t => lock'[k] = t
  BY <1>1, ForgetLeaves
<1>3. \A t \in Sessions : Attached(t) \subseteq Keys /\ retiring[t] \subseteq Keys
  BY DEF Attached, TypeOK
<1>4. ChangesDisjoint' /\ IdleHoldsNothing' /\ NoRetiredReference'
  BY <1>1, <1>2
     DEF Fenced, ChangesDisjoint, IdleHoldsNothing, NoRetiredReference, Idle
<1>5. AttachedIsFenced'
  BY <1>1, <1>2, <1>3 DEF Fenced, AttachedIsFenced, Attached
<1>6. RetiringIsUnnamed'
  BY <1>1, <1>2, <1>3 DEF Fenced, RetiringIsUnnamed, Seen
<1>7. QED BY <1>4, <1>5, <1>6 DEF Fenced

----------------------------------------------------------------------------
(* Bytes. *)

\* Bytes come only under a key that is not retired and go only under one that
\* is, and a retired key stays so.
LEMMA EmptiedStep == IInv /\ [Next]_vars => Emptied'
<1> SUFFICES ASSUME IInv, [Next]_vars PROVE Emptied'
  OBVIOUS
<1> USE DEF fileVars, storeVars, uploadVars, txVars
<1>a. TypeOK /\ RemovedIsRetired /\ RemovedStaysEmpty
  BY DEF IInv, Emptied
<1>1. ASSUME UNCHANGED <<bytes, removed>>,
             \A k \in Keys : /\ retired[k] # "no" => retired'[k] # "no"
                             /\ retired'[k] = "done" => retired[k] = "done"
      PROVE  Emptied'
  BY <1>a, <1>1 DEF Emptied, RemovedIsRetired, RemovedStaysEmpty, TypeOK
<1>2. ASSUME NEW k \in Keys, Retire(k), UNCHANGED <<bytes, removed>>
      PROVE  Emptied'
  BY <1>a, <1>1, <1>2 DEF Retire, TypeOK
<1>3. ASSUME NEW s \in Sessions, SessionStep(s) PROVE Emptied'
  <2>1. CASE Commit(s)
    BY <1>a, <1>1, <2>1 DEF Commit, TypeOK
  <2>2. CASE ~Commit(s)
    BY <1>1, <1>3, <2>2
       DEF SessionStep, ChangeRows, AttachUpload, Begin, Locking, LockAttached,
           LockDetached, Abort
  <2>3. QED BY <2>1, <2>2
<1>4. ASSUME NEW k \in Uploads, UploadStep(k) PROVE Emptied'
  <2>1. CASE Reconcile(k)
    BY <1>1, <1>2, <2>1, FileAssumption DEF Reconcile
  <2>2. CASE ~Reconcile(k)
    BY <1>1, <1>4, <2>2
       DEF UploadStep, Register, SendBytes, HearStored, SendAttach,
           HearAttached, HearError, Complete, Die
  <2>3. QED BY <2>1, <2>2
<1>5. ASSUME NEW k \in Keys, KeyStep(k) PROVE Emptied'
  <2>1. CASE ProviderStores(k)
    BY <1>a, <2>1
       DEF ProviderStores, Storable, Emptied, RemovedIsRetired,
           RemovedStaysEmpty
  <2>2. CASE RemoveBytes(k)
    BY <1>a, <2>2
       DEF RemoveBytes, Emptied, RemovedIsRetired, RemovedStaysEmpty
  <2>3. CASE CompleteRetirement(k)
    BY <1>a, <2>3
       DEF CompleteRetirement, Emptied, RemovedIsRetired, RemovedStaysEmpty,
           TypeOK
  <2>4. CASE Promote(k)
    BY <1>1, <1>2, <2>4 DEF Promote
  <2>5. QED BY <1>5, <2>1, <2>2, <2>3, <2>4 DEF KeyStep
<1>6. CASE UNCHANGED vars
  BY <1>1, <1>6 DEF vars
<1>7. QED BY <1>3, <1>4, <1>5, <1>6 DEF Next

----------------------------------------------------------------------------
(* The theorems. *)

\* Nothing is locked, changed or retired at the start.
LEMMA InitHolds == Init => IInv
<1> SUFFICES ASSUME Init PROVE IInv
  OBVIOUS
<1>1. TypeOK
  <2>1. path \in [Rows -> Keys \cup {NoKey}]
    BY FileAssumption DEF Init
  <2>2. change \in [Sessions -> [Rows -> Keys \cup {NoKey}]]
    <3>1. [r \in Rows |-> NoKey] \in [Rows -> Keys \cup {NoKey}]
      OBVIOUS
    <3>2. QED BY <3>1 DEF Init
  <2>3. QED BY <2>1, <2>2, FileAssumption DEF Init, TypeOK
<1>2. Fenced
  <2>1. ChangesDisjoint /\ IdleHoldsNothing
    BY DEF Init, ChangesDisjoint, IdleHoldsNothing
  <2>2. AttachedIsFenced /\ RetiringIsUnnamed
    BY DEF Init, AttachedIsFenced, Attached, RetiringIsUnnamed
  <2>3. NoRetiredReference
    BY <1>1 DEF Init, NoRetiredReference, TypeOK
  <2>4. QED BY <2>1, <2>2, <2>3 DEF Fenced
<1>3. Emptied
  BY DEF Init, Emptied, RemovedIsRetired, RemovedStaysEmpty
<1>4. QED BY <1>1, <1>2, <1>3 DEF IInv

\* Every step keeps the locks' promises.
LEMMA FencedStep == IInv /\ [Next]_vars => Fenced'
<1> SUFFICES ASSUME IInv, [Next]_vars PROVE Fenced'
  OBVIOUS
<1> USE DEF fileVars, storeVars, uploadVars, txVars
<1>a. TypeOK /\ Fenced
  BY DEF IInv
<1>1. ASSUME NEW s \in Sessions, SessionStep(s) PROVE Fenced'
  <2>1. ASSUME NEW R \in SUBSET Rows, NEW new \in [R -> Keys \cup {NoKey}],
               ChangeRows(s, R, new)
        PROVE  Fenced'
    BY <1>a, <2>1, BeginKeeps DEF ChangeRows
  <2>2. ASSUME NEW r \in Rows, NEW k \in Uploads, AttachUpload(s, r, k)
        PROVE  Fenced'
    <3>1. [q \in {r} |-> k] \in [{r} -> Keys \cup {NoKey}]
      BY FileAssumption
    <3>2. Begin(s, {r}, [q \in {r} |-> k], k)
      BY <2>2 DEF AttachUpload
    <3>3. QED BY <1>a, <3>1, <3>2, BeginKeeps
  <2>3. ASSUME NEW k \in Keys, LockAttached(s, k) \/ LockDetached(s, k)
        PROVE  Fenced'
    BY <1>a, <2>3, LockKeeps
  <2>4. CASE Commit(s)
    BY <1>a, <2>4, CommitKeeps
  <2>5. CASE Abort(s)
    BY <1>a, <2>5, AbortKeeps
  <2>6. QED
    BY <1>1, <2>1, <2>2, <2>3, <2>4, <2>5 DEF SessionStep, Locking
<1>2. ASSUME NEW k \in Uploads, UploadStep(k) PROVE Fenced'
  <2>1. CASE Reconcile(k) /\ ~Named(k)
    BY <1>a, <2>1, RetireKeeps, FileAssumption DEF Reconcile, Retire
  <2>2. CASE ~(Reconcile(k) /\ ~Named(k))
    BY <1>a, <1>2, <2>2, FenceUndisturbed
       DEF UploadStep, Register, SendBytes, HearStored, SendAttach,
           HearAttached, HearError, Reconcile, Complete, Die
  <2>3. QED BY <2>1, <2>2
<1>3. ASSUME NEW k \in Keys, KeyStep(k) PROVE Fenced'
  <2>1. CASE Promote(k) /\ ~Named(k)
    BY <1>a, <2>1, RetireKeeps DEF Promote, Retire
  <2>2. CASE CompleteRetirement(k)
    <3>1. \A j \in Keys : retired[j] = "no" => retired'[j] = "no"
      BY <1>a, <2>2 DEF CompleteRetirement, TypeOK
    <3>2. \A t \in Sessions : Attached(t) \subseteq Keys
      BY <1>a DEF Attached, TypeOK
    <3>3. AttachedIsFenced'
      BY <1>a, <2>2, <3>1, <3>2
         DEF CompleteRetirement, Fenced, AttachedIsFenced, Attached
    <3>4. NoRetiredReference'
      BY <1>a, <2>2, <3>1
         DEF CompleteRetirement, Fenced, NoRetiredReference, TypeOK
    <3>5. ChangesDisjoint' /\ IdleHoldsNothing' /\ RetiringIsUnnamed'
      BY <1>a, <2>2
         DEF CompleteRetirement, Fenced, ChangesDisjoint, IdleHoldsNothing,
             RetiringIsUnnamed, Idle, Seen
    <3>6. QED BY <3>3, <3>4, <3>5 DEF Fenced
  <2>3. CASE ~(Promote(k) /\ ~Named(k)) /\ ~CompleteRetirement(k)
    BY <1>a, <1>3, <2>3, FenceUndisturbed
       DEF KeyStep, ProviderStores, RemoveBytes, Promote
  <2>4. QED BY <2>1, <2>2, <2>3
<1>4. CASE UNCHANGED vars
  BY <1>a, <1>4, FenceUndisturbed DEF vars
<1>5. QED BY <1>1, <1>2, <1>3, <1>4 DEF Next

\* The invariant is inductive.
THEOREM Inductive == Spec => []IInv
<1>1. IInv /\ [Next]_vars => IInv'
  BY TypeStep, FencedStep, EmptiedStep DEF IInv
<1>2. QED BY <1>1, InitHolds, PTL DEF Spec

\* The types of the tables and of what the transactions hold; an advisory
\* lock ends with its transaction.
THEOREM TypeCorrect == Spec => []TypeOK
<1>1. IInv => TypeOK
  BY DEF IInv
<1>2. QED BY <1>1, Inductive, PTL

\* No counseling or document row ever names a retired key, whichever of the
\* triggers, the reconciliation and the drain meet on it.
THEOREM Unretired == Spec => []NoRetiredReference
<1>1. IInv => NoRetiredReference
  BY DEF IInv, Fenced
<1>2. QED BY <1>1, Inductive, PTL

\* A file whose removal is recorded never comes back, however late the
\* provider runs an upload.
THEOREM Emptiness == Spec => []RemovedStaysEmpty
<1>1. IInv => RemovedStaysEmpty
  BY DEF IInv, Emptied
<1>2. QED BY <1>1, Inductive, PTL

-----------------------------------------------------------------------------
(* What is answered for, and in which order keys are locked. *)

\* A row of the Person under whose prefix the key lies names it.
OwnNamed(k) == \E r \in Rows : path[r] = k /\ Owned(r, k)

\* A key that somebody answers for once its upload is over.
Accounted(k) == OwnNamed(k) \/ retired[k] # "no" \/ k \in held

BytesAccounted == \A k \in bytes \cap Ours : k \in registered \/ Accounted(k)

\* What an upload believes settled was attached, held or retired since.
SettledAccounted ==
    \A k \in Uploads : k \in attached \/ upload[k] = "settled" => Accounted(k)

\* Only rows of the right Person are made to name a key.
NamesOwned ==
    /\ \A r \in Rows : path[r] \in Uploads => Owned(r, path[r])
    /\ \A s \in Sessions : \A r \in changing[s] :
           change[s][r] # NoKey => Owned(r, change[s][r])

\* The insert that attaches an upload makes a row name it.
RequestAttaches ==
    \A s \in Sessions : request[s] # NoKey => request[s] \in Attached(s)

\* A key that a transaction detaches is yet to be locked, attached again by it,
\* or retired, held or found retired.
DetachedIsSeenTo ==
    \A s \in Sessions : \A r \in changing[s] :
        Owned(r, path[r]) =>
            \/ path[r] \in todo[s] \cup Attached(s) \cup retiring[s] \cup holding[s]
            \/ retired[path[r]] # "no"

\* Each transaction locks its keys in ascending order.
LocksAscend == \A s \in Sessions, k \in Keys : lock[k] = s => \A j \in todo[s] : k < j

OpenAreFinite == IsFiniteSet({s \in Sessions : ~Idle(s)})

\* What open transactions owe.
TxInv == NamesOwned /\ RequestAttaches /\ DetachedIsSeenTo /\ LocksAscend /\ OpenAreFinite

\* What is answered for.
Answered == BytesAccounted /\ SettledAccounted

----------------------------------------------------------------------------
(* Transactions. *)

\* Steps that touch no transaction and return no key from retirement.
LEMMA TxAside ==
    ASSUME TypeOK, TxInv, UNCHANGED <<path, txVars>>,
           \A k \in Keys : retired[k] # "no" => retired'[k] # "no"
    PROVE  TxInv'
<1>1. NamesOwned' /\ RequestAttaches' /\ LocksAscend' /\ OpenAreFinite'
  BY DEF TxInv, txVars, NamesOwned, RequestAttaches, Attached, LocksAscend, OpenAreFinite, Idle
<1>2. DetachedIsSeenTo'
  <2>1. \A r \in Rows : Owned(r, path[r]) => path[r] \in Keys
    BY DEF TypeOK, Owned
  <2>2. \A s \in Sessions : changing[s] \subseteq Rows
    BY DEF TypeOK
  <2> QED
    BY <2>1, <2>2 DEF TxInv, txVars, DetachedIsSeenTo, Attached
<1> QED
  BY <1>1, <1>2 DEF TxInv

\* A statement has every key it attaches or detaches yet to lock.
LEMMA TxBegin ==
    ASSUME TypeOK, Fenced, TxInv, NEW s \in Sessions, NEW R \in SUBSET Rows,
           NEW new \in [R -> Keys \cup {NoKey}], NEW k \in Uploads \cup {NoKey},
           Begin(s, R, new, k), k # NoKey => \E r \in R : new[r] = k
    PROVE  TxInv'
<1>1. /\ Idle(s) /\ UNCHANGED <<path, retired, retiring, holding, lock>>
      /\ \A r \in R : new[r] # NoKey => Owned(r, new[r])
  BY DEF Begin, fileVars
<1>2. /\ changing'[s] = R /\ request'[s] = k
      /\ change'[s] = [r \in Rows |-> IF r \in R THEN new[r] ELSE NoKey]
      /\ todo'[s] = ({new[r] : r \in R} \ {NoKey})
                        \cup {path[r] : r \in {q \in R : Owned(q, path[q])}}
      /\ \A t \in Sessions \ {s} :
            /\ changing'[t] = changing[t] /\ request'[t] = request[t]
            /\ change'[t] = change[t] /\ todo'[t] = todo[t]
  BY DEF Begin, TypeOK
<1>3. NamesOwned'
  BY <1>1, <1>2 DEF TxInv, NamesOwned, Owned
<1>4. RequestAttaches'
  <2>1. \A t \in Sessions \ {s} : Attached(t)' = Attached(t)
    BY <1>2 DEF Attached
  <2>2. k # NoKey => k \in Attached(s)'
    BY <1>2 DEF Attached
  <2> QED
    BY <1>2, <2>1, <2>2 DEF TxInv, RequestAttaches
<1>5. DetachedIsSeenTo'
  <2>1. ASSUME NEW r \in R, Owned(r, path[r]) PROVE path[r] \in todo'[s]
    BY <1>2, <2>1
  <2>2. \A t \in Sessions \ {s} : Attached(t)' = Attached(t)
    BY <1>2 DEF Attached
  <2> QED
    BY <1>1, <1>2, <2>1, <2>2 DEF TxInv, DetachedIsSeenTo, Owned
<1>6. LocksAscend'
  BY <1>1, <1>2 DEF TypeOK, TxInv, LocksAscend
<1>7. OpenAreFinite'
  <2>1. {t \in Sessions : ~Idle(t)'} \subseteq {t \in Sessions : ~Idle(t)} \cup {s}
    BY <1>2 DEF Idle
  <2>2. IsFiniteSet({t \in Sessions : ~Idle(t)} \cup {s})
    BY FS_AddElement DEF TxInv, OpenAreFinite
  <2> QED
    BY <2>1, <2>2, FS_Subset DEF OpenAreFinite
<1> QED
  BY <1>3, <1>4, <1>5, <1>6, <1>7 DEF TxInv

\* The least key is locked first; a detached one is retired or held.
LEMMA TxLock ==
    ASSUME TypeOK, TxInv, NEW s \in Sessions, NEW k \in Keys,
           LockAttached(s, k) \/ LockDetached(s, k)
    PROVE  TxInv'
<1>1. /\ k \in todo[s] /\ \A j \in todo[s] : k <= j
      /\ lock[k] \notin Sessions
      /\ lock' = [lock EXCEPT ![k] = s]
      /\ todo' = [todo EXCEPT ![s] = @ \ {k}]
      /\ UNCHANGED <<path, retired, changing, change, request>>
  BY FileAssumption
     DEF LockAttached, LockDetached, TakeLock, NextKey, LockFree, fileVars
<1>2. \A t \in Sessions : /\ Attached(t)' = Attached(t)
                          /\ retiring[t] \subseteq retiring'[t]
                          /\ holding[t] \subseteq holding'[t]
  <2>1. CASE LockAttached(s, k)
    BY <1>1, <2>1 DEF LockAttached, Attached
  <2>2. CASE LockDetached(s, k)
    BY <1>1, <2>2 DEF LockDetached, Attached, TypeOK
  <2> QED
    BY <2>1, <2>2
<1>3. k \in Attached(s) \cup retiring'[s] \cup holding'[s] \/ retired[k] # "no"
  <2>1. CASE LockAttached(s, k)
    BY <2>1 DEF LockAttached
  <2>2. CASE LockDetached(s, k)
    BY <2>2 DEF LockDetached, Holds, TypeOK
  <2> QED
    BY <2>1, <2>2
<1>4. NamesOwned' /\ RequestAttaches' /\ OpenAreFinite'
  BY <1>1, <1>2 DEF TxInv, NamesOwned, RequestAttaches, OpenAreFinite, Idle
<1>5. DetachedIsSeenTo'
  <2>1. ASSUME NEW t \in Sessions, NEW r \in changing[t], Owned(r, path[r])
        PROVE  \/ path[r] \in todo'[t] \cup Attached(t) \cup retiring'[t] \cup holding'[t]
               \/ retired[path[r]] # "no"
    <3>1. \/ path[r] \in todo[t] \cup Attached(t) \cup retiring[t] \cup holding[t]
          \/ retired[path[r]] # "no"
      BY <2>1 DEF TxInv, DetachedIsSeenTo
    <3>2. CASE t = s /\ path[r] = k
      BY <1>3, <3>2
    <3>3. CASE ~(t = s /\ path[r] = k)
      BY <1>1, <1>2, <3>1, <3>3 DEF TypeOK
    <3> QED
      BY <3>2, <3>3
  <2> QED
    BY <1>1, <1>2, <2>1 DEF DetachedIsSeenTo, Owned
<1>6. LocksAscend'
  <2>1. \A j \in todo'[s] : k < j
    BY <1>1, FileAssumption DEF TypeOK
  <2> QED
    BY <1>1, <2>1 DEF TypeOK, TxInv, LocksAscend
<1> QED
  BY <1>4, <1>5, <1>6 DEF TxInv

\* The end of a transaction, which may have changed its own rows.
LEMMA TxEnd ==
    ASSUME TypeOK, Fenced, TxInv, NEW s \in Sessions, Forget(s), lock' = Unlocked(s),
           \A r \in Rows : path'[r] = path[r] \/ (r \in changing[s] /\ path'[r] = change[s][r]),
           \A k \in Keys : retired[k] # "no" => retired'[k] # "no"
    PROVE  TxInv'
<1>1. /\ changing'[s] = {} /\ todo'[s] = {} /\ request'[s] = NoKey
      /\ \A t \in Sessions \ {s} :
            /\ changing'[t] = changing[t] /\ change'[t] = change[t]
            /\ todo'[t] = todo[t] /\ request'[t] = request[t]
            /\ retiring'[t] = retiring[t] /\ holding'[t] = holding[t]
            /\ Attached(t)' = Attached(t)
  BY DEF TypeOK, Forget, Attached
<1>2. \A k \in Keys, t \in Sessions : lock'[k] = t => lock[k] = t
  BY FileAssumption DEF TypeOK, Unlocked
<1>3. NamesOwned'
  <2>1. ASSUME NEW r \in Rows, path'[r] \in Uploads PROVE Owned(r, path'[r])
    BY <2>1, FileAssumption DEF TxInv, NamesOwned
  <2> QED
    BY <1>1, <2>1 DEF TxInv, NamesOwned, Owned
<1>4. RequestAttaches'
  BY <1>1 DEF TxInv, RequestAttaches
<1>5. DetachedIsSeenTo'
  <2>1. ASSUME NEW t \in Sessions \ {s}, NEW r \in changing[t]
        PROVE  path'[r] = path[r] /\ (Owned(r, path[r]) => path[r] \in Keys)
    <3>1. r \in Rows /\ r \notin changing[s]
      BY DEF TypeOK, Fenced, ChangesDisjoint
    <3> QED
      BY <3>1 DEF TypeOK, Owned
  <2> QED
    BY <1>1, <2>1 DEF TxInv, DetachedIsSeenTo, Owned
<1>6. LocksAscend'
  BY <1>1, <1>2 DEF TxInv, LocksAscend
<1>7. OpenAreFinite'
  <2>1. {t \in Sessions : ~Idle(t)'} \subseteq {t \in Sessions : ~Idle(t)}
    BY <1>1 DEF Idle
  <2> QED
    BY <2>1, FS_Subset DEF TxInv, OpenAreFinite
<1> QED
  BY <1>3, <1>4, <1>5, <1>6, <1>7 DEF TxInv

\* Every step keeps what transactions have to see to.
LEMMA TxStep == IInv /\ TxInv /\ [Next]_vars => TxInv'
<1> SUFFICES ASSUME IInv, TxInv, [Next]_vars PROVE TxInv'
  OBVIOUS
<1>a. TypeOK /\ Fenced
  BY DEF IInv
<1>1. ASSUME NEW s \in Sessions, SessionStep(s) PROVE TxInv'
  <2>1. ASSUME NEW R \in SUBSET Rows, NEW new \in [R -> Keys \cup {NoKey}],
               ChangeRows(s, R, new)
        PROVE  TxInv'
    BY <1>a, <2>1, TxBegin DEF ChangeRows
  <2>2. ASSUME NEW r \in Rows, NEW k \in Uploads, AttachUpload(s, r, k) PROVE TxInv'
    <3>1. [q \in {r} |-> k] \in [{r} -> Keys \cup {NoKey}] /\ {r} \in SUBSET Rows
      BY FileAssumption
    <3>2. Begin(s, {r}, [q \in {r} |-> k], k)
      BY <2>2 DEF AttachUpload
    <3>3. \E x \in {r} : [q \in {r} |-> k][x] = k
      OBVIOUS
    <3> QED
      BY <1>a, <3>1, <3>2, <3>3, TxBegin
  <2>3. ASSUME NEW k \in Keys, LockAttached(s, k) \/ LockDetached(s, k) PROVE TxInv'
    BY <1>a, <2>3, TxLock
  <2>4. CASE Commit(s)
    <3>1. Forget(s) /\ lock' = Unlocked(s)
      BY <2>4 DEF Commit
    <3>2. \A r \in Rows : path'[r] = path[r] \/ (r \in changing[s] /\ path'[r] = change[s][r])
      BY <2>4 DEF Commit, Seen
    <3>3. \A k \in Keys : retired[k] # "no" => retired'[k] # "no"
      BY <2>4 DEF Commit
    <3> QED
      BY <1>a, <3>1, <3>2, <3>3, TxEnd
  <2>5. CASE Abort(s)
    <3>1. Forget(s) /\ lock' = Unlocked(s) /\ UNCHANGED <<path, retired>>
      BY <2>5 DEF Abort, fileVars
    <3> QED
      BY <1>a, <3>1, TxEnd
  <2> QED
    BY <1>1, <2>1, <2>2, <2>3, <2>4, <2>5 DEF SessionStep, Locking
<1>2. ASSUME NEW k \in Uploads, UploadStep(k) PROVE TxInv'
  <2>1. UNCHANGED <<path, txVars>> /\ (UNCHANGED retired \/ Retire(k))
    BY <1>2 DEF UploadStep, Register, SendBytes, HearStored, SendAttach, HearAttached,
                HearError, Reconcile, Complete, Die, fileVars
  <2> QED
    BY <1>a, <2>1, TxAside DEF Retire, TypeOK
<1>3. ASSUME NEW k \in Keys, KeyStep(k) PROVE TxInv'
  <2>1. /\ UNCHANGED <<path, txVars>>
        /\ \/ UNCHANGED retired \/ Retire(k)
           \/ retired' = [retired EXCEPT ![k] = IF @ = "pending" THEN "done" ELSE @]
    BY <1>3 DEF KeyStep, ProviderStores, RemoveBytes, CompleteRetirement, Promote, fileVars
  <2> QED
    BY <1>a, <2>1, TxAside DEF Retire, TypeOK
<1>4. CASE UNCHANGED vars
  BY <1>a, <1>4, TxAside DEF vars, fileVars
<1> QED
  BY <1>1, <1>2, <1>3, <1>4 DEF Next

----------------------------------------------------------------------------
(* Keys somebody answers for. *)

\* A commit takes a key's last own name only when it has retired or held it.
LEMMA CommitAccounts ==
    ASSUME TypeOK, Fenced, TxInv, NEW s \in Sessions, Commit(s), NEW k \in Keys
    PROVE  /\ Accounted(k) => Accounted(k)'
           /\ k \in Attached(s) => Accounted(k)'
<1>1. /\ todo[s] = {} /\ path' = [r \in Rows |-> Seen(s, r)]
      /\ retired' = [j \in Keys |-> IF j \in retiring[s] /\ retired[j] = "no"
                                    THEN "pending" ELSE retired[j]]
      /\ held' = (held \cup holding[s]) \ retiring[s]
  BY DEF Commit
<1>2. retired[k] # "no" \/ k \in retiring[s] => retired'[k] # "no"
  BY <1>1
<1>3. k \in held \cup holding[s] => Accounted(k)'
  BY <1>1, <1>2 DEF Accounted
<1>4. ASSUME k \in Attached(s) PROVE OwnNamed(k)'
  <2>1. PICK r \in changing[s] : change[s][r] = k /\ k # NoKey
    BY <1>4 DEF Attached
  <2>2. r \in Rows /\ Owned(r, k) /\ path'[r] = k
    BY <1>1, <2>1 DEF TypeOK, TxInv, NamesOwned, Seen
  <2> QED
    BY <2>2 DEF OwnNamed, Owned
<1>5. ASSUME OwnNamed(k) PROVE Accounted(k)'
  <2>1. PICK r \in Rows : path[r] = k /\ Owned(r, k)
    BY <1>5 DEF OwnNamed
  <2>2. CASE r \notin changing[s]
    BY <1>1, <2>1, <2>2 DEF Accounted, OwnNamed, Owned, Seen
  <2>3. CASE r \in changing[s]
    <3>1. k \in Attached(s) \cup retiring[s] \cup holding[s] \/ retired[k] # "no"
      BY <1>1, <2>1, <2>3 DEF TxInv, DetachedIsSeenTo
    <3> QED
      BY <1>2, <1>3, <1>4, <3>1 DEF Accounted
  <2> QED
    BY <2>2, <2>3
<1> QED
  BY <1>2, <1>3, <1>4, <1>5 DEF Accounted

\* Whoever takes a key off hold retires it.
LEMMA RetireAccounts ==
    ASSUME TypeOK, NEW k \in Keys, Retire(k), UNCHANGED path, NEW j \in Keys
    PROVE  (Accounted(j) => Accounted(j)') /\ Accounted(k)'
BY DEF TypeOK, Retire, Accounted, OwnNamed, Owned

\* A key that is answered for stays so.
LEMMA AccountedStays ==
    ASSUME IInv, TxInv, [Next]_vars, NEW k \in Keys, Accounted(k)
    PROVE  Accounted(k)'
<1> USE DEF fileVars
<1>a. TypeOK /\ Fenced
  BY DEF IInv
<1>b. UNCHANGED <<path, retired, held>> => Accounted(k)'
  BY DEF Accounted, OwnNamed, Owned
<1>1. ASSUME NEW s \in Sessions, SessionStep(s) PROVE Accounted(k)'
  <2>1. CASE Commit(s)
    BY <1>a, <2>1, CommitAccounts
  <2>2. CASE ~Commit(s)
    BY <1>1, <1>b, <2>2
       DEF SessionStep, ChangeRows, AttachUpload, Begin, Locking, LockAttached, LockDetached, Abort
  <2> QED
    BY <2>1, <2>2
<1>2. ASSUME NEW j \in Uploads, UploadStep(j) PROVE Accounted(k)'
  <2>1. UNCHANGED path /\ (UNCHANGED <<retired, held>> \/ Retire(j))
    BY <1>2 DEF UploadStep, Register, SendBytes, HearStored, SendAttach, HearAttached,
                HearError, Reconcile, Complete, Die
  <2> QED
    BY <1>a, <1>b, <2>1, RetireAccounts, FileAssumption
<1>3. ASSUME NEW j \in Keys, KeyStep(j) PROVE Accounted(k)'
  <2>1. CASE CompleteRetirement(j)
    BY <1>a, <2>1 DEF CompleteRetirement, TypeOK, Accounted, OwnNamed, Owned
  <2>2. CASE ~CompleteRetirement(j)
    <3>1. UNCHANGED path /\ (UNCHANGED <<retired, held>> \/ Retire(j))
      BY <1>3, <2>2 DEF KeyStep, ProviderStores, RemoveBytes, Promote, StillHeld
    <3> QED
      BY <1>a, <1>b, <3>1, RetireAccounts
  <2> QED
    BY <2>1, <2>2
<1>4. CASE UNCHANGED vars
  BY <1>4, <1>b DEF vars
<1> QED
  BY <1>1, <1>2, <1>3, <1>4 DEF Next

\* Keys of bytes, registrations and settled uploads beside what stays
\* accounted for.
LEMMA AnsweredAside ==
    ASSUME IInv, TxInv, Answered, [Next]_vars,
           bytes' \subseteq bytes, registered \subseteq registered',
           attached' \subseteq attached,
           \A k \in Uploads : upload'[k] = "settled" => k \in attached \/ upload[k] = "settled"
    PROVE  Answered'
<1>1. Ours \subseteq Keys /\ Uploads \subseteq Keys
  BY FileAssumption DEF Ours, Owned
<1>2. Ours' = Ours
  BY DEF Ours, Owned
<1>3. BytesAccounted'
  BY <1>1, <1>2, AccountedStays DEF Answered, BytesAccounted
<1>4. SettledAccounted'
  BY <1>1, AccountedStays DEF Answered, SettledAccounted
<1> QED
  BY <1>3, <1>4 DEF Answered

\* Every step keeps an answer for the bytes that are there.
LEMMA AnsweredStep == IInv /\ TxInv /\ Answered /\ [Next]_vars => Answered'
<1> SUFFICES ASSUME IInv, TxInv, Answered, [Next]_vars PROVE Answered'
  OBVIOUS
<1> USE DEF storeVars, uploadVars
<1>a. TypeOK /\ Fenced
  BY DEF IInv
<1>b. Ours \subseteq Keys /\ Uploads \subseteq Keys /\ Ours' = Ours
  BY FileAssumption DEF Ours, Owned
<1>1. ASSUME NEW s \in Sessions, SessionStep(s) PROVE Answered'
  <2>1. CASE Commit(s)
    <3>1. UNCHANGED <<bytes, registered, upload>> /\ attached' = attached \cup ({request[s]} \ {NoKey})
      BY <2>1 DEF Commit
    <3>2. BytesAccounted'
      BY <1>b, <3>1, AccountedStays DEF Answered, BytesAccounted
    <3>3. \A k \in Uploads : k \in attached' \ attached => Accounted(k)'
      <4>1. request[s] # NoKey => request[s] \in Attached(s)
        BY DEF TxInv, RequestAttaches
      <4>2. \A k \in Keys : k \in Attached(s) => Accounted(k)'
        BY <1>a, <2>1, CommitAccounts
      <4> QED
        BY <1>b, <3>1, <4>1, <4>2
    <3>4. SettledAccounted'
      BY <1>b, <3>1, <3>3, AccountedStays DEF Answered, SettledAccounted
    <3> QED
      BY <3>2, <3>4 DEF Answered
  <2>2. CASE ~Commit(s)
    <3>1. UNCHANGED <<bytes, registered, upload, attached>>
      BY <1>1, <2>2
         DEF SessionStep, ChangeRows, AttachUpload, Begin, Locking, LockAttached, LockDetached, Abort
    <3> QED
      BY <3>1, AnsweredAside
  <2> QED
    BY <2>1, <2>2
<1>2. ASSUME NEW k \in Uploads, UploadStep(k) PROVE Answered'
  <2>1. CASE Reconcile(k)
    <3>1. Accounted(k)'
      <4>1. CASE Named(k)
        <5>1. OwnNamed(k) /\ UNCHANGED <<path>>
          BY <2>1, <4>1 DEF Reconcile, Named, OwnNamed, TxInv, NamesOwned
        <5> QED
          BY <5>1 DEF Accounted, OwnNamed, Owned
      <4>2. CASE ~Named(k)
        BY <1>a, <1>b, <2>1, <4>2, RetireAccounts DEF Reconcile
      <4> QED
        BY <4>1, <4>2
    <3>2. /\ UNCHANGED <<bytes, registered, attached>>
          /\ \A j \in Uploads \ {k} : upload'[j] = upload[j]
      BY <1>a, <2>1 DEF Reconcile, TypeOK
    <3>3. BytesAccounted'
      BY <1>b, <3>2, AccountedStays DEF Answered, BytesAccounted
    <3>4. SettledAccounted'
      BY <1>b, <3>1, <3>2, AccountedStays DEF Answered, SettledAccounted
    <3> QED
      BY <3>3, <3>4 DEF Answered
  <2>2. CASE Complete(k)
    <3>1. /\ Accounted(k) /\ UNCHANGED <<bytes, attached>> /\ registered' = registered \ {k}
          /\ \A j \in Uploads : upload'[j] = "settled" => upload[j] = "settled"
      BY <1>a, <2>2 DEF Complete, TypeOK, Answered, SettledAccounted
    <3>2. BytesAccounted'
      BY <1>b, <3>1, AccountedStays DEF Answered, BytesAccounted
    <3>3. SettledAccounted'
      BY <1>b, <3>1, AccountedStays DEF Answered, SettledAccounted
    <3> QED
      BY <3>2, <3>3 DEF Answered
  <2>3. CASE ~Reconcile(k) /\ ~Complete(k)
    <3>1. UNCHANGED <<bytes, attached>> /\ registered \subseteq registered'
      BY <1>2, <2>3 DEF UploadStep, Register, SendBytes, HearStored, SendAttach,
                        HearAttached, HearError, Die
    <3>2. \A j \in Uploads : upload'[j] = "settled" => j \in attached \/ upload[j] = "settled"
      BY <1>a, <1>2, <2>3 DEF TypeOK, UploadStep, Register, SendBytes, HearStored, SendAttach,
                              HearAttached, HearError, Die
    <3> QED
      BY <3>1, <3>2, AnsweredAside
  <2> QED
    BY <2>1, <2>2, <2>3
<1>3. ASSUME NEW k \in Keys, KeyStep(k) PROVE Answered'
  <2>1. CASE ProviderStores(k)
    <3>1. /\ UNCHANGED <<registered, upload, attached>>
          /\ bytes' \subseteq bytes \cup (registered \cap {k})
      BY <2>1 DEF ProviderStores, Storable
    <3>2. BytesAccounted'
      BY <1>b, <3>1, AccountedStays DEF Answered, BytesAccounted
    <3>3. SettledAccounted'
      BY <1>b, <3>1, AccountedStays DEF Answered, SettledAccounted
    <3> QED
      BY <3>2, <3>3 DEF Answered
  <2>2. CASE ~ProviderStores(k)
    <3>1. UNCHANGED <<registered, upload, attached>> /\ bytes' \subseteq bytes
      BY <1>3, <2>2 DEF KeyStep, RemoveBytes, CompleteRetirement, Promote
    <3> QED
      BY <3>1, AnsweredAside
  <2> QED
    BY <2>1, <2>2
<1>4. CASE UNCHANGED vars
  BY <1>4, AnsweredAside DEF vars
<1> QED
  BY <1>1, <1>2, <1>3, <1>4 DEF Next

----------------------------------------------------------------------------
(* The theorems. *)

\* The invariant is inductive on top of the fences.
THEOREM KeysInductive == Spec => [](IInv /\ TxInv /\ Answered)
<1>1. Init => TxInv /\ Answered
  <2> SUFFICES ASSUME Init PROVE TxInv /\ Answered
    OBVIOUS
  <2>1. NamesOwned
    BY FileAssumption DEF Init, NamesOwned
  <2>2. RequestAttaches /\ DetachedIsSeenTo /\ LocksAscend
    BY FileAssumption DEF Init, RequestAttaches, DetachedIsSeenTo, LocksAscend
  <2>3. OpenAreFinite
    <3>1. {s \in Sessions : ~Idle(s)} = {}
      BY DEF Init, Idle
    <3> QED
      BY <3>1, FS_EmptySet DEF OpenAreFinite
  <2>4. BytesAccounted
    <3>1. ASSUME NEW k \in bytes \cap Ours PROVE OwnNamed(k)
      BY <3>1 DEF Init, Ours, OwnNamed
    <3> QED
      BY <3>1 DEF BytesAccounted, Accounted
  <2>5. SettledAccounted
    BY DEF Init, SettledAccounted
  <2> QED
    BY <2>1, <2>2, <2>3, <2>4, <2>5 DEF TxInv, Answered
<1>2. IInv /\ TxInv /\ Answered /\ [Next]_vars => (TxInv /\ Answered)'
  BY TxStep, AnsweredStep
<1> QED
  BY <1>1, <1>2, Inductive, PTL DEF Spec

\* Stored bytes are never forgotten, however uploads, changes of rows, the
\* reconciliation and the drain meet on their key and wherever a server dies.
THEOREM Remembered == Spec => []NoBytesForgotten
<1>1. IInv /\ TxInv /\ Answered => NoBytesForgotten
  <2> SUFFICES ASSUME IInv, Answered, NEW k \in bytes \cap Ours
               PROVE  Named(k) \/ k \in registered \/ retired[k] = "pending" \/ k \in held
    BY DEF NoBytesForgotten
  <2>1. k \in Keys /\ retired[k] # "done" /\ retired[k] \in {"no", "pending", "done"}
    BY FileAssumption DEF IInv, TypeOK, Emptied, RemovedStaysEmpty, Ours, Owned
  <2>2. k \in registered \/ Accounted(k)
    BY DEF Answered, BytesAccounted
  <2> QED
    BY <2>1, <2>2 DEF Accounted, OwnNamed, Named
<1> QED
  BY <1>1, KeysInductive, PTL

\* Of finite sets there is one that contains none of the others.
LEMMA LeastSubset ==
    ASSUME NEW S, IsFiniteSet(S), NEW T, T \subseteq SUBSET S, T # {}
    PROVE  \E x \in T : \A y \in T : y \subseteq x => y = x
<1>1. IsWellFoundedOn(StrictSubsetOrdering(S), SUBSET S)
  BY FS_StrictSubsetOrderingWellFounded, FS_FiniteSubsetsOfFinite
<1>2. PICK x \in T : \A y \in T : ~(<<y, x>> \in StrictSubsetOrdering(S))
  BY <1>1, WFMin
<1>3. \A y \in T : y \subseteq x => y = x
  BY <1>2 DEF StrictSubsetOrdering
<1> QED
  BY <1>3

\* No transactions wait for each other's keys in a circle, for any number of
\* sessions: along a chain of waits the awaited keys ascend, so the last one's
\* holder does not wait.
THEOREM NoCycle == Spec => []NoLockCycle
<1>1. IInv /\ TxInv => NoLockCycle
  <2> SUFFICES ASSUME IInv, TxInv, NEW S \in (SUBSET Sessions) \ {{}},
                      \A s \in S : \E t \in S \ {s} : WaitsFor(s, t)
               PROVE  FALSE
    BY DEF NoLockCycle
  <2> DEFINE Awaits(s, k) == k \in Keys /\ NextKey(s, k)
             Later(s) == {t \in S : \E j, k \in Keys : Awaits(s, j) /\ Awaits(t, k) /\ j < k}
  <2>1. IsFiniteSet(S)
    <3>1. \A s \in S : ~Idle(s)
      BY DEF IInv, Fenced, IdleHoldsNothing, WaitsFor, NextKey
    <3> QED
      BY <3>1, FS_Subset DEF TxInv, OpenAreFinite
  <2>2. PICK s \in S : \A t \in S : Later(t) \subseteq Later(s) => Later(t) = Later(s)
    <3> DEFINE laters == {Later(s) : s \in S}
    <3>0. \A s \in S : Later(s) \in SUBSET S
      OBVIOUS
    <3> HIDE DEF Later
    <3>1. laters \subseteq SUBSET S /\ laters # {}
      BY <3>0
    <3> HIDE DEF laters
    <3>2. PICK x \in laters : \A y \in laters : y \subseteq x => y = x
      BY <2>1, <3>1, LeastSubset
    <3>3. PICK s \in S : x = Later(s)
      BY DEF laters
    <3>4. \A t \in S : Later(t) \in laters
      BY DEF laters
    <3> QED
      BY <3>2, <3>3, <3>4
  <2>3. PICK t \in S : WaitsFor(s, t)
    OBVIOUS
  <2>4. PICK j \in Keys : NextKey(s, j) /\ lock[j] = t
    BY <2>3 DEF WaitsFor
  <2>5. PICK k \in Keys : NextKey(t, k)
    BY DEF WaitsFor
  <2>6. j < k
    BY <2>4, <2>5 DEF TxInv, LocksAscend, NextKey
  <2>7. \A u \in Sessions, m, n \in Keys : Awaits(u, m) /\ Awaits(u, n) => m = n
    BY FileAssumption DEF NextKey
  <2>8. t \in Later(s)
    BY <2>4, <2>5, <2>6
  <2>9. t \notin Later(t)
    BY <2>7, FileAssumption
  <2>10. Later(t) \subseteq Later(s)
    <3>1. ASSUME NEW u \in Later(t) PROVE u \in Later(s)
      <4>1. PICK m, n \in Keys : Awaits(t, m) /\ Awaits(u, n) /\ m < n
        OBVIOUS
      <4>2. m = k
        BY <2>5, <2>7, <4>1
      <4>3. j < n
        BY <2>6, <4>1, <4>2, FileAssumption
      <4> QED
        BY <2>4, <4>1, <4>3
    <3> QED
      BY <3>1
  <2> QED
    BY <2>2, <2>8, <2>9, <2>10
<1> QED
  BY <1>1, KeysInductive, PTL

----------------------------------------------------------------------------
(* The refinement of FileCustody. *)

\* The keys that a transaction takes from rows of their Person and gives to none.
Detached(s) == {path[r] : r \in {q \in changing[s] : Owned(q, path[q])}} \ Attached(s)

\* Each is yet to be locked, or to be retired or held at the commit.
DetachedIsSplit ==
    \A s \in Sessions : Detached(s) = (todo[s] \ Attached(s)) \cup retiring[s] \cup holding[s]

\* What a transaction changes stays as it found it.
ChangesReal == \A s \in Sessions : \A r \in changing[s] : change[s][r] # path[r]

OpenIsRegistered == \A k \in Uploads : upload[k] \notin {"new", "over"} => k \in registered

CustodyInv == DetachedIsSplit /\ ChangesReal /\ OpenIsRegistered

\* Steps beside the transactions and the rows.
LEMMA SplitAside ==
    ASSUME DetachedIsSplit, ChangesReal, UNCHANGED <<path, changing, change, todo, retiring, holding>>
    PROVE  DetachedIsSplit' /\ ChangesReal'
BY DEF DetachedIsSplit, ChangesReal, Detached, Attached, Owned

\* A statement has yet to lock all that it detaches.
LEMMA SplitBegin ==
    ASSUME TypeOK, DetachedIsSplit, ChangesReal, NEW s \in Sessions, NEW R \in SUBSET Rows,
           NEW new \in [R -> Keys \cup {NoKey}], NEW k \in Uploads \cup {NoKey},
           Begin(s, R, new, k)
    PROVE  DetachedIsSplit' /\ ChangesReal'
<1>1. /\ Idle(s) /\ UNCHANGED <<path, retiring, holding>>
      /\ \A r \in R : new[r] # path[r]
  BY DEF Begin, fileVars
<1>2. /\ changing'[s] = R
      /\ change'[s] = [r \in Rows |-> IF r \in R THEN new[r] ELSE NoKey]
      /\ todo'[s] = ({new[r] : r \in R} \ {NoKey})
                        \cup {path[r] : r \in {q \in R : Owned(q, path[q])}}
      /\ \A t \in Sessions \ {s} :
            changing'[t] = changing[t] /\ change'[t] = change[t] /\ todo'[t] = todo[t]
  BY DEF Begin, TypeOK
<1>3. retiring[s] = {} /\ holding[s] = {}
  BY <1>1 DEF DetachedIsSplit, Detached, Idle
<1>4. Attached(s)' = {new[r] : r \in R} \ {NoKey}
  BY <1>2 DEF Attached
<1>5. Detached(s)' = {path[r] : r \in {q \in R : Owned(q, path[q])}} \ Attached(s)'
  BY <1>1, <1>2 DEF Detached, Owned
<1>6. \A t \in Sessions \ {s} : Attached(t)' = Attached(t) /\ Detached(t)' = Detached(t)
  BY <1>1, <1>2 DEF Detached, Attached, Owned
<1>7. DetachedIsSplit'
  BY <1>1, <1>2, <1>3, <1>4, <1>5, <1>6 DEF DetachedIsSplit
<1>8. ChangesReal'
  BY <1>1, <1>2 DEF ChangesReal
<1> QED
  BY <1>7, <1>8

\* A detached key is named by a committed row, so it is not retired when its
\* lock is taken, and a key that is not to be retired is held.
LEMMA SplitLock ==
    ASSUME TypeOK, NoRetiredReference, DetachedIsSplit, ChangesReal,
           NEW s \in Sessions, NEW k \in Keys, LockAttached(s, k) \/ LockDetached(s, k)
    PROVE  DetachedIsSplit' /\ ChangesReal'
<1>1. /\ k \in todo[s] /\ todo' = [todo EXCEPT ![s] = @ \ {k}]
      /\ UNCHANGED <<path, changing, change>>
  BY DEF LockAttached, LockDetached, TakeLock, NextKey, fileVars
<1>2. /\ \A t \in Sessions : Attached(t)' = Attached(t) /\ Detached(t)' = Detached(t)
      /\ \A t \in Sessions \ {s} : todo'[t] = todo[t]
      /\ todo'[s] = todo[s] \ {k}
  BY <1>1 DEF Detached, Attached, Owned, TypeOK
<1>3. CASE LockAttached(s, k)
  <2>1. k \in Attached(s) /\ UNCHANGED <<retiring, holding>>
    BY <1>3 DEF LockAttached
  <2> QED
    BY <1>1, <1>2, <2>1 DEF DetachedIsSplit, ChangesReal
<1>4. CASE LockDetached(s, k)
  <2>1. k \notin Attached(s) /\ k \in Detached(s)
    BY <1>1, <1>4 DEF LockDetached, DetachedIsSplit
  <2>2. retired[k] = "no"
    <3>1. PICK r \in changing[s] : path[r] = k /\ Owned(r, path[r])
      BY <2>1 DEF Detached
    <3> QED
      BY <3>1 DEF TypeOK, NoRetiredReference, Owned
  <2>3. /\ \A t \in Sessions \ {s} : retiring'[t] = retiring[t] /\ holding'[t] = holding[t]
        /\ retiring'[s] \cup holding'[s] = retiring[s] \cup holding[s] \cup {k}
    BY <1>4, <2>2 DEF LockDetached, Holds, TypeOK
  <2>4. DetachedIsSplit'
    <3>1. Detached(s) = (todo'[s] \ Attached(s)) \cup retiring'[s] \cup holding'[s]
      BY <1>1, <1>2, <2>1, <2>3 DEF DetachedIsSplit
    <3> QED
      BY <1>2, <2>3, <3>1 DEF DetachedIsSplit
  <2> QED
    BY <1>1, <2>4 DEF ChangesReal
<1> QED
  BY <1>3, <1>4

\* A transaction ends and perhaps changed its rows, which no other is changing.
LEMMA SplitEnd ==
    ASSUME TypeOK, Fenced, DetachedIsSplit, ChangesReal, NEW s \in Sessions, Forget(s),
           \A r \in Rows \ changing[s] : path'[r] = path[r]
    PROVE  DetachedIsSplit' /\ ChangesReal'
<1>1. /\ changing'[s] = {} /\ todo'[s] = {} /\ retiring'[s] = {} /\ holding'[s] = {}
      /\ \A t \in Sessions \ {s} :
            /\ changing'[t] = changing[t] /\ change'[t] = change[t] /\ todo'[t] = todo[t]
            /\ retiring'[t] = retiring[t] /\ holding'[t] = holding[t]
  BY DEF TypeOK, Forget
<1>2. \A t \in Sessions \ {s} : \A r \in changing[t] : path'[r] = path[r]
  BY DEF TypeOK, Fenced, ChangesDisjoint
<1>3. \A t \in Sessions \ {s} : Attached(t)' = Attached(t) /\ Detached(t)' = Detached(t)
  BY <1>1, <1>2 DEF Detached, Attached, Owned
<1>4. Detached(s)' = {}
  BY <1>1 DEF Detached
<1>5. DetachedIsSplit'
  BY <1>1, <1>3, <1>4 DEF DetachedIsSplit
<1>6. ChangesReal'
  BY <1>1, <1>2 DEF ChangesReal
<1> QED
  BY <1>5, <1>6

\* Every step keeps what the refinement needs.
LEMMA CustodyStep == IInv /\ CustodyInv /\ [Next]_vars => CustodyInv'
<1> SUFFICES ASSUME IInv, CustodyInv, [Next]_vars PROVE CustodyInv'
  OBVIOUS
<1>a. TypeOK /\ Fenced /\ NoRetiredReference /\ DetachedIsSplit /\ ChangesReal
  BY DEF IInv, Fenced, CustodyInv
<1>1. ASSUME NEW s \in Sessions, SessionStep(s) PROVE DetachedIsSplit' /\ ChangesReal'
  <2>1. ASSUME NEW R \in SUBSET Rows, NEW new \in [R -> Keys \cup {NoKey}],
               ChangeRows(s, R, new)
        PROVE  DetachedIsSplit' /\ ChangesReal'
    BY <1>a, <2>1, SplitBegin DEF ChangeRows
  <2>2. ASSUME NEW r \in Rows, NEW k \in Uploads, AttachUpload(s, r, k)
        PROVE  DetachedIsSplit' /\ ChangesReal'
    <3>1. [q \in {r} |-> k] \in [{r} -> Keys \cup {NoKey}] /\ {r} \in SUBSET Rows
      BY FileAssumption
    <3>2. Begin(s, {r}, [q \in {r} |-> k], k)
      BY <2>2 DEF AttachUpload
    <3> QED
      BY <1>a, <3>1, <3>2, SplitBegin
  <2>3. ASSUME NEW k \in Keys, LockAttached(s, k) \/ LockDetached(s, k)
        PROVE  DetachedIsSplit' /\ ChangesReal'
    BY <1>a, <2>3, SplitLock
  <2>4. CASE Commit(s) \/ Abort(s)
    <3>1. Forget(s) /\ \A r \in Rows \ changing[s] : path'[r] = path[r]
      BY <2>4 DEF Commit, Abort, Seen, fileVars
    <3> QED
      BY <1>a, <3>1, SplitEnd
  <2> QED
    BY <1>1, <2>1, <2>2, <2>3, <2>4 DEF SessionStep, Locking
<1>2. ASSUME (\E k \in Uploads : UploadStep(k)) \/ (\E k \in Keys : KeyStep(k)) \/ UNCHANGED vars
      PROVE  DetachedIsSplit' /\ ChangesReal'
  <2>1. UNCHANGED <<path, txVars>>
    BY <1>2 DEF UploadStep, Register, SendBytes, HearStored, SendAttach, HearAttached,
                HearError, Reconcile, Complete, Die, KeyStep, ProviderStores, RemoveBytes,
                CompleteRetirement, Promote, vars, fileVars
  <2> QED
    BY <1>a, <2>1, SplitAside DEF txVars
<1>3. OpenIsRegistered'
  <2>1. CASE \E k \in Uploads : UploadStep(k)
    <3>1. PICK k \in Uploads : UploadStep(k)
      BY <2>1
    <3>2. CASE Register(k) \/ Complete(k)
      BY <1>a, <3>2 DEF CustodyInv, OpenIsRegistered, TypeOK, Register, Complete
    <3>3. CASE ~(Register(k) \/ Complete(k))
      <4>1. UNCHANGED registered
        BY <3>1, <3>3 DEF UploadStep, SendBytes, HearStored, SendAttach, HearAttached,
                          HearError, Reconcile, Die, storeVars
      <4>2. /\ \A j \in Uploads \ {k} : upload'[j] = upload[j]
            /\ upload'[k] = "over" \/ upload[k] \notin {"new", "over"}
        BY <1>a, <3>1, <3>3 DEF UploadStep, SendBytes, HearStored, SendAttach, HearAttached,
                                HearError, Reconcile, Die, TypeOK
      <4> QED
        BY <4>1, <4>2 DEF CustodyInv, OpenIsRegistered
    <3> QED
      BY <3>2, <3>3
  <2>2. CASE ~(\E k \in Uploads : UploadStep(k))
    <3>1. UNCHANGED <<upload, registered>>
      BY <2>2 DEF Next, SessionStep, ChangeRows, AttachUpload, Begin, Locking, LockAttached,
                  LockDetached, Commit, Abort, KeyStep, ProviderStores, RemoveBytes,
                  CompleteRetirement, Promote, vars, storeVars, uploadVars
    <3> QED
      BY <3>1 DEF CustodyInv, OpenIsRegistered
  <2> QED
    BY <2>1, <2>2
<1> QED
  BY <1>1, <1>2, <1>3 DEF Next, CustodyInv

\* What a transaction gives up, it retires or holds in the step that commits it.
LEMMA CommitChanges ==
    ASSUME TypeOK, Fenced, TxInv, CustodyInv, NEW s \in Sessions, Commit(s)
    PROVE  Custody!Change
<1>1. /\ todo[s] = {} /\ path' = [r \in Rows |-> Seen(s, r)]
      /\ retired' = [k \in Keys |-> IF k \in retiring[s] /\ retired[k] = "no"
                                    THEN "pending" ELSE retired[k]]
      /\ held' = (held \cup holding[s]) \ retiring[s]
      /\ UNCHANGED <<registered, bytes>>
  BY DEF Commit, storeVars
<1>2. changing[s] \subseteq Rows /\ retiring[s] \subseteq Keys
  BY DEF TypeOK
<1>3. Custody!Changed = changing[s]
  BY <1>1, <1>2 DEF Custody!Changed, CustodyInv, ChangesReal, Seen
<1>4. \A r \in changing[s] : path'[r] = change[s][r]
  BY <1>1, <1>2 DEF Seen
<1>5. Custody!GivenUp = retiring[s] \cup holding[s]
  <2>1. Detached(s) = retiring[s] \cup holding[s]
    BY <1>1 DEF CustodyInv, DetachedIsSplit
  <2>2. Custody!GivenUp = Detached(s)
    BY <1>3, <1>4 DEF Custody!GivenUp, Detached, Attached, Owned
  <2> QED
    BY <2>1, <2>2
<1>6. path' \in [Rows -> Keys \cup {NoKey}]
  BY <1>1 DEF TypeOK, Seen
<1>7. \A r \in changing[s] :
          path'[r] = NoKey \/ (Owned(r, path'[r]) /\ retired[path'[r]] = "no")
  <2>1. \A r \in changing[s] : change[s][r] # NoKey => change[s][r] \in Attached(s)
    BY DEF Attached
  <2> QED
    BY <1>1, <1>4, <2>1 DEF TxInv, NamesOwned, Fenced, AttachedIsFenced
<1>8. \A r \in Rows : path'[r] \notin retiring[s]
  BY <1>1 DEF Fenced, RetiringIsUnnamed
<1>9. retired' = Custody!Ended(retiring[s])
  BY <1>1 DEF Custody!Ended
<1>10. held' = (held \cup Custody!GivenUp) \ retiring[s]
  BY <1>1, <1>5
<1>11. retiring[s] \in SUBSET Custody!GivenUp
  BY <1>5
<1> QED
  BY <1>1, <1>3, <1>6, <1>7, <1>8, <1>9, <1>10, <1>11 DEF Custody!Change

\* A key retired by a statement of its own.
LEMMA RetireRetires ==
    ASSUME TypeOK, NEW k \in Keys, Retire(k), ~Named(k), k \in held \cup registered,
           UNCHANGED <<path, registered, bytes>>
    PROVE  Custody!Retire(k)
<1>1. retired' = Custody!Ended({k})
  BY DEF TypeOK, Retire, Custody!Ended
<1> QED
  BY <1>1 DEF Retire, Named, Custody!Retire

\* Every step is one of the promise or keeps what it speaks of.
LEMMA StepCustody ==
    ASSUME IInv, TxInv, Answered, CustodyInv, [Next]_vars
    PROVE  [Custody!Next]_<<path, retired, held, registered, bytes>>
<1> USE DEF fileVars, storeVars
<1>a. TypeOK /\ Fenced /\ Uploads \subseteq Keys
  BY FileAssumption DEF IInv
<1>1. ASSUME NEW s \in Sessions, SessionStep(s)
      PROVE  Custody!Next \/ UNCHANGED <<path, retired, held, registered, bytes>>
  <2>1. CASE Commit(s)
    BY <1>a, <2>1, CommitChanges DEF Custody!Next
  <2>2. CASE ~Commit(s)
    BY <1>1, <2>2
       DEF SessionStep, ChangeRows, AttachUpload, Begin, Locking, LockAttached, LockDetached, Abort
  <2> QED
    BY <2>1, <2>2
<1>2. ASSUME NEW k \in Uploads, UploadStep(k)
      PROVE  Custody!Next \/ UNCHANGED <<path, retired, held, registered, bytes>>
  <2>1. CASE Register(k)
    BY <1>a, <2>1 DEF Register, Custody!Expect, Custody!Next
  <2>2. CASE Reconcile(k)
    <3>1. k \in registered
      BY <2>2 DEF Reconcile, CustodyInv, OpenIsRegistered
    <3> QED
      BY <1>a, <2>2, <3>1, RetireRetires DEF Reconcile, Custody!Next
  <2>3. CASE Complete(k)
    <3>1. Custody!Settle(k)
      BY <2>3 DEF Complete, Answered, SettledAccounted, Accounted, OwnNamed, Custody!Settle
    <3> QED
      BY <1>a, <3>1 DEF Custody!Next
  <2>4. CASE ~(Register(k) \/ Reconcile(k) \/ Complete(k))
    BY <1>2, <2>4 DEF UploadStep, SendBytes, HearStored, SendAttach, HearAttached,
                      HearError, Die
  <2> QED
    BY <2>1, <2>2, <2>3, <2>4
<1>3. ASSUME NEW k \in Keys, KeyStep(k)
      PROVE  Custody!Next \/ UNCHANGED <<path, retired, held, registered, bytes>>
  <2>1. CASE ProviderStores(k)
    BY <2>1 DEF ProviderStores, Storable, Custody!Arrive, Custody!Next
  <2>2. CASE RemoveBytes(k)
    BY <2>2 DEF RemoveBytes, Custody!Remove, Custody!Next
  <2>3. CASE CompleteRetirement(k)
    <3>1. retired[k] # "no" /\ k \notin bytes
      BY <2>3 DEF CompleteRetirement, IInv, Emptied, RemovedIsRetired
    <3>2. CASE retired[k] = "pending"
      BY <2>3, <3>1, <3>2 DEF CompleteRetirement, Custody!Finish, Custody!Next
    <3>3. CASE retired[k] # "pending"
      BY <1>a, <2>3, <3>3 DEF CompleteRetirement, TypeOK
    <3> QED
      BY <3>2, <3>3
  <2>4. CASE Promote(k)
    BY <1>a, <2>4, RetireRetires DEF Promote, StillHeld, Custody!Next
  <2> QED
    BY <1>3, <2>1, <2>2, <2>3, <2>4 DEF KeyStep
<1>4. CASE UNCHANGED vars
  BY <1>4 DEF vars
<1> QED
  BY <1>1, <1>2, <1>3, <1>4 DEF Next

\* File retirement implements the promise of FileCustody, for any rows, keys,
\* uploads and sessions: at each commit every key that it gives up is retired,
\* when no row names it then, or held, whatever the others committed while it
\* took its locks; and nothing retired is named, filled or registered again.
THEOREM Implements == Spec => ImplementsCustody
<1>1. Init => CustodyInv
  BY DEF Init, CustodyInv, DetachedIsSplit, Detached, ChangesReal, OpenIsRegistered
<1>2. Init => Custody!Init
  BY DEF Init, Custody!Init
<1>3. IInv /\ CustodyInv /\ [Next]_vars => CustodyInv'
  BY CustodyStep
<1>4. IInv /\ TxInv /\ Answered /\ CustodyInv /\ [Next]_vars
          => [Custody!Next]_<<path, retired, held, registered, bytes>>
  BY StepCustody
<1> QED
  BY <1>1, <1>2, <1>3, <1>4, KeysInductive, PTL DEF Spec, ImplementsCustody, Custody!Spec

=============================================================================
