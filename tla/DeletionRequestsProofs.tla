----------------------- MODULE DeletionRequestsProofs -----------------------
(***************************************************************************)
(* Safety of the Personnel lifecycle with its deletion requests, for any   *)
(* number of People, records, actors and overlapping requests.  Two things *)
(* carry it.  Times are taken once, so an archived record has the time of  *)
(* its Person exactly when the Person's archive swept it.  And what a      *)
(* transaction holds stays as it found it: the pending deletion request    *)
(* under review, and the target of the one being submitted.                *)
(***************************************************************************)
EXTENDS DeletionRequests, TLAPS

\* The requests that carry the time they will write.
StampedOps == {"archive", "archiving", "stash", "review", "reviewing"}
Stamped(q) == job[q].op \in StampedOps

\* Nothing is archived later than now.
Timed ==
    /\ \A p \in People : person[p] <= clock
    /\ \A r \in Records : at[r] <= clock

\* No row has the time a request is going to write, and no other request has.
FreshStamps ==
    \A q \in Requests : Stamped(q) =>
        /\ job[q].stamp <= clock
        /\ \A p \in People : person[p] # job[q].stamp
        /\ \A r \in Records : at[r] # job[q].stamp
        /\ \A x \in Requests : Stamped(x) /\ job[x].stamp = job[q].stamp => x = q

\* A record has the time of its archived Person when that archive swept it.
SweptByEvent ==
    \A r \in Records : r \in swept <=> Archived(at[r]) /\ at[r] = person[PersonOf[r]]

\* The nightly run's cutoff was right when it was taken.
PurgeCutoff ==
    \A q \in Requests : job[q].op = "purge" => job[q].cutoff + Retention <= clock

\* Only reviews archive for a deletion request.
ArchiveDirect == \A q \in Requests : job[q].op = "archive" => job[q].ask = Direct

\* the deletion request a slot holds locked
Reviews(q) == job[q].op = "reviewing" \/ (job[q].op = "archiving" /\ job[q].ask # Direct)

\* A deletion request under review is pending and held by one review.
ReviewHolds ==
    \A q \in Requests : Reviews(q) =>
        /\ ask[job[q].ask] = "pending"
        /\ \A x \in Requests : Reviews(x) /\ job[x].ask = job[q].ask => x = q

\* What an archive has locked is there until it commits, and what a deletion
\* request asks to archive is its target.
ArchiveHolds ==
    \A q \in Requests : job[q].op = "archiving" =>
        /\ Present(person[job[q].person])
        /\ job[q].ask # Direct => TargetOf[job[q].ask] = job[q].person

\* A deletion request being submitted is new and submitted once.
SubmitsNew ==
    \A q \in Requests : job[q].op \in {"submit", "submitting"} =>
        /\ ask[job[q].ask] = "new"
        /\ \A x \in Requests :
            job[x].op \in {"submit", "submitting"} /\ job[x].ask = job[q].ask => x = q

\* Past its check a submission has the target to itself.
SubmitHolds ==
    \A q \in Requests : job[q].op = "submitting" =>
        /\ \A b \in Asks : TargetOf[b] = TargetOf[job[q].ask] => ask[b] # "pending"
        /\ \A x \in Requests :
            job[x].op = "submitting" /\ TargetOf[job[x].ask] = TargetOf[job[q].ask] => x = q

IInv ==
    /\ TypeOK
    /\ OnePendingPerTarget
    /\ Timed
    /\ FreshStamps
    /\ SweptByEvent
    /\ PurgeCutoff
    /\ ArchiveDirect
    /\ ReviewHolds
    /\ ArchiveHolds
    /\ SubmitsNew
    /\ SubmitHolds

-----------------------------------------------------------------------------
(* Types *)

\* The empty slot is a job.
LEMMA IdleJob == Idle \in Jobs /\ Idle.op = "idle"
  BY DEF Jobs, LifecycleJobs, Idle

\* A slot that is given a well-formed request stays well formed.
LEMMA SlotType ==
    ASSUME TypeOK, NEW q \in Requests, NEW j \in Jobs, job' = [job EXCEPT ![q] = j]
    PROVE  job' \in [Requests -> Jobs]
  BY DEF TypeOK

\* What an archive, a restore or a review remembers.
LEMMA HolderShape ==
    ASSUME TypeOK, NEW q \in Requests
    PROVE  /\ job[q].op \in {"archive", "archiving"} =>
                /\ job[q].who \in Actors /\ job[q].person \in People
                /\ job[q].stamp \in Stamps /\ job[q].ask \in Asks \cup {Direct}
                /\ job[q] = [op |-> job[q].op, who |-> job[q].who, person |-> job[q].person,
                             stamp |-> job[q].stamp, ask |-> job[q].ask]
           /\ job[q].op \in {"restore", "restoring"} =>
                /\ job[q].who \in Actors /\ job[q].person \in People
                /\ job[q] = [op |-> job[q].op, who |-> job[q].who, person |-> job[q].person]
           /\ job[q].op \in {"review", "reviewing"} =>
                /\ job[q].who \in Actors /\ job[q].ask \in AsksAbout(People) /\ job[q].stamp \in Stamps
                /\ job[q] = [op |-> job[q].op, who |-> job[q].who, ask |-> job[q].ask,
                             stamp |-> job[q].stamp]
<1>1. job[q] \in Jobs
  BY DEF TypeOK
<1>2. QED BY <1>1 DEF Jobs, LifecycleJobs, Idle, AsksAbout

\* What the other requests remember.
LEMMA WriterShape ==
    ASSUME TypeOK, NEW q \in Requests
    PROVE  /\ job[q].op \in {"remove", "purge"} => job[q].person \in People
           /\ job[q].op = "purge" => job[q].cutoff \in Int
           /\ job[q].op = "stash" => job[q].rec \in Records /\ job[q].stamp \in Stamps
           /\ job[q].op = "status" => job[q].rec \in FollowUps
           /\ job[q].op = "delete" => job[q].rec \in Records /\ job[q].seen \in Stamps
           /\ job[q].op \in {"deny", "approve", "cancel"} => job[q].ask \in Asks
           /\ job[q].op = "approve" => TargetOf[job[q].ask] \in Files
           /\ job[q].op \in {"submit", "submitting"} =>
                job[q].ask \in Asks /\ job[q] = [op |-> job[q].op, ask |-> job[q].ask]
<1>1. job[q] \in Jobs
  BY DEF TypeOK
<1>2. QED BY <1>1 DEF Jobs, LifecycleJobs, Idle, AsksAbout

-----------------------------------------------------------------------------
(* What a step can do to the slots *)

\* Slot q gets j: a time newly taken or carried along, a deletion request
\* newly locked, a target newly checked.
JobMoves(q, j) ==
    /\ job' = [job EXCEPT ![q] = j]
    /\ j.op \in {"archive", "stash", "review"} =>
        clock' = clock + 1 /\ j.stamp = clock' /\ UNCHANGED <<person, at, ask>>
    /\ j.op \in {"archiving", "reviewing"} =>
        /\ Stamped(q) /\ j.stamp = job[q].stamp
        /\ UNCHANGED <<person, at, clock, ask>>
    /\ j.op = "archive" => j.ask = Direct
    /\ j.op = "archiving" =>
        /\ job[q].op \in {"archive", "reviewing"} /\ j.ask = job[q].ask
        /\ Present(person[j.person])
        /\ job[q].op = "reviewing" => j.person = TargetOf[j.ask]
    /\ j.op = "reviewing" => AskFree(j.ask) /\ ask[j.ask] = "pending"
    /\ j.op = "purge" => j.cutoff + Retention <= clock /\ UNCHANGED clock
    /\ j.op = "submit" =>
        /\ ask[j.ask] = "new" /\ UNCHANGED ask
        /\ \A x \in Requests : job[x].op \in {"submit", "submitting"} => job[x].ask # j.ask
    /\ j.op = "submitting" =>
        /\ job[q].op = "submit" /\ j.ask = job[q].ask /\ UNCHANGED ask
        /\ TargetFree(TargetOf[j.ask])
        /\ \A b \in Asks : TargetOf[b] = TargetOf[j.ask] => ask[b] # "pending"

\* A request that ends moves like that.
LEMMA FinishMoves ==
    ASSUME NEW q \in Requests, Finish(q)
    PROVE  \E j \in Jobs : JobMoves(q, j)
<1>1. JobMoves(q, Idle)
  BY IdleJob DEF Finish, JobMoves
<1>2. QED BY <1>1, IdleJob

\* So does one that begins in the lifecycle.
LEMMA LifecycleBegins ==
    ASSUME TypeOK, NEW q \in Requests, UNCHANGED ask,
           \/ \E u \in Actors, p \in People :
                BeginArchive(q, u, p) \/ BeginRestore(q, u, p) \/ BeginRemove(q, u, p)
           \/ \E p \in People : BeginPurge(q, p)
           \/ \E r \in Records : BeginStash(q, r) \/ BeginDelete(q, r)
           \/ \E r \in FollowUps, b \in BOOLEAN : BeginStatus(q, r, b)
    PROVE  \E j \in Jobs : JobMoves(q, j)
<1>0. clock \in Int /\ MaxClock \in Nat /\ Retention \in Nat
  BY LifecycleAssumption DEF TypeOK, LifecycleTypeOK, Stamps
<1>1. ASSUME NEW u \in Actors, NEW p \in People, BeginArchive(q, u, p)
      PROVE  \E j \in Jobs : JobMoves(q, j)
  <2> DEFINE j == [op |-> "archive", who |-> u, person |-> p, stamp |-> clock', ask |-> Direct]
  <2>1. clock' \in Stamps
    BY <1>0, <1>1 DEF BeginArchive, TakeTime, TypeOK, LifecycleTypeOK, Stamps
  <2>2. j \in Jobs
    BY <2>1 DEF Jobs, LifecycleJobs
  <2>3. JobMoves(q, j)
    BY <1>1 DEF BeginArchive, TakeTime, Start, JobMoves
  <2>4. QED BY <2>2, <2>3
<1>2. ASSUME NEW u \in Actors, NEW p \in People, BeginRestore(q, u, p) \/ BeginRemove(q, u, p)
      PROVE  \E j \in Jobs : JobMoves(q, j)
  <2>1. /\ [op |-> "restore", who |-> u, person |-> p] \in Jobs
        /\ [op |-> "remove", person |-> p] \in Jobs
    BY DEF Jobs, LifecycleJobs
  <2>2. CASE BeginRestore(q, u, p)
    <3>1. JobMoves(q, [op |-> "restore", who |-> u, person |-> p])
      BY <2>2 DEF BeginRestore, Start, JobMoves
    <3>2. QED BY <2>1, <3>1
  <2>3. CASE BeginRemove(q, u, p)
    <3>1. JobMoves(q, [op |-> "remove", person |-> p])
      BY <2>3 DEF BeginRemove, Start, JobMoves
    <3>2. QED BY <2>1, <3>1
  <2>4. QED BY <1>2, <2>2, <2>3
<1>3. ASSUME NEW p \in People, BeginPurge(q, p) PROVE \E j \in Jobs : JobMoves(q, j)
  <2> DEFINE j == [op |-> "purge", person |-> p, cutoff |-> clock - Retention]
  <2>1. j \in Jobs
    BY <1>0 DEF Jobs, LifecycleJobs
  <2>2. JobMoves(q, j)
    BY <1>0, <1>3 DEF BeginPurge, Start, JobMoves, lifecycle
  <2>3. QED BY <2>1, <2>2
<1>4. ASSUME NEW r \in Records, BeginStash(q, r) PROVE \E j \in Jobs : JobMoves(q, j)
  <2> DEFINE j == [op |-> "stash", rec |-> r, stamp |-> clock']
  <2>1. clock' \in Stamps
    BY <1>0, <1>4 DEF BeginStash, TakeTime, TypeOK, LifecycleTypeOK, Stamps
  <2>2. j \in Jobs
    BY <2>1 DEF Jobs, LifecycleJobs
  <2>3. JobMoves(q, j)
    BY <1>4 DEF BeginStash, TakeTime, Start, JobMoves
  <2>4. QED BY <2>2, <2>3
<1>5. ASSUME NEW r \in Records, BeginDelete(q, r) PROVE \E j \in Jobs : JobMoves(q, j)
  <2> DEFINE j == [op |-> "delete", rec |-> r, seen |-> at[r]]
  <2>1. at[r] \in Stamps
    BY <1>5 DEF BeginDelete, MayDelete, Archived, Active, Gone, Unborn, TypeOK, LifecycleTypeOK
  <2>2. j \in Jobs
    BY <2>1 DEF Jobs, LifecycleJobs
  <2>3. JobMoves(q, j)
    BY <1>5 DEF BeginDelete, Start, JobMoves
  <2>4. QED BY <2>2, <2>3
<1>6. ASSUME NEW r \in FollowUps, NEW b \in BOOLEAN, BeginStatus(q, r, b)
      PROVE  \E j \in Jobs : JobMoves(q, j)
  <2> DEFINE j == [op |-> "status", rec |-> r, done |-> b]
  <2>1. j \in Jobs
    BY DEF Jobs, LifecycleJobs
  <2>2. JobMoves(q, j)
    BY <1>6 DEF BeginStatus, Start, JobMoves
  <2>3. QED BY <2>1, <2>2
<1>7. QED BY <1>1, <1>2, <1>3, <1>4, <1>5, <1>6

\* So does one that begins with a deletion request.
LEMMA AskBegins ==
    ASSUME TypeOK, NEW q \in Requests, NEW a \in Asks,
           \/ BeginSubmit(q, a) \/ BeginCancel(q, a)
           \/ \E u \in Actors :
                BeginDeny(q, u, a) \/ BeginReview(q, u, a) \/ BeginCounselingApproval(q, u, a)
    PROVE  \E j \in Jobs : JobMoves(q, j)
<1>1. CASE BeginSubmit(q, a)
  <2>1. [op |-> "submit", ask |-> a] \in Jobs
    BY DEF Jobs
  <2>2. JobMoves(q, [op |-> "submit", ask |-> a])
    BY <1>1 DEF BeginSubmit, Start, JobMoves
  <2>3. QED BY <2>1, <2>2
<1>2. ASSUME NEW o \in {"cancel", "deny", "approve"}, Start(q, [op |-> o, ask |-> a]),
             o = "approve" => TargetOf[a] \in Files
      PROVE  \E j \in Jobs : JobMoves(q, j)
  <2>1. [op |-> o, ask |-> a] \in Jobs
    BY <1>2 DEF Jobs, AsksAbout
  <2>2. JobMoves(q, [op |-> o, ask |-> a])
    BY <1>2 DEF Start, JobMoves
  <2>3. QED BY <2>1, <2>2
<1>3. ASSUME NEW u \in Actors, BeginReview(q, u, a) PROVE \E j \in Jobs : JobMoves(q, j)
  <2> DEFINE j == [op |-> "review", who |-> u, ask |-> a, stamp |-> clock']
  <2>1. clock' \in Stamps
    BY <1>3, LifecycleAssumption DEF BeginReview, TakeTime, TypeOK, LifecycleTypeOK, Stamps
  <2>2. j \in Jobs
    BY <1>3, <2>1 DEF BeginReview, Jobs, AsksAbout
  <2>3. JobMoves(q, j)
    BY <1>3 DEF BeginReview, TakeTime, Start, JobMoves
  <2>4. QED BY <2>2, <2>3
<1>4. QED BY <1>1, <1>2, <1>3 DEF BeginCancel, BeginDeny, BeginCounselingApproval

\* So does one that gets its lock.
LEMMA LockMoves ==
    ASSUME TypeOK, NEW q \in Requests,
           (LockPerson(q) /\ UNCHANGED ask) \/ CheckSubmit(q) \/ LockAsk(q) \/ LockReviewed(q)
    PROVE  \E j \in Jobs : JobMoves(q, j)
<1>1. CASE LockPerson(q) /\ UNCHANGED ask /\ job[q].op = "archive"
  <2> DEFINE j == [op |-> "archiving", who |-> job[q].who, person |-> job[q].person,
                   stamp |-> job[q].stamp, ask |-> job[q].ask]
  <2>1. j \in Jobs
    BY <1>1, HolderShape DEF Jobs, LifecycleJobs
  <2>2. job[q] = [op |-> job[q].op, who |-> job[q].who, person |-> job[q].person,
                  stamp |-> job[q].stamp, ask |-> job[q].ask]
    BY <1>1, HolderShape
  <2>3. [job[q] EXCEPT !.op = "archiving"] = j
    BY <2>2
  <2>4. job' = [job EXCEPT ![q] = j]
    BY <1>1, <2>3 DEF LockPerson
  <2>5. JobMoves(q, j)
    BY <1>1, <2>4 DEF LockPerson, JobMoves, Stamped, StampedOps, lifecycle
  <2>6. QED BY <2>1, <2>5
<1>2. CASE LockPerson(q) /\ UNCHANGED ask /\ job[q].op = "restore"
  <2> DEFINE j == [op |-> "restoring", who |-> job[q].who, person |-> job[q].person]
  <2>1. j \in Jobs
    BY <1>2, HolderShape DEF Jobs, LifecycleJobs
  <2>2. job[q] = [op |-> job[q].op, who |-> job[q].who, person |-> job[q].person]
    BY <1>2, HolderShape
  <2>3. [job[q] EXCEPT !.op = "restoring"] = j
    BY <2>2
  <2>4. job' = [job EXCEPT ![q] = j]
    BY <1>2, <2>3 DEF LockPerson
  <2>5. JobMoves(q, j)
    BY <2>4 DEF JobMoves
  <2>6. QED BY <2>1, <2>5
<1>3. CASE CheckSubmit(q)
  <2> DEFINE j == [op |-> "submitting", ask |-> job[q].ask]
  <2>1. j \in Jobs
    BY <1>3, WriterShape DEF CheckSubmit, Jobs
  <2>2. job[q] = [op |-> job[q].op, ask |-> job[q].ask]
    BY <1>3, WriterShape DEF CheckSubmit
  <2>3. [job[q] EXCEPT !.op = "submitting"] = j
    BY <2>2
  <2>4. job' = [job EXCEPT ![q] = j]
    BY <1>3, <2>3 DEF CheckSubmit
  <2>5. JobMoves(q, j)
    BY <1>3, <2>4 DEF CheckSubmit, JobMoves
  <2>6. QED BY <2>1, <2>5
<1>4. CASE LockAsk(q)
  <2> DEFINE j == [op |-> "reviewing", who |-> job[q].who, ask |-> job[q].ask, stamp |-> job[q].stamp]
  <2>1. j \in Jobs
    BY <1>4, HolderShape DEF LockAsk, Jobs
  <2>2. job[q] = [op |-> job[q].op, who |-> job[q].who, ask |-> job[q].ask, stamp |-> job[q].stamp]
    BY <1>4, HolderShape DEF LockAsk
  <2>3. [job[q] EXCEPT !.op = "reviewing"] = j
    BY <2>2
  <2>4. job' = [job EXCEPT ![q] = j]
    BY <1>4, <2>3 DEF LockAsk
  <2>5. JobMoves(q, j)
    BY <1>4, <2>4 DEF LockAsk, StillPending, JobMoves, Stamped, StampedOps, lifecycle
  <2>6. QED BY <2>1, <2>5
<1>5. CASE LockReviewed(q)
  <2> DEFINE j == [op |-> "archiving", who |-> job[q].who, person |-> TargetOf[job[q].ask],
                   stamp |-> job[q].stamp, ask |-> job[q].ask]
  <2>1. /\ job[q].ask \in Asks /\ TargetOf[job[q].ask] \in People
        /\ job[q].who \in Actors /\ job[q].stamp \in Stamps
    BY <1>5, HolderShape DEF LockReviewed, AsksAbout
  <2>2. j \in Jobs
    BY <2>1 DEF Jobs, LifecycleJobs
  <2>4. job' = [job EXCEPT ![q] = j]
    BY <1>5 DEF LockReviewed
  <2>5. JobMoves(q, j)
    BY <1>5, <2>4 DEF LockReviewed, JobMoves, Stamped, StampedOps, lifecycle
  <2>6. QED BY <2>2, <2>5
<1>6. QED BY <1>1, <1>2, <1>3, <1>4, <1>5 DEF LockPerson

\* Every step moves one slot or none.
LEMMA JobEffect ==
    ASSUME TypeOK, [Next]_vars
    PROVE  UNCHANGED job \/ \E q \in Requests : \E j \in Jobs : JobMoves(q, j)
<1>1. ASSUME \/ UNCHANGED vars
             \/ \E u \in Actors : ChangeAccess(u)
             \/ \E p \in People : Pick(p)
             \/ \E r \in Records : Create(r) \/ Restore(r) \/ Expire(r)
      PROVE  UNCHANGED job
  BY <1>1 DEF vars, ChangeAccess, Pick, Create, Restore, Expire
<1>2. ASSUME NEW q \in Requests,
             \/ GiveUp(q) \/ CommitArchive(q) \/ CommitRestore(q)
             \/ Remove(q) \/ Purge(q) \/ Stash(q) \/ SetStatus(q) \/ Delete(q)
             \/ Submit(q) \/ Cancel(q) \/ Deny(q) \/ ApproveCounseling(q) \/ CommitReview(q)
      PROVE  Finish(q)
  BY <1>2 DEF GiveUp, CommitArchive, CommitRestore, Remove, Purge, Stash, SetStatus, Delete,
              Submit, Cancel, Deny, ApproveCounseling, CommitReview
<1>3. QED
  BY <1>1, <1>2, FinishMoves, LifecycleBegins, AskBegins, LockMoves DEF Next, LifecycleNext

-----------------------------------------------------------------------------
(* What a step can do to People and records *)

\* Nothing.
Rests == UNCHANGED <<person, at, done, swept>>

\* The archive in slot q commits.
Sweeps(q) ==
    /\ CommitArchive(q) \/ CommitReview(q)
    /\ job[q].op = "archiving"
    /\ Sweep(job[q].person, job[q].stamp)
    /\ Finish(q)

\* The restore in slot q commits.
Restores(q) == CommitRestore(q)

\* The Person of slot q's request goes.
Removes(q) ==
    /\ Remove(q) \/ Purge(q)

\* One record changes by itself, to the time of slot q's request if it is
\* archived.
Writes(r, x) ==
    /\ Write(r, x)
    /\ x \in {Active, Gone} \/ \E q \in Requests : Stamped(q) /\ x = job[q].stamp /\ Finish(q)
    /\ UNCHANGED <<person, clock>>
    /\ done' \subseteq done \cup FollowUps
    /\ (\E q \in Requests : job[q].op = "delete" /\ job'[q] = Idle) /\ x = Gone
        => \E q \in Requests : Delete(q) /\ job[q].rec = r

\* Every step is one of these.
LEMMA RowEffect ==
    ASSUME TypeOK, [Next]_vars
    PROVE  \/ Rests
           \/ \E q \in Requests : Sweeps(q) \/ Restores(q) \/ Removes(q)
           \/ \E r \in Records : Create(r) \/ \E x \in Stamps \cup {Active, Gone} : Writes(r, x)
<1>0. /\ FollowUps \subseteq Records /\ Files \subseteq Records
      /\ job \in [Requests -> Jobs] /\ done \subseteq FollowUps
  BY DEF Records, TypeOK, LifecycleTypeOK
<1>1. ASSUME \/ UNCHANGED vars
             \/ \E u \in Actors : ChangeAccess(u)
             \/ \E p \in People : Pick(p)
      PROVE  Rests
  BY <1>1 DEF vars, lifecycle, ChangeAccess, Pick, Rests
<1>3. ASSUME NEW q \in Requests,
             \/ GiveUp(q) \/ LockPerson(q)
             \/ \E u \in Actors, p \in People :
                BeginArchive(q, u, p) \/ BeginRestore(q, u, p) \/ BeginRemove(q, u, p)
             \/ \E p \in People : BeginPurge(q, p)
             \/ \E r \in Records : BeginStash(q, r) \/ BeginDelete(q, r)
             \/ \E r \in FollowUps, b \in BOOLEAN : BeginStatus(q, r, b)
      PROVE  Rests
  BY <1>3 DEF GiveUp, LockPerson, BeginArchive, BeginRestore, BeginRemove, BeginPurge, BeginStash,
              BeginDelete, BeginStatus, lifecycle, Rests
<1>4. ASSUME NEW q \in Requests,
             \/ \E a \in Asks :
                \/ BeginSubmit(q, a) \/ BeginCancel(q, a)
                \/ \E u \in Actors :
                    BeginDeny(q, u, a) \/ BeginReview(q, u, a) \/ BeginCounselingApproval(q, u, a)
             \/ CheckSubmit(q) \/ Submit(q) \/ Cancel(q) \/ Deny(q) \/ LockAsk(q) \/ LockReviewed(q)
      PROVE  Rests
  BY <1>4 DEF BeginSubmit, BeginCancel, BeginDeny, BeginReview, BeginCounselingApproval, CheckSubmit,
              Submit, Cancel, Deny, LockAsk, LockReviewed, lifecycle, Rests
<1>5. ASSUME NEW q \in Requests, CommitArchive(q) \/ CommitReview(q) PROVE Sweeps(q)
  BY <1>5 DEF CommitArchive, CommitReview, Sweeps
<1>6. ASSUME NEW q \in Requests, Delete(q) PROVE \E r \in Records : Writes(r, Gone)
  <2>1. job[q].rec \in Records /\ done \cap FollowUps = done
    BY <1>0, <1>6, WriterShape DEF Delete
  <2>2. Writes(job[q].rec, Gone)
    BY <1>6, <2>1 DEF Delete, Drop, Writes
  <2>3. QED BY <2>1, <2>2
<1>7. ASSUME NEW q \in Requests, Finish(q), job[q].op # "delete",
             NEW x \in Requests, job[x].op = "delete"
      PROVE  job'[x] # Idle
  BY <1>0, <1>7, IdleJob DEF Finish
<1>8. ASSUME NEW q \in Requests, Stash(q)
      PROVE  \E r \in Records : \E x \in Stamps \cup {Active, Gone} : Writes(r, x)
  <2>1. job[q].rec \in Records /\ job[q].stamp \in Stamps
    BY <1>8, WriterShape DEF Stash
  <2>2. Writes(job[q].rec, job[q].stamp)
    BY <1>7, <1>8, <2>1 DEF Stash, Writes, Stamped, StampedOps
  <2>3. QED BY <2>1, <2>2
<1>9. ASSUME NEW q \in Requests, SetStatus(q) PROVE \E r \in Records : Writes(r, Active)
  <2>1. job[q].rec \in FollowUps
    BY <1>9, WriterShape DEF SetStatus
  <2>2. Writes(job[q].rec, Active)
    BY <1>7, <1>9, <2>1 DEF SetStatus, Writes
  <2>3. QED BY <1>0, <2>1, <2>2
<1>10. ASSUME NEW q \in Requests, ApproveCounseling(q) PROVE \E r \in Records : Writes(r, Gone)
  <2>1. TargetOf[job[q].ask] \in Records
    BY <1>0, <1>10, WriterShape DEF ApproveCounseling
  <2>2. Writes(TargetOf[job[q].ask], Gone)
    BY <1>7, <1>10 DEF ApproveCounseling, Drop, Writes
  <2>3. QED BY <2>1, <2>2
<1>11. ASSUME NEW r \in Records, Restore(r) \/ Expire(r)
       PROVE  Writes(r, Active) \/ Writes(r, Gone)
  <2>1. \A q \in Requests : job[q].op = "delete" => job'[q] # Idle
    BY <1>11, IdleJob DEF Restore, Expire
  <2>2. QED BY <1>11, <2>1 DEF Restore, Expire, Drop, Writes
<1>12. ASSUME NEW q \in Requests, CommitRestore(q) \/ Remove(q) \/ Purge(q)
       PROVE  Restores(q) \/ Removes(q)
  BY <1>12 DEF Restores, Removes
<1>13. QED
  BY <1>1, <1>3, <1>4, <1>5, <1>6, <1>8, <1>9, <1>10, <1>11, <1>12 DEF Next, LifecycleNext

\* Time only moves on, by one; taskings and access stay what they are sets of.
LEMMA ContextEffect ==
    ASSUME TypeOK, [Next]_vars
    PROVE  /\ UNCHANGED clock \/ (clock < MaxClock /\ clock' = clock + 1)
           /\ picked' \subseteq People /\ admitted' \subseteq Actors
<1>0. picked \subseteq People /\ admitted \subseteq Actors
  BY DEF TypeOK, LifecycleTypeOK
<1>1. ASSUME \/ \E u \in Actors : ChangeAccess(u)
             \/ \E p \in People : Pick(p)
      PROVE  UNCHANGED clock /\ picked' \subseteq People /\ admitted' \subseteq Actors
  BY <1>0, <1>1 DEF ChangeAccess, Pick
<1>2. ASSUME \E r \in Records : Create(r) \/ Restore(r) \/ Expire(r)
      PROVE  UNCHANGED <<clock, picked, admitted>>
  BY <1>2 DEF Create, Restore, Expire
<1>3. ASSUME NEW q \in Requests,
             \/ GiveUp(q) \/ LockPerson(q) \/ CommitArchive(q) \/ CommitRestore(q)
             \/ Remove(q) \/ Purge(q) \/ Stash(q) \/ SetStatus(q) \/ Delete(q)
             \/ \E u \in Actors, p \in People : BeginRestore(q, u, p) \/ BeginRemove(q, u, p)
             \/ \E p \in People : BeginPurge(q, p)
             \/ \E r \in Records : BeginDelete(q, r)
             \/ \E r \in FollowUps, b \in BOOLEAN : BeginStatus(q, r, b)
      PROVE  UNCHANGED <<clock, picked, admitted>>
  BY <1>3 DEF GiveUp, LockPerson, CommitArchive, CommitRestore, Sweep, Remove, Purge, RemovePerson, Stash,
              SetStatus, Delete, BeginRestore, BeginRemove, BeginPurge, BeginDelete, BeginStatus, lifecycle
<1>4. ASSUME NEW q \in Requests,
             \/ \E u \in Actors, p \in People : BeginArchive(q, u, p)
             \/ \E r \in Records : BeginStash(q, r)
             \/ \E u \in Actors, a \in Asks : BeginReview(q, u, a)
      PROVE  TakeTime /\ UNCHANGED <<picked, admitted>>
  BY <1>4 DEF BeginArchive, BeginStash, BeginReview
<1>5. ASSUME NEW q \in Requests,
             \/ \E a \in Asks :
                \/ BeginSubmit(q, a) \/ BeginCancel(q, a)
                \/ \E u \in Actors : BeginDeny(q, u, a) \/ BeginCounselingApproval(q, u, a)
             \/ CheckSubmit(q) \/ Submit(q) \/ Cancel(q) \/ Deny(q) \/ ApproveCounseling(q)
             \/ LockAsk(q) \/ LockReviewed(q) \/ CommitReview(q)
      PROVE  UNCHANGED <<clock, picked, admitted>>
  BY <1>5 DEF BeginSubmit, BeginCancel, BeginDeny, BeginCounselingApproval, CheckSubmit, Submit, Cancel,
              Deny, ApproveCounseling, LockAsk, LockReviewed, CommitReview, Sweep, lifecycle
<1>6. CASE UNCHANGED vars
  BY <1>0, <1>6 DEF vars, lifecycle
<1>7. QED
  BY <1>0, <1>1, <1>2, <1>3, <1>4, <1>5, <1>6 DEF Next, LifecycleNext, TakeTime

-----------------------------------------------------------------------------
(* What a step can do to deletion requests *)

\* The submission in slot q is recorded.
Submits(q) ==
    /\ job[q].op = "submitting"
    /\ ask' = [ask EXCEPT ![job[q].ask] = "pending"]
    /\ Finish(q)
    /\ UNCHANGED person

\* The request of slot q, which nobody holds, is decided.
Decides(q) ==
    /\ job[q].op \in {"cancel", "deny", "approve"}
    /\ AskFree(job[q].ask) /\ ask[job[q].ask] = "pending"
    /\ \E d \in Decided : ask' = [ask EXCEPT ![job[q].ask] = d]
    /\ Finish(q)
    /\ UNCHANGED person
    /\ job[q].op = "cancel" => AskedBy[job[q].ask] \in admitted

\* Every step is one of these or leaves them alone.
LEMMA AskEffect ==
    ASSUME TypeOK, [Next]_vars
    PROVE  \/ UNCHANGED ask
           \/ \E q \in Requests : Submits(q) \/ Decides(q) \/ CommitReview(q)
<1>1. CASE LifecycleNext /\ UNCHANGED ask
  BY <1>1
<1>2. CASE UNCHANGED vars
  BY <1>2 DEF vars
<1>3. ASSUME NEW q \in Requests,
             \/ \E a \in Asks :
                \/ BeginSubmit(q, a) \/ BeginCancel(q, a)
                \/ \E u \in Actors :
                    BeginDeny(q, u, a) \/ BeginReview(q, u, a) \/ BeginCounselingApproval(q, u, a)
             \/ CheckSubmit(q) \/ LockAsk(q) \/ LockReviewed(q)
      PROVE  UNCHANGED ask
  BY <1>3 DEF BeginSubmit, BeginCancel, BeginDeny, BeginReview, BeginCounselingApproval, CheckSubmit,
              LockAsk, LockReviewed
<1>4. ASSUME NEW q \in Requests, Submit(q) PROVE Submits(q)
  BY <1>4 DEF Submit, Submits, lifecycle
<1>5. ASSUME NEW q \in Requests, Cancel(q) \/ Deny(q) \/ ApproveCounseling(q) PROVE Decides(q)
  BY <1>5 DEF Cancel, Deny, ApproveCounseling, StillPending, StillMember, Decides, Decided, lifecycle
<1>6. QED
  BY <1>1, <1>2, <1>3, <1>4, <1>5 DEF Next

-----------------------------------------------------------------------------
(* Type correctness *)

\* The initial state has the declared types.
LEMMA InitType == Init => TypeOK
  BY IdleJob DEF Init, LifecycleInit, TypeOK, LifecycleTypeOK

\* Every step keeps the declared types.
LEMMA NextType == TypeOK /\ [Next]_vars => TypeOK'
<1> SUFFICES ASSUME TypeOK, [Next]_vars PROVE TypeOK'
  OBVIOUS
<1>1. job' \in [Requests -> Jobs]
  <2>1. ASSUME NEW q \in Requests, NEW j \in Jobs, JobMoves(q, j) PROVE job' \in [Requests -> Jobs]
    BY <2>1, SlotType DEF JobMoves
  <2>2. QED BY <2>1, JobEffect DEF TypeOK
<1>2. ask' \in [Asks -> {"new", "pending"} \cup Decided]
  BY AskEffect DEF TypeOK, Submits, Decides, CommitReview, Decided
<1>3. clock' \in Stamps \cup {0} /\ picked' \subseteq People /\ admitted' \subseteq Actors
  BY ContextEffect, LifecycleAssumption DEF TypeOK, LifecycleTypeOK, Stamps
<1> DEFINE RowsOK ==
      /\ person' \in [People -> Stamps \cup {Active, Gone}]
      /\ at' \in [Records -> Stamps \cup {Active, Gone, Unborn}]
      /\ done' \subseteq FollowUps /\ swept' \subseteq Records
<1>4. RowsOK
  <2>0. /\ person \in [People -> Stamps \cup {Active, Gone}]
        /\ at \in [Records -> Stamps \cup {Active, Gone, Unborn}]
        /\ done \subseteq FollowUps /\ swept \subseteq Records
    BY DEF TypeOK, LifecycleTypeOK
  <2>1. CASE Rests
    BY <2>0, <2>1 DEF Rests
  <2>2. ASSUME NEW q \in Requests, Sweeps(q) PROVE RowsOK
    <3>1. job[q].stamp \in Stamps /\ job[q].person \in People
      BY <2>2, HolderShape DEF Sweeps
    <3>2. Sweep(job[q].person, job[q].stamp)
      BY <2>2 DEF Sweeps
    <3>3. EventTime(job[q].person, job[q].stamp) \in Stamps \cup {Active, Gone}
      BY <2>0, <3>1 DEF EventTime
    <3>4. person' \in [People -> Stamps \cup {Active, Gone}]
      BY <2>0, <3>1, <3>2 DEF Sweep
    <3>5. at' \in [Records -> Stamps \cup {Active, Gone, Unborn}]
      BY <2>0, <3>2, <3>3 DEF Sweep
    <3>6. swept' \subseteq Records /\ done' = done
      BY <2>0, <3>2 DEF Sweep, RecordsOf
    <3>7. QED BY <2>0, <3>4, <3>5, <3>6
  <2>3. ASSUME NEW q \in Requests, Restores(q) PROVE RowsOK
    BY <2>0, <2>3 DEF Restores, CommitRestore
  <2>4. ASSUME NEW q \in Requests, Removes(q) PROVE RowsOK
    <3>1. PICK p : RemovePerson(p)
      BY <2>4 DEF Removes, Remove, Purge
    <3>2. QED BY <2>0, <3>1 DEF RemovePerson
  <2>5. ASSUME NEW r \in Records, Create(r) PROVE RowsOK
    BY <2>0, <2>5 DEF Create
  <2>6. ASSUME NEW r \in Records, NEW x \in Stamps \cup {Active, Gone}, Writes(r, x) PROVE RowsOK
    BY <2>0, <2>6 DEF Writes, Write
  <2>7. QED BY <2>1, <2>2, <2>3, <2>4, <2>5, <2>6, RowEffect
<1>5. QED BY <1>1, <1>2, <1>3, <1>4 DEF TypeOK, LifecycleTypeOK

-----------------------------------------------------------------------------
(* Times *)

\* A request's time in slot q is written when the request ends.
WritesTime(x) == \E q \in Requests : Stamped(q) /\ Finish(q) /\ x = job[q].stamp

\* What a row's time can become: its own, none, its Person's, or one that a
\* request brings.
LEMMA NewTimes ==
    ASSUME TypeOK, [Next]_vars
    PROVE  /\ \A p \in People :
                person'[p] \in {person[p], Active, Gone} \/ WritesTime(person'[p])
           /\ \A r \in Records :
                at'[r] \in {at[r], Active, Gone, person[PersonOf[r]]} \/ WritesTime(at'[r])
<1>0. /\ person \in [People -> Stamps \cup {Active, Gone}]
      /\ at \in [Records -> Stamps \cup {Active, Gone, Unborn}]
      /\ PersonOf \in [Records -> People]
  BY LifecycleAssumption DEF TypeOK, LifecycleTypeOK
<1> DEFINE New ==
      /\ \A p \in People : person'[p] \in {person[p], Active, Gone} \/ WritesTime(person'[p])
      /\ \A r \in Records :
          at'[r] \in {at[r], Active, Gone, person[PersonOf[r]]} \/ WritesTime(at'[r])
<1>1. CASE Rests
  BY <1>0, <1>1 DEF Rests
<1>2. ASSUME NEW q \in Requests, Sweeps(q) PROVE New
  <2>1. WritesTime(job[q].stamp)
    BY <1>2 DEF Sweeps, WritesTime, Stamped, StampedOps
  <2>2. ASSUME NEW p \in People PROVE person'[p] = person[p] \/ person'[p] = job[q].stamp
    BY <1>0, <1>2 DEF Sweeps, Sweep
  <2>3. ASSUME NEW r \in Records
        PROVE  at'[r] \in {at[r], person[PersonOf[r]]} \/ at'[r] = job[q].stamp
    BY <1>0, <1>2 DEF Sweeps, Sweep, EventTime, RecordsOf
  <2>4. QED BY <2>1, <2>2, <2>3
<1>3. ASSUME NEW q \in Requests, Restores(q) PROVE New
  BY <1>0, <1>3 DEF Restores, CommitRestore
<1>4. ASSUME NEW q \in Requests, Removes(q) PROVE New
  <2>1. PICK p : RemovePerson(p)
    BY <1>4 DEF Removes, Remove, Purge
  <2>2. QED BY <1>0, <2>1 DEF RemovePerson
<1>5. ASSUME NEW r \in Records, Create(r) PROVE New
  BY <1>0, <1>5 DEF Create
<1>6. ASSUME NEW r \in Records, NEW x \in Stamps \cup {Active, Gone}, Writes(r, x) PROVE New
  <2>1. x \in {Active, Gone} \/ WritesTime(x)
    BY <1>6 DEF Writes, WritesTime
  <2>2. person' = person /\ at' = [at EXCEPT ![r] = x]
    BY <1>6 DEF Writes, Write
  <2>3. QED BY <1>0, <2>1, <2>2
<1>7. QED BY <1>1, <1>2, <1>3, <1>4, <1>5, <1>6, RowEffect

\* Rows and requests have integers for times.
LEMMA TimeTypes ==
    ASSUME TypeOK
    PROVE  /\ clock \in Nat
           /\ \A p \in People : person[p] \in Int
           /\ \A r \in Records : at[r] \in Int /\ PersonOf[r] \in People
           /\ \A q \in Requests : Stamped(q) => job[q].stamp \in Nat /\ job[q].stamp > 0
<1>1. \A i \in Stamps : i \in Nat /\ i > 0
  BY DEF Stamps
<1>2. ASSUME NEW q \in Requests, Stamped(q) PROVE job[q].stamp \in Stamps
  BY <1>2, HolderShape, WriterShape DEF Stamped, StampedOps
<1>3. QED BY <1>1, <1>2, LifecycleAssumption DEF TypeOK, LifecycleTypeOK, Active, Gone, Unborn

\* Requests write times they have taken.
LEMMA TimedStep == IInv /\ [Next]_vars => Timed'
<1> SUFFICES ASSUME IInv, [Next]_vars PROVE Timed'
  OBVIOUS
<1>1. TypeOK /\ Timed /\ FreshStamps
  BY DEF IInv
<1>2. clock \in Nat /\ clock' \in Nat /\ clock <= clock'
  BY <1>1, ContextEffect, TimeTypes
<1>3. \A x : WritesTime(x) => x \in Nat /\ x <= clock
  BY <1>1, TimeTypes DEF WritesTime, FreshStamps
<1>4. QED
  BY <1>1, <1>2, <1>3, NewTimes, TimeTypes DEF Timed, Active, Gone

\* A time is taken once and written once.
LEMMA FreshStep == IInv /\ [Next]_vars => FreshStamps'
<1> SUFFICES ASSUME IInv, [Next]_vars, NEW x \in Requests, Stamped(x)'
             PROVE  /\ job'[x].stamp <= clock'
                    /\ \A p \in People : person'[p] # job'[x].stamp
                    /\ \A r \in Records : at'[r] # job'[x].stamp
                    /\ \A y \in Requests : Stamped(y)' /\ job'[y].stamp = job'[x].stamp => y = x
  BY DEF FreshStamps
<1>1. TypeOK /\ Timed /\ FreshStamps /\ job \in [Requests -> Jobs]
  BY DEF IInv, TypeOK
<1>2. clock \in Nat /\ clock' \in Nat /\ clock <= clock'
  BY <1>1, ContextEffect, TimeTypes
<1>3. ASSUME job'[x] = job[x]
      PROVE  /\ Stamped(x) /\ job[x].stamp <= clock'
             /\ \A p \in People : person'[p] # job[x].stamp
             /\ \A r \in Records : at'[r] # job[x].stamp
  <2>1. Stamped(x)
    BY <1>3 DEF Stamped
  <2>2. ASSUME NEW z, WritesTime(z) PROVE z # job[x].stamp
    <3>1. PICK q \in Requests : Stamped(q) /\ Finish(q) /\ z = job[q].stamp
      BY <2>2 DEF WritesTime
    <3>2. q # x
      BY <1>1, <1>3, <2>1, <3>1, IdleJob DEF Finish, Stamped, StampedOps
    <3>3. QED BY <1>1, <2>1, <3>1, <3>2 DEF FreshStamps
  <2>3. job[x].stamp \in Nat /\ job[x].stamp > 0 /\ job[x].stamp <= clock
    BY <1>1, <2>1, TimeTypes DEF FreshStamps
  <2>4. /\ \A p \in People : person[p] # job[x].stamp
        /\ \A r \in Records : at[r] # job[x].stamp
    BY <1>1, <2>1 DEF FreshStamps
  <2>5. \A p \in People : person'[p] # job[x].stamp
    BY <1>1, <2>2, <2>3, <2>4, NewTimes DEF Active, Gone
  <2>6. \A r \in Records : at'[r] # job[x].stamp
    BY <1>1, <2>2, <2>3, <2>4, NewTimes, TimeTypes DEF Active, Gone
  <2>7. QED BY <1>2, <2>1, <2>3, <2>5, <2>6
<1>4. CASE UNCHANGED job
  <2>1. \A y \in Requests : Stamped(y)' => Stamped(y)
    BY <1>4 DEF Stamped
  <2>2. QED BY <1>1, <1>3, <1>4, <2>1 DEF FreshStamps
<1>5. ASSUME NEW q \in Requests, NEW j \in Jobs, JobMoves(q, j)
      PROVE  /\ job'[x].stamp <= clock'
             /\ \A p \in People : person'[p] # job'[x].stamp
             /\ \A r \in Records : at'[r] # job'[x].stamp
             /\ \A y \in Requests : Stamped(y)' /\ job'[y].stamp = job'[x].stamp => y = x
  <2>1. job' = [job EXCEPT ![q] = j]
    BY <1>5 DEF JobMoves
  <2>2. \A y \in Requests : y # q => job'[y] = job[y] /\ (Stamped(y)' => Stamped(y))
    BY <1>1, <2>1 DEF Stamped
  <2>3. ASSUME Stamped(q)'
        PROVE  /\ job'[q] = j
               /\ \/ j.stamp = clock + 1 /\ clock' = clock + 1 /\ UNCHANGED <<person, at>>
                  \/ Stamped(q) /\ j.stamp = job[q].stamp /\ UNCHANGED <<person, at>>
    BY <1>1, <1>5, <2>1, <2>3 DEF JobMoves, Stamped, StampedOps
  <2>4. ASSUME Stamped(q)', NEW y \in Requests, y # q, Stamped(y) PROVE j.stamp # job[y].stamp
    BY <1>1, <1>2, <2>3, <2>4, TimeTypes DEF FreshStamps
  <2>5. CASE x = q
    <3>1. CASE j.stamp = clock + 1 /\ clock' = clock + 1 /\ UNCHANGED <<person, at>>
      BY <1>1, <1>2, <2>2, <2>3, <2>4, <2>5, <3>1, TimeTypes DEF Timed
    <3>2. CASE Stamped(q) /\ j.stamp = job[q].stamp /\ UNCHANGED <<person, at>>
      BY <1>1, <1>2, <2>2, <2>3, <2>4, <2>5, <3>2, TimeTypes DEF FreshStamps
    <3>3. QED BY <2>3, <2>5, <3>1, <3>2
  <2>6. CASE x # q
    <3>1. job'[x] = job[x] /\ Stamped(x)
      BY <2>2, <2>6
    <3>2. ASSUME NEW y \in Requests, Stamped(y)', job'[y].stamp = job'[x].stamp PROVE y = x
      BY <1>1, <2>2, <2>3, <2>4, <2>6, <3>1, <3>2 DEF FreshStamps
    <3>3. QED BY <1>3, <3>1, <3>2
  <2>7. QED BY <2>5, <2>6
<1>6. QED BY <1>1, <1>4, <1>5, JobEffect

\* An archive gives its time to what it sweeps, a restore takes back what has
\* it, and a record that is written by itself gets a time of its own.
LEMMA SweptStep == IInv /\ [Next]_vars => SweptByEvent'
<1> SUFFICES ASSUME IInv, [Next]_vars, NEW r \in Records
             PROVE  r \in swept' <=> Archived(at'[r]) /\ at'[r] = person'[PersonOf[r]]
  BY DEF SweptByEvent, Archived
<1> DEFINE o == PersonOf[r]
<1>0. /\ TypeOK /\ FreshStamps
      /\ person \in [People -> Stamps \cup {Active, Gone}]
      /\ at \in [Records -> Stamps \cup {Active, Gone, Unborn}]
      /\ o \in People
      /\ r \in swept <=> Archived(at[r]) /\ at[r] = person[o]
  BY LifecycleAssumption DEF IInv, TypeOK, LifecycleTypeOK, SweptByEvent
<1> DEFINE Traced == r \in swept' <=> Archived(at'[r]) /\ at'[r] = person'[o]
<1>1. CASE Rests
  BY <1>0, <1>1 DEF Rests, Archived
<1>2. ASSUME NEW q \in Requests, Sweeps(q) PROVE Traced
  <2> DEFINE p == job[q].person
             s == job[q].stamp
  <2>1. p \in People /\ s \in Nat /\ s > 0 /\ at[r] # s /\ person[o] # s
    BY <1>0, <1>2, HolderShape, TimeTypes DEF Sweeps, Stamped, StampedOps, FreshStamps
  <2>2. CASE o # p
    BY <1>0, <1>2, <2>1, <2>2 DEF Sweeps, Sweep, RecordsOf, Archived
  <2>3. CASE o = p /\ at[r] = Active /\ r \notin done
    BY <1>0, <1>2, <2>1, <2>3 DEF Sweeps, Sweep, RecordsOf, EventTime, Archived, Active
  <2>4. CASE o = p /\ ~(at[r] = Active /\ r \notin done)
    <3>1. at'[r] = at[r] /\ (r \in swept' <=> r \in swept)
      BY <1>2, <2>4 DEF Sweeps, Sweep, RecordsOf
    <3>2. person'[o] = IF Archived(person[o]) THEN person[o] ELSE s
      BY <1>0, <1>2, <2>4 DEF Sweeps, Sweep
    <3>3. QED BY <1>0, <2>1, <3>1, <3>2 DEF Archived
  <2>5. QED BY <2>2, <2>3, <2>4
<1>3. ASSUME NEW q \in Requests, Restores(q) PROVE Traced
  <2>1. job[q].person \in People
    BY <1>0, <1>3, HolderShape DEF Restores, CommitRestore
  <2>2. QED
    BY <1>0, <1>3, <2>1 DEF Restores, CommitRestore, RecordsOf, Archived, Active
<1>4. ASSUME NEW q \in Requests, Removes(q) PROVE Traced
  <2>1. PICK p \in People : RemovePerson(p)
    BY <1>0, <1>4, WriterShape DEF Removes, Remove, Purge
  <2>2. QED
    BY <1>0, <2>1 DEF RemovePerson, RecordsOf, Archived, Present, Active, Gone, Unborn
<1>5. ASSUME NEW x \in Records, Create(x) PROVE Traced
  BY <1>0, <1>5 DEF Create, Archived, Active, Unborn
<1>6. ASSUME NEW y \in Records, NEW x \in Stamps \cup {Active, Gone}, Writes(y, x) PROVE Traced
  <2>1. ASSUME x \notin {Active, Gone} PROVE person[o] # x
    BY <1>0, <1>6, <2>1 DEF Writes, FreshStamps
  <2>2. QED BY <1>0, <1>6, <2>1 DEF Writes, Write, Archived, Active, Gone
<1>7. QED BY <1>0, <1>1, <1>2, <1>3, <1>4, <1>5, <1>6, RowEffect

-----------------------------------------------------------------------------
(* Slots and deletion requests *)

\* The cutoff of the nightly run lies behind a clock that only moves on.
LEMMA PurgeStep == IInv /\ [Next]_vars => PurgeCutoff' /\ ArchiveDirect'
<1> SUFFICES ASSUME IInv, [Next]_vars PROVE PurgeCutoff' /\ ArchiveDirect'
  OBVIOUS
<1>1. TypeOK /\ PurgeCutoff /\ ArchiveDirect /\ job \in [Requests -> Jobs]
  BY DEF IInv, TypeOK
<1>2. /\ clock \in Nat /\ clock' \in Nat /\ clock <= clock' /\ Retention \in Nat
      /\ \A q \in Requests : job[q].op = "purge" => job[q].cutoff \in Int
  BY <1>1, ContextEffect, TimeTypes, WriterShape, LifecycleAssumption
<1>3. CASE UNCHANGED job
  BY <1>1, <1>2, <1>3 DEF PurgeCutoff, ArchiveDirect
<1>4. ASSUME NEW q \in Requests, NEW j \in Jobs, JobMoves(q, j)
      PROVE  PurgeCutoff' /\ ArchiveDirect'
  <2>1. \A x \in Requests : job'[x] = IF x = q THEN j ELSE job[x]
    BY <1>1, <1>4 DEF JobMoves
  <2>2. PurgeCutoff'
    BY <1>1, <1>2, <1>4, <2>1 DEF JobMoves, PurgeCutoff
  <2>3. ArchiveDirect'
    BY <1>1, <1>4, <2>1 DEF JobMoves, ArchiveDirect
  <2>4. QED BY <2>2, <2>3
<1>5. QED BY <1>1, <1>3, <1>4, JobEffect

\* A slot that ends holds nothing any more; the others are as they were.
LEMMA Finished ==
    ASSUME TypeOK, NEW q \in Requests, Finish(q)
    PROVE  \A x \in Requests : job'[x] = IF x = q THEN Idle ELSE job[x]
  BY DEF Finish, TypeOK

\* Who locks a deletion request finds it free, and nobody else decides it.
LEMMA ReviewStep == IInv /\ [Next]_vars => ReviewHolds'
<1> SUFFICES ASSUME IInv, [Next]_vars, NEW x \in Requests, Reviews(x)'
             PROVE  /\ ask'[job'[x].ask] = "pending"
                    /\ \A y \in Requests : Reviews(y)' /\ job'[y].ask = job'[x].ask => y = x
  BY DEF ReviewHolds
<1>1. /\ TypeOK /\ ReviewHolds /\ ArchiveDirect
      /\ job \in [Requests -> Jobs] /\ ask \in [Asks -> {"new", "pending"} \cup Decided]
  BY DEF IInv, TypeOK
<1>2. ASSUME NEW y \in Requests, Reviews(y), job'[y] = job[y] PROVE ask'[job[y].ask] = "pending"
  <2>1. ask[job[y].ask] = "pending"
    BY <1>1, <1>2 DEF ReviewHolds
  <2>2. job[y].ask \in Asks /\ job'[y] # Idle
    BY <1>1, <1>2, HolderShape, IdleJob DEF Reviews, AsksAbout
  <2>3. ASSUME NEW q \in Requests, Submits(q) PROVE ask'[job[y].ask] = "pending"
    BY <1>1, <2>1, <2>2, <2>3 DEF Submits
  <2>4. ASSUME NEW q \in Requests, Decides(q) PROVE job[q].ask # job[y].ask
    BY <1>2, <2>4 DEF Decides, AskFree, Reviews
  <2>5. ASSUME NEW q \in Requests, CommitReview(q) PROVE job[q].ask # job[y].ask
    <3>1. q # y /\ Reviews(q)
      BY <1>1, <2>2, <2>5, Finished DEF CommitReview, Reviews
    <3>2. QED BY <1>1, <1>2, <3>1 DEF ReviewHolds
  <2>6. QED
    BY <1>1, <2>1, <2>2, <2>3, <2>4, <2>5, AskEffect DEF Decides, CommitReview
<1>3. CASE UNCHANGED job
  BY <1>1, <1>2, <1>3 DEF ReviewHolds, Reviews
<1>4. ASSUME NEW q \in Requests, NEW j \in Jobs, JobMoves(q, j)
      PROVE  /\ ask'[job'[x].ask] = "pending"
             /\ \A y \in Requests : Reviews(y)' /\ job'[y].ask = job'[x].ask => y = x
  <2>1. \A y \in Requests : job'[y] = IF y = q THEN j ELSE job[y]
    BY <1>1, <1>4 DEF JobMoves
  <2>2. \A y \in Requests : y # q /\ Reviews(y)' => Reviews(y)
    BY <2>1 DEF Reviews
  <2>3. ASSUME Reviews(q)'
        PROVE  /\ ask'[j.ask] = "pending"
               /\ \A y \in Requests : y # q /\ Reviews(y) => job[y].ask # j.ask
    <3>1. CASE j.op = "reviewing"
      BY <1>4, <3>1 DEF JobMoves, AskFree, Reviews
    <3>2. CASE j.op = "archiving" /\ j.ask # Direct
      <4>1. Reviews(q) /\ j.ask = job[q].ask /\ UNCHANGED ask
        BY <1>1, <1>4, <3>2 DEF JobMoves, ArchiveDirect, Reviews
      <4>2. QED BY <1>1, <4>1 DEF ReviewHolds
    <3>3. QED BY <2>1, <2>3, <3>1, <3>2 DEF Reviews
  <2>4. CASE x = q
    BY <2>1, <2>2, <2>3, <2>4
  <2>5. CASE x # q
    <3>1. Reviews(x) /\ job'[x] = job[x]
      BY <2>1, <2>2, <2>5
    <3>2. ask'[job[x].ask] = "pending"
      BY <1>2, <3>1
    <3>3. ASSUME NEW y \in Requests, Reviews(y)', job'[y].ask = job'[x].ask PROVE y = x
      BY <1>1, <2>1, <2>2, <2>3, <2>5, <3>1, <3>3 DEF ReviewHolds
    <3>4. QED BY <3>1, <3>2, <3>3
  <2>6. QED BY <2>4, <2>5
<1>5. QED BY <1>1, <1>3, <1>4, JobEffect

\* Nobody removes a Person under a lock.
LEMMA ArchiveStep == IInv /\ [Next]_vars => ArchiveHolds'
<1> SUFFICES ASSUME IInv, [Next]_vars, NEW x \in Requests, job'[x].op = "archiving"
             PROVE  /\ Present(person'[job'[x].person])
                    /\ job'[x].ask # Direct => TargetOf[job'[x].ask] = job'[x].person
  BY DEF ArchiveHolds, Present
<1>1. /\ TypeOK /\ ArchiveHolds /\ ArchiveDirect /\ job \in [Requests -> Jobs]
      /\ person \in [People -> Stamps \cup {Active, Gone}]
  BY DEF IInv, TypeOK, LifecycleTypeOK
<1>2. ASSUME job[x].op = "archiving" PROVE Present(person'[job[x].person])
  <2> DEFINE p == job[x].person
  <2>1. p \in People /\ Present(person[p])
    BY <1>1, <1>2, HolderShape DEF ArchiveHolds
  <2>2. ASSUME NEW q \in Requests, Sweeps(q) PROVE Present(person'[p])
    <3>1. job[q].stamp \in Nat /\ job[q].stamp > 0
      BY <1>1, <2>2, TimeTypes DEF Sweeps, Stamped, StampedOps
    <3>2. person'[p] = person[p] \/ person'[p] = job[q].stamp
      BY <1>1, <2>1, <2>2 DEF Sweeps, Sweep
    <3>3. QED BY <2>1, <3>1, <3>2 DEF Present, Active
  <2>3. ASSUME NEW q \in Requests, Restores(q) PROVE Present(person'[p])
    BY <1>1, <2>1, <2>3 DEF Restores, CommitRestore, Present, Active
  <2>4. ASSUME NEW q \in Requests, Removes(q) PROVE Present(person'[p])
    BY <1>1, <1>2, <2>1, <2>4 DEF Removes, Remove, Purge, RemovePerson, PersonFree
  <2>5. QED
    BY <1>1, <2>1, <2>2, <2>3, <2>4, RowEffect DEF Rests, Create, Writes
<1>3. CASE job'[x] = job[x]
  BY <1>1, <1>2, <1>3 DEF ArchiveHolds
<1>4. ASSUME NEW j \in Jobs, JobMoves(x, j)
      PROVE  /\ Present(person'[job'[x].person])
             /\ job'[x].ask # Direct => TargetOf[job'[x].ask] = job'[x].person
  <2>1. job'[x] = j
    BY <1>1, <1>4 DEF JobMoves
  <2>2. QED BY <1>1, <1>4, <2>1 DEF JobMoves, ArchiveDirect
<1>5. QED BY <1>1, <1>3, <1>4, JobEffect DEF JobMoves

\* A submission's request stays new until it records it.
LEMMA SubmitsNewStep == IInv /\ [Next]_vars => SubmitsNew'
<1> DEFINE Ops == {"submit", "submitting"}
<1> SUFFICES ASSUME IInv, [Next]_vars, NEW x \in Requests, job'[x].op \in Ops
             PROVE  /\ ask'[job'[x].ask] = "new"
                    /\ \A y \in Requests : job'[y].op \in Ops /\ job'[y].ask = job'[x].ask => y = x
  BY DEF SubmitsNew
<1>1. /\ TypeOK /\ SubmitsNew /\ ReviewHolds
      /\ job \in [Requests -> Jobs] /\ ask \in [Asks -> {"new", "pending"} \cup Decided]
  BY DEF IInv, TypeOK
<1>2. ASSUME NEW y \in Requests, job[y].op \in Ops, job'[y] = job[y] PROVE ask'[job[y].ask] = "new"
  <2>1. ask[job[y].ask] = "new" /\ job[y].ask \in Asks /\ job'[y] # Idle
    BY <1>1, <1>2, WriterShape, IdleJob DEF SubmitsNew
  <2>2. ASSUME NEW q \in Requests, Submits(q) PROVE job[q].ask # job[y].ask
    <3>1. q # y
      BY <1>1, <2>1, <2>2, Finished DEF Submits
    <3>2. QED BY <1>1, <1>2, <2>2, <3>1 DEF Submits, SubmitsNew
  <2>3. ASSUME NEW q \in Requests, Decides(q) PROVE job[q].ask # job[y].ask
    BY <2>1, <2>3 DEF Decides
  <2>4. ASSUME NEW q \in Requests, CommitReview(q) PROVE job[q].ask # job[y].ask
    BY <1>1, <2>1, <2>4 DEF CommitReview, ReviewHolds, Reviews
  <2>5. QED
    BY <1>1, <2>1, <2>2, <2>3, <2>4, AskEffect DEF Submits, Decides, CommitReview
<1>3. CASE UNCHANGED job
  BY <1>1, <1>2, <1>3 DEF SubmitsNew
<1>4. ASSUME NEW q \in Requests, NEW j \in Jobs, JobMoves(q, j)
      PROVE  /\ ask'[job'[x].ask] = "new"
             /\ \A y \in Requests : job'[y].op \in Ops /\ job'[y].ask = job'[x].ask => y = x
  <2>1. \A y \in Requests : job'[y] = IF y = q THEN j ELSE job[y]
    BY <1>1, <1>4 DEF JobMoves
  <2>2. ASSUME j.op \in Ops
        PROVE  /\ ask'[j.ask] = "new"
               /\ \A y \in Requests : y # q /\ job[y].op \in Ops => job[y].ask # j.ask
    BY <1>1, <1>4, <2>2 DEF JobMoves, SubmitsNew
  <2>3. CASE x = q
    BY <2>1, <2>2, <2>3
  <2>4. CASE x # q
    BY <1>1, <1>2, <2>1, <2>2, <2>4 DEF SubmitsNew
  <2>5. QED BY <2>3, <2>4
<1>5. QED BY <1>1, <1>3, <1>4, JobEffect

\* The advisory lock keeps the target free of pending requests until the insert.
LEMMA SubmitHoldsStep == IInv /\ [Next]_vars => SubmitHolds'
<1> SUFFICES ASSUME IInv, [Next]_vars, NEW x \in Requests, job'[x].op = "submitting"
             PROVE  /\ \A b \in Asks : TargetOf[b] = TargetOf[job'[x].ask] => ask'[b] # "pending"
                    /\ \A y \in Requests :
                        job'[y].op = "submitting" /\ TargetOf[job'[y].ask] = TargetOf[job'[x].ask]
                        => y = x
  BY DEF SubmitHolds
<1>1. /\ TypeOK /\ SubmitHolds
      /\ job \in [Requests -> Jobs] /\ ask \in [Asks -> {"new", "pending"} \cup Decided]
  BY DEF IInv, TypeOK
<1>2. ASSUME NEW y \in Requests, job[y].op = "submitting", job'[y] = job[y],
             NEW b \in Asks, TargetOf[b] = TargetOf[job[y].ask]
      PROVE  ask'[b] # "pending"
  <2>1. ask[b] # "pending" /\ job'[y] # Idle
    BY <1>1, <1>2, IdleJob DEF SubmitHolds
  <2>2. ASSUME NEW q \in Requests, Submits(q) PROVE job[q].ask # b
    <3>1. q # y
      BY <1>1, <2>1, <2>2, Finished DEF Submits
    <3>2. QED BY <1>1, <1>2, <2>2, <3>1 DEF Submits, SubmitHolds
  <2>3. QED
    BY <1>1, <2>1, <2>2, AskEffect DEF Submits, Decides, CommitReview, Decided
<1>3. CASE UNCHANGED job
  BY <1>1, <1>2, <1>3 DEF SubmitHolds
<1>4. ASSUME NEW q \in Requests, NEW j \in Jobs, JobMoves(q, j)
      PROVE  /\ \A b \in Asks : TargetOf[b] = TargetOf[job'[x].ask] => ask'[b] # "pending"
             /\ \A y \in Requests :
                 job'[y].op = "submitting" /\ TargetOf[job'[y].ask] = TargetOf[job'[x].ask] => y = x
  <2>1. \A y \in Requests : job'[y] = IF y = q THEN j ELSE job[y]
    BY <1>1, <1>4 DEF JobMoves
  <2>2. ASSUME j.op = "submitting"
        PROVE  /\ \A b \in Asks : TargetOf[b] = TargetOf[j.ask] => ask'[b] # "pending"
               /\ \A y \in Requests :
                   job[y].op = "submitting" => TargetOf[job[y].ask] # TargetOf[j.ask]
    BY <1>4, <2>2 DEF JobMoves, TargetFree
  <2>3. CASE x = q
    BY <2>1, <2>2, <2>3
  <2>4. CASE x # q
    BY <1>1, <1>2, <2>1, <2>2, <2>4 DEF SubmitHolds
  <2>5. QED BY <2>3, <2>4
<1>5. QED BY <1>1, <1>3, <1>4, JobEffect

\* So a request becomes pending beside none.
LEMMA OnePendingStep == IInv /\ [Next]_vars => OnePendingPerTarget'
<1> SUFFICES ASSUME IInv, [Next]_vars PROVE OnePendingPerTarget'
  OBVIOUS
<1>1. TypeOK /\ OnePendingPerTarget /\ SubmitHolds /\ ask \in [Asks -> {"new", "pending"} \cup Decided]
  BY DEF IInv, TypeOK
<1>2. ASSUME NEW q \in Requests, Submits(q) PROVE OnePendingPerTarget'
  BY <1>1, <1>2 DEF Submits, SubmitHolds, OnePendingPerTarget
<1>3. ASSUME NEW q \in Requests, Decides(q) \/ CommitReview(q) PROVE OnePendingPerTarget'
  BY <1>1, <1>3 DEF Decides, CommitReview, Decided, OnePendingPerTarget
<1>4. QED BY <1>1, <1>2, <1>3, AskEffect DEF OnePendingPerTarget

-----------------------------------------------------------------------------
(* The invariant *)

\* It holds at the start.
LEMMA InitIInv == Init => IInv
<1> SUFFICES ASSUME Init PROVE IInv
  OBVIOUS
<1>1. TypeOK
  BY InitType
<1>2. \A q \in Requests : job[q] = Idle /\ job[q].op = "idle"
  BY IdleJob DEF Init, LifecycleInit
<1>3. Timed /\ SweptByEvent
  BY DEF Init, LifecycleInit, Timed, SweptByEvent, Archived, Active, Unborn
<1>4. /\ FreshStamps /\ PurgeCutoff /\ ArchiveDirect
      /\ ReviewHolds /\ ArchiveHolds /\ SubmitsNew /\ SubmitHolds
  BY <1>2 DEF FreshStamps, Stamped, StampedOps, PurgeCutoff, ArchiveDirect, ReviewHolds, Reviews,
              ArchiveHolds, SubmitsNew, SubmitHolds
<1>5. OnePendingPerTarget
  BY DEF Init, OnePendingPerTarget
<1>6. QED BY <1>1, <1>3, <1>4, <1>5 DEF IInv

\* It is inductive.
LEMMA NextIInv == IInv /\ [Next]_vars => IInv'
  BY NextType, OnePendingStep, TimedStep, FreshStep, SweptStep, PurgeStep, ReviewStep,
     ArchiveStep, SubmitsNewStep, SubmitHoldsStep DEF IInv

-----------------------------------------------------------------------------
(* What the archive promises *)

\* The standings of the Person p of record r, before and after a step.
LEMMA StandingOf ==
    ASSUME TypeOK, NEW p \in People
    PROVE  /\ standings[p] = "active" <=> person[p] = Active
           /\ standings[p] = "gone" <=> person[p] = Gone
           /\ standings[p] = "archived" <=> Archived(person[p])
           /\ standings[p] \in {"active", "archived", "gone"}
<1>1. person[p] \in Int /\ person[p] \in Stamps \cup {Active, Gone}
  BY TimeTypes DEF TypeOK, LifecycleTypeOK
<1>2. QED
  BY <1>1 DEF standings, Standing, Archived, Active, Gone, Stamps

\* A record's standing tells as much of its time as the archive cares about.
LEMMA KeepingOf ==
    ASSUME TypeOK, NEW r \in Records
    PROVE  /\ keeping[r] = "unborn" <=> at[r] = Unborn
           /\ keeping[r] = "active" <=> at[r] = Active
           /\ keeping[r] = "gone" <=> at[r] = Gone
           /\ keeping[r] = "with" <=> Archived(at[r]) /\ at[r] = person[PersonOf[r]]
           /\ keeping[r] = "alone" <=> Archived(at[r]) /\ at[r] # person[PersonOf[r]]
           /\ keeping[r] \in {"unborn", "active", "gone", "with", "alone"}
           /\ Promise!Kept(r) <=> Present(at[r])
<1>1. at[r] \in Int /\ at[r] \in Stamps \cup {Active, Gone, Unborn}
  BY TimeTypes DEF TypeOK, LifecycleTypeOK
<1>2. /\ keeping[r] = "unborn" <=> at[r] = Unborn
      /\ keeping[r] = "active" <=> at[r] = Active
      /\ keeping[r] = "gone" <=> at[r] = Gone
      /\ keeping[r] = "with" <=> Archived(at[r]) /\ at[r] = person[PersonOf[r]]
      /\ keeping[r] = "alone" <=> Archived(at[r]) /\ at[r] # person[PersonOf[r]]
      /\ keeping[r] \in {"unborn", "active", "gone", "with", "alone"}
  BY <1>1 DEF keeping, RecordStanding, Archived, Active, Gone, Unborn, Stamps
<1>3. Promise!Kept(r) <=> keeping[r] \in {"active", "with", "alone"}
  BY DEF Promise!Kept
<1>4. QED
  BY <1>1, <1>2, <1>3 DEF Present, Archived, Active, Gone, Unborn, Stamps

\* Rows that rest keep their standing.
LEMMA RestsKeep ==
    ASSUME UNCHANGED <<person, at>>
    PROVE  UNCHANGED <<standings, keeping>>
  BY DEF standings, Standing, keeping, RecordStanding

\* An archive that commits takes along what is active, whichever time it is
\* that the Person carries then.
LEMMA SweepsArchive ==
    ASSUME IInv, TypeOK', NEW q \in Requests, Sweeps(q)
    PROVE  Promise!Archive(job[q].person)
<1> DEFINE p == job[q].person
           s == job[q].stamp
<1>1. /\ TypeOK /\ p \in People /\ s \in Nat /\ s > 0 /\ done' = done
      /\ Present(person[p]) /\ person[p] \in Int
      /\ person \in [People -> Stamps \cup {Active, Gone}]
      /\ person' \in [People -> Stamps \cup {Active, Gone}]
      /\ \A x \in People : person[x] # s
      /\ \A r \in Records : at[r] \in Int /\ at[r] # s /\ PersonOf[r] \in People
  BY HolderShape, TimeTypes
     DEF IInv, Sweeps, Sweep, Stamped, StampedOps, ArchiveHolds, FreshStamps, TypeOK, LifecycleTypeOK
<1>2. \A x \in People : person'[x] = IF x = p THEN IF Archived(person[p]) THEN person[p] ELSE s
                                     ELSE person[x]
  BY <1>1 DEF Sweeps, Sweep
<1>3. standings[p] # "gone"
  BY <1>1, StandingOf DEF Present, Active, Gone
<1>4. standings' = [standings EXCEPT ![p] = "archived"]
  <2>1. ASSUME NEW x \in People
        PROVE  standings'[x] = IF x = p THEN "archived" ELSE standings[x]
    BY <1>1, <1>2 DEF standings, Standing, Archived, Active, Gone
  <2>2. QED BY <2>1 DEF standings
<1>5. ASSUME NEW r \in Records
      PROVE  keeping'[r] = IF PersonOf[r] = p /\ keeping[r] = "active" /\ r \notin done
                           THEN "with" ELSE keeping[r]
  <2> DEFINE taken == r \in RecordsOf(p) /\ at[r] = Active /\ r \notin done
  <2>1. taken <=> PersonOf[r] = p /\ keeping[r] = "active" /\ r \notin done
    BY <1>1, KeepingOf DEF RecordsOf
  <2>2. CASE taken
    <3>1. PersonOf[r] = p /\ at'[r] = EventTime(p, s)
      BY <2>2 DEF RecordsOf, Sweeps, Sweep
    <3>2. at'[r] = person'[PersonOf[r]] /\ Archived(at'[r])
      BY <1>1, <1>2, <3>1 DEF EventTime, Archived, Active
    <3>3. at'[r] \notin {Unborn, Active, Gone}
      BY <1>1, <1>2, <3>2 DEF Archived, Active, Gone, Unborn
    <3>4. QED BY <2>1, <2>2, <3>2, <3>3 DEF keeping, RecordStanding, Archived
  <2>3. CASE ~taken
    <3>1. at'[r] = at[r]
      BY <2>3 DEF Sweeps, Sweep
    <3>2. Archived(at[r]) => (at[r] = person'[PersonOf[r]] <=> at[r] = person[PersonOf[r]])
      BY <1>1, <1>2 DEF Archived
    <3>3. QED BY <2>1, <2>3, <3>1, <3>2 DEF keeping, RecordStanding, Archived
  <2>4. QED BY <2>2, <2>3
<1>6. keeping' = [r \in Records |-> IF PersonOf[r] = p /\ keeping[r] = "active" /\ r \notin done
                                    THEN "with" ELSE keeping[r]]
  BY <1>5 DEF keeping
<1>7. QED
  BY <1>1, <1>3, <1>4, <1>6 DEF Promise!Archive, Promise!Records, Records

\* A restore that still finds the Person archived undoes that archive.
LEMMA RestoresRestore ==
    ASSUME IInv, NEW q \in Requests, Restores(q)
    PROVE  Promise!Restore(job[q].person) \/ Rests
<1> DEFINE p == job[q].person
<1>1. /\ TypeOK /\ p \in People
      /\ person \in [People -> Stamps \cup {Active, Gone}]
      /\ \A r \in Records : at[r] \in Int /\ PersonOf[r] \in People
  BY HolderShape, TimeTypes DEF IInv, Restores, CommitRestore, TypeOK, LifecycleTypeOK
<1>2. CASE Archived(person[p])
  <2>1. /\ person' = [person EXCEPT ![p] = Active]
        /\ at' = [r \in Records |-> IF r \in RecordsOf(p) /\ at[r] = person[p] THEN Active ELSE at[r]]
        /\ done' = done
    BY <1>2 DEF Restores, CommitRestore
  <2>2. standings[p] = "archived"
    BY <1>1, <1>2, StandingOf
  <2>3. standings' = [standings EXCEPT ![p] = "active"]
    <3>1. ASSUME NEW x \in People
          PROVE  standings'[x] = IF x = p THEN "active" ELSE standings[x]
      BY <1>1, <2>1 DEF standings, Standing, Active, Gone
    <3>2. QED BY <3>1 DEF standings
  <2>4. ASSUME NEW r \in Records
        PROVE  keeping'[r] = IF PersonOf[r] = p /\ keeping[r] = "with" THEN "active" ELSE keeping[r]
    <3> DEFINE back == r \in RecordsOf(p) /\ at[r] = person[p]
    <3>1. back <=> PersonOf[r] = p /\ keeping[r] = "with"
      BY <1>1, <1>2, KeepingOf DEF RecordsOf
    <3>2. CASE back
      BY <2>1, <3>1, <3>2 DEF keeping, RecordStanding, Archived, Active, Gone, Unborn
    <3>3. CASE ~back
      <4>1. at'[r] = at[r]
        BY <2>1, <3>3
      <4>2. Archived(at[r]) => (at[r] = person'[PersonOf[r]] <=> at[r] = person[PersonOf[r]])
        BY <1>1, <2>1, <3>3 DEF Archived, Active, RecordsOf
      <4>3. QED BY <3>1, <3>3, <4>1, <4>2 DEF keeping, RecordStanding, Archived
    <3>4. QED BY <3>2, <3>3
  <2>5. keeping' = [r \in Records |->
                      IF PersonOf[r] = p /\ keeping[r] = "with" THEN "active" ELSE keeping[r]]
    BY <2>4 DEF keeping
  <2>6. QED BY <2>1, <2>2, <2>3, <2>5 DEF Promise!Restore, Promise!Records, Records
<1>3. CASE ~Archived(person[p])
  BY <1>3 DEF Restores, CommitRestore, Rests
<1>4. QED BY <1>2, <1>3

\* A removal takes an archived Person with every record that is left.
LEMMA RemovesRemove ==
    ASSUME IInv, NEW q \in Requests, Removes(q)
    PROVE  Promise!Remove(job[q].person)
<1> DEFINE p == job[q].person
<1>1. /\ TypeOK /\ p \in People /\ RemovePerson(p) /\ Archived(person[p])
      /\ person \in [People -> Stamps \cup {Active, Gone}]
      /\ done \subseteq Records
      /\ \A r \in Records : at[r] \in Int /\ PersonOf[r] \in People
  BY WriterShape, TimeTypes
     DEF IInv, Removes, Remove, Purge, StillExpired, TypeOK, LifecycleTypeOK, Records
<1>2. standings[p] = "archived"
  BY <1>1, StandingOf
<1>3. standings' = [standings EXCEPT ![p] = "gone"]
  <2>1. ASSUME NEW x \in People
        PROVE  standings'[x] = IF x = p THEN "gone" ELSE standings[x]
    BY <1>1 DEF RemovePerson, standings, Standing, Active, Gone
  <2>2. QED BY <2>1 DEF standings
<1>4. ASSUME NEW r \in Records
      PROVE  keeping'[r] = IF PersonOf[r] = p /\ Promise!Kept(r) THEN "gone" ELSE keeping[r]
  <2> DEFINE taken == r \in RecordsOf(p) /\ Present(at[r])
  <2>1. taken <=> PersonOf[r] = p /\ Promise!Kept(r)
    BY <1>1, KeepingOf DEF RecordsOf
  <2>2. CASE taken
    BY <1>1, <2>1, <2>2 DEF RemovePerson, keeping, RecordStanding, Archived, Active, Gone, Unborn
  <2>3. CASE ~taken
    <3>1. at'[r] = at[r]
      BY <1>1, <2>3 DEF RemovePerson
    <3>2. Archived(at[r]) => (at[r] = person'[PersonOf[r]] <=> at[r] = person[PersonOf[r]])
      BY <1>1, <2>3 DEF RemovePerson, RecordsOf, Archived, Present, Active
    <3>3. QED BY <2>1, <2>3, <3>1, <3>2 DEF keeping, RecordStanding, Archived
  <2>4. QED BY <2>2, <2>3
<1>5. keeping' = [r \in Records |-> IF PersonOf[r] = p /\ Promise!Kept(r) THEN "gone" ELSE keeping[r]]
  BY <1>4 DEF keeping
<1>6. done' = {r \in done : PersonOf[r] # p}
  BY <1>1 DEF RemovePerson, RecordsOf
<1>7. QED BY <1>2, <1>3, <1>5, <1>6 DEF Promise!Remove, Promise!Records, Records

\* A record of a Person who is there may be created.
LEMMA CreateCreates ==
    ASSUME IInv, NEW r \in Records, Create(r)
    PROVE  Promise!Create(r)
<1>1. TypeOK /\ PersonOf[r] \in People /\ at \in [Records -> Stamps \cup {Active, Gone, Unborn}]
  BY TimeTypes DEF IInv, TypeOK, LifecycleTypeOK
<1>2. keeping[r] = "unborn" /\ standings[PersonOf[r]] # "gone"
  BY <1>1, StandingOf, KeepingOf DEF Create, Present, Active, Gone
<1>3. keeping' = [keeping EXCEPT ![r] = "active"]
  <2>1. ASSUME NEW x \in Records PROVE keeping'[x] = IF x = r THEN "active" ELSE keeping[x]
    BY <1>1 DEF Create, keeping, RecordStanding, Archived, Active, Gone, Unborn
  <2>2. QED BY <2>1 DEF keeping
<1>4. standings' = standings
  BY DEF Create, standings, Standing
<1>5. QED BY <1>2, <1>3, <1>4 DEF Promise!Create, Create

\* A record that is written by itself leaves what it had in common with its
\* Person.
LEMMA WriteEffect ==
    ASSUME IInv, NEW r \in Records, NEW x \in Stamps \cup {Active, Gone}, Write(r, x), UNCHANGED person,
           NEW s,
           \/ x = Active /\ s = "active"
           \/ x = Gone /\ s = "gone"
           \/ x \in Stamps /\ x # person[PersonOf[r]] /\ s = "alone"
    PROVE  /\ Promise!Kept(r) /\ standings' = standings
           /\ keeping' = [keeping EXCEPT ![r] = s]
<1>1. /\ TypeOK /\ at \in [Records -> Stamps \cup {Active, Gone, Unborn}]
      /\ x \in Stamps => x \in Nat /\ x > 0
  BY LifecycleAssumption DEF IInv, TypeOK, LifecycleTypeOK, Stamps
<1>2. Promise!Kept(r)
  BY <1>1, KeepingOf DEF Write
<1>3. ASSUME NEW y \in Records PROVE keeping'[y] = IF y = r THEN s ELSE keeping[y]
  BY <1>1 DEF Write, keeping, RecordStanding, Archived, Active, Gone, Unborn
<1>4. keeping' = [keeping EXCEPT ![r] = s]
  BY <1>3 DEF keeping
<1>5. standings' = standings
  BY DEF standings, Standing
<1>6. QED BY <1>2, <1>4, <1>5

\* What goes by itself is dropped.
LEMMA DropDrops ==
    ASSUME IInv, NEW r \in Records, Drop(r), UNCHANGED person
    PROVE  Promise!Drop(r)
<1>1. Promise!Kept(r) /\ standings' = standings /\ keeping' = [keeping EXCEPT ![r] = "gone"]
  BY WriteEffect DEF Drop
<1>2. QED BY <1>1 DEF Promise!Drop, Drop

\* Single records change as the archive allows.
LEMMA RecordsChange ==
    ASSUME IInv
    PROVE  /\ \A r \in Records : Restore(r) => Promise!Alter(r)
           /\ \A r \in Records : Expire(r) => Promise!Discard(r)
           /\ \A q \in Requests : Stash(q) \/ SetStatus(q) => Promise!Alter(job[q].rec)
           /\ \A q \in Requests : Delete(q) => Promise!Discard(job[q].rec)
<1>1. TypeOK /\ FollowUps \subseteq Records /\ done \subseteq FollowUps
  BY DEF IInv, TypeOK, LifecycleTypeOK, Records
<1>2. ASSUME NEW r \in Records, Write(r, Active), UNCHANGED person
      PROVE  /\ Promise!Kept(r) /\ standings' = standings
             /\ keeping' = [keeping EXCEPT ![r] = "active"]
  BY <1>2, WriteEffect
<1>3. ASSUME NEW r \in Records, Restore(r) PROVE Promise!Alter(r)
  BY <1>2, <1>3 DEF Restore, Promise!Alter
<1>4. ASSUME NEW r \in Records, Expire(r) PROVE Promise!Discard(r)
  <2>1. Promise!Drop(r)
    BY <1>4, DropDrops DEF Expire
  <2>2. keeping[r] # "active"
    BY <1>1, <1>4, KeepingOf DEF Expire, Archived, Active
  <2>3. QED BY <2>1, <2>2 DEF Promise!Discard
<1>5. ASSUME NEW q \in Requests, Stash(q) PROVE Promise!Alter(job[q].rec)
  <2> DEFINE r == job[q].rec
             s == job[q].stamp
  <2>1. r \in Records /\ s \in Stamps /\ PersonOf[r] \in People
    BY <1>1, <1>5, WriterShape, TimeTypes DEF Stash
  <2>2. s # person[PersonOf[r]]
    BY <1>5, <2>1 DEF IInv, Stash, Stamped, StampedOps, FreshStamps
  <2>3. Promise!Kept(r) /\ standings' = standings /\ keeping' = [keeping EXCEPT ![r] = "alone"]
    BY <1>5, <2>1, <2>2, WriteEffect DEF Stash
  <2>4. QED BY <1>5, <2>3 DEF Stash, Promise!Alter
<1>6. ASSUME NEW q \in Requests, SetStatus(q) PROVE Promise!Alter(job[q].rec)
  <2>1. job[q].rec \in FollowUps
    BY <1>1, <1>6, WriterShape DEF SetStatus
  <2>2. done' \in {done \cup {job[q].rec}, done \ {job[q].rec}}
    BY <1>6 DEF SetStatus
  <2>3. QED BY <1>1, <1>2, <1>6, <2>1, <2>2 DEF SetStatus, Promise!Alter
<1>7. ASSUME NEW q \in Requests, Delete(q) PROVE Promise!Discard(job[q].rec)
  <2>1. job[q].rec \in Records /\ job[q].seen \in Stamps
    BY <1>1, <1>7, WriterShape DEF Delete
  <2>2. Promise!Drop(job[q].rec)
    BY <1>7, <2>1, DropDrops DEF Delete
  <2>3. job[q].rec \in Files => keeping[job[q].rec] # "active"
    BY <1>1, <1>7, <2>1, KeepingOf DEF Delete, AsSeen, Stamps, Active
  <2>4. QED BY <2>2, <2>3 DEF Promise!Discard
<1>8. QED BY <1>3, <1>4, <1>5, <1>6, <1>7

\* Deletion requests are asked and decided as the archive allows.
LEMMA AsksDecided ==
    ASSUME IInv, TypeOK'
    PROVE  /\ \A q \in Requests : Submit(q) => Promise!Ask(job[q].ask)
           /\ \A q \in Requests : Cancel(q) \/ Deny(q) => Promise!TurnDown(job[q].ask)
           /\ \A q \in Requests :
                ApproveCounseling(q) \/ CommitReview(q) => Promise!Approve(job[q].ask)
<1>1. TypeOK /\ ask \in [Asks -> {"new", "pending"} \cup Decided]
  BY DEF IInv, TypeOK
<1>2. ASSUME NEW q \in Requests, Submit(q) PROVE Promise!Ask(job[q].ask)
  <2>1. /\ ask[job[q].ask] = "new"
        /\ \A b \in Asks : TargetOf[b] = TargetOf[job[q].ask] => ask[b] # "pending"
    BY <1>2 DEF IInv, Submit, SubmitsNew, SubmitHolds
  <2>2. UNCHANGED <<standings, keeping, done>>
    BY <1>2, RestsKeep DEF Submit, lifecycle
  <2>3. QED BY <1>2, <2>1, <2>2 DEF Submit, Promise!Ask, Promise!rows
<1>3. ASSUME NEW q \in Requests, Cancel(q) \/ Deny(q) PROVE Promise!TurnDown(job[q].ask)
  <2>1. UNCHANGED <<standings, keeping, done>>
    BY <1>3, RestsKeep DEF Cancel, Deny, lifecycle
  <2>2. /\ ask[job[q].ask] = "pending"
        /\ \E d \in {"denied", "cancelled"} : ask' = [ask EXCEPT ![job[q].ask] = d]
    BY <1>3 DEF Cancel, Deny, StillPending
  <2>3. QED BY <2>1, <2>2 DEF Promise!TurnDown, Promise!rows
<1>4. ASSUME NEW q \in Requests, ApproveCounseling(q) PROVE Promise!Approve(job[q].ask)
  <2>1. TargetOf[job[q].ask] \in Files /\ TargetOf[job[q].ask] \in Records
    BY <1>1, <1>4, WriterShape DEF ApproveCounseling, Records
  <2>2. TargetOf[job[q].ask] \notin People
    BY <2>1, DeletionRequestsAssumption
  <2>3. Promise!Drop(TargetOf[job[q].ask])
    BY <1>4, <2>1, DropDrops DEF ApproveCounseling
  <2>4. QED BY <1>4, <2>2, <2>3 DEF ApproveCounseling, StillPending, Promise!Approve
<1>5. ASSUME NEW q \in Requests, CommitReview(q) PROVE Promise!Approve(job[q].ask)
  <2>1. Sweeps(q) /\ Reviews(q)
    BY <1>5 DEF CommitReview, Sweeps, Reviews
  <2>2. Promise!Archive(job[q].person)
    BY <2>1, SweepsArchive
  <2>3. /\ job[q].person \in People /\ TargetOf[job[q].ask] = job[q].person
        /\ ask[job[q].ask] = "pending"
    BY <1>1, <1>5, <2>1, HolderShape DEF IInv, CommitReview, ArchiveHolds, ReviewHolds
  <2>4. QED BY <1>5, <2>2, <2>3 DEF CommitReview, Promise!Approve
<1>6. QED BY <1>2, <1>3, <1>4, <1>5

\* It starts with everybody active and nothing asked.
LEMMA InitPromise == Init => Promise!Init
<1> SUFFICES ASSUME Init PROVE Promise!Init
  OBVIOUS
<1>1. standings = [p \in People |-> "active"]
  BY DEF Init, LifecycleInit, standings, Standing, Active, Gone
<1>2. keeping = [r \in Records |-> "unborn"]
  BY DEF Init, LifecycleInit, keeping, RecordStanding, Archived, Active, Gone, Unborn
<1>3. QED BY <1>1, <1>2 DEF Init, LifecycleInit, Promise!Init, Promise!Records, Records

\* Every step is one the archive allows, or changes nothing of it.
LEMMA StepPromise ==
    IInv /\ [Next]_vars => Promise!Next \/ UNCHANGED <<standings, keeping, done, ask>>
<1> SUFFICES ASSUME IInv, [Next]_vars
             PROVE  Promise!Next \/ UNCHANGED <<standings, keeping, done, ask>>
  OBVIOUS
<1>1. TypeOK /\ TypeOK' /\ Promise!Records = Records /\ FollowUps \subseteq Records
  BY NextType DEF IInv, Promise!Records, Records
<1>2. CASE Rests /\ UNCHANGED ask
  BY <1>2, RestsKeep DEF Rests
<1>3. ASSUME NEW p \in People, Promise!Archive(p) \/ Promise!Restore(p) \/ Promise!Remove(p),
             UNCHANGED ask
      PROVE  Promise!Next
  BY <1>3 DEF Promise!Next
<1>4. ASSUME NEW r \in Records, Promise!Create(r) \/ Promise!Alter(r) \/ Promise!Discard(r),
             UNCHANGED ask
      PROVE  Promise!Next
  BY <1>1, <1>4 DEF Promise!Next
<1>5. ASSUME NEW a \in Asks, Promise!Ask(a) \/ Promise!TurnDown(a) \/ Promise!Approve(a)
      PROVE  Promise!Next
  BY <1>5 DEF Promise!Next
<1>6. CASE UNCHANGED vars
  BY <1>2, <1>6 DEF vars, lifecycle, Rests
<1>7. CASE LifecycleNext /\ UNCHANGED ask
  <2>1. ASSUME \/ \E u \in Actors : ChangeAccess(u)
               \/ \E p \in People : Pick(p)
        PROVE  Rests
    BY <2>1 DEF ChangeAccess, Pick, Rests
  <2>2. ASSUME NEW r \in Records, Create(r) \/ Restore(r) \/ Expire(r)
        PROVE  Promise!Create(r) \/ Promise!Alter(r) \/ Promise!Discard(r)
    BY <2>2, CreateCreates, RecordsChange
  <2>3. ASSUME NEW q \in Requests,
               \/ GiveUp(q) \/ LockPerson(q)
               \/ \E u \in Actors, p \in People :
                  BeginArchive(q, u, p) \/ BeginRestore(q, u, p) \/ BeginRemove(q, u, p)
               \/ \E p \in People : BeginPurge(q, p)
               \/ \E r \in Records : BeginStash(q, r) \/ BeginDelete(q, r)
               \/ \E r \in FollowUps, b \in BOOLEAN : BeginStatus(q, r, b)
        PROVE  Rests
    BY <2>3 DEF GiveUp, LockPerson, BeginArchive, BeginRestore, BeginRemove, BeginPurge, BeginStash,
                BeginDelete, BeginStatus, lifecycle, Rests
  <2>4. ASSUME NEW q \in Requests, CommitArchive(q) \/ CommitRestore(q) \/ Remove(q) \/ Purge(q)
        PROVE  \/ Rests
               \/ \E p \in People : Promise!Archive(p) \/ Promise!Restore(p) \/ Promise!Remove(p)
    <3>1. PICK p : p = job[q].person
      OBVIOUS
    <3>2. p \in People
      BY <1>1, <2>4, <3>1, HolderShape, WriterShape DEF CommitArchive, CommitRestore, Remove, Purge
    <3>3. ASSUME CommitArchive(q) PROVE Promise!Archive(p)
      <4>1. Sweeps(q)
        BY <3>3 DEF CommitArchive, Sweeps
      <4>2. QED BY <1>1, <3>1, <4>1, SweepsArchive
    <3>4. ASSUME CommitRestore(q) PROVE Promise!Restore(p) \/ Rests
      BY <3>1, <3>4, RestoresRestore DEF Restores
    <3>5. ASSUME Remove(q) \/ Purge(q) PROVE Promise!Remove(p)
      BY <3>1, <3>5, RemovesRemove DEF Removes
    <3>6. QED BY <2>4, <3>2, <3>3, <3>4, <3>5
  <2>5. ASSUME NEW q \in Requests, Stash(q) \/ SetStatus(q) \/ Delete(q)
        PROVE  \E r \in Records : Promise!Alter(r) \/ Promise!Discard(r)
    <3>1. PICK r : r = job[q].rec
      OBVIOUS
    <3>2. r \in Records
      BY <1>1, <2>5, <3>1, WriterShape DEF Stash, SetStatus, Delete
    <3>3. Promise!Alter(r) \/ Promise!Discard(r)
      BY <2>5, <3>1, RecordsChange
    <3>4. QED BY <3>2, <3>3
  <2>6. QED
    BY <1>2, <1>3, <1>4, <1>7, <2>1, <2>2, <2>3, <2>4, <2>5 DEF LifecycleNext
<1>8. ASSUME NEW q \in Requests,
             \/ \E a \in Asks :
                \/ BeginSubmit(q, a) \/ BeginCancel(q, a)
                \/ \E u \in Actors :
                    BeginDeny(q, u, a) \/ BeginReview(q, u, a) \/ BeginCounselingApproval(q, u, a)
             \/ CheckSubmit(q) \/ LockAsk(q) \/ LockReviewed(q)
      PROVE  Rests /\ UNCHANGED ask
  BY <1>8 DEF BeginSubmit, BeginCancel, BeginDeny, BeginReview, BeginCounselingApproval, CheckSubmit,
              LockAsk, LockReviewed, lifecycle, Rests
<1>9. ASSUME NEW q \in Requests,
             Submit(q) \/ Cancel(q) \/ Deny(q) \/ ApproveCounseling(q) \/ CommitReview(q)
      PROVE  Promise!Next
  <2>1. PICK a : a = job[q].ask
    OBVIOUS
  <2>2. a \in Asks
    BY <1>1, <1>9, <2>1, HolderShape, WriterShape
       DEF Submit, Cancel, Deny, ApproveCounseling, CommitReview
  <2>3. Promise!Ask(a) \/ Promise!TurnDown(a) \/ Promise!Approve(a)
    BY <1>1, <1>9, <2>1, AsksDecided
  <2>4. QED BY <1>5, <2>2, <2>3
<1>10. QED BY <1>2, <1>6, <1>7, <1>8, <1>9 DEF Next

-----------------------------------------------------------------------------
(* The theorems *)

\* The inductive invariant holds throughout.
THEOREM Invariant == Spec => []IInv
  BY InitIInv, NextIInv, PTL DEF Spec

\* Every variable keeps its type.
THEOREM TypeCorrect == Spec => []TypeOK
<1>1. IInv => TypeOK
  BY DEF IInv
<1>2. QED BY Invariant, <1>1, PTL

\* Two submissions never leave two pending requests for one target.
THEOREM OnePending == Spec => []OnePendingPerTarget
<1>1. IInv => OnePendingPerTarget
  BY DEF IInv
<1>2. QED BY Invariant, <1>1, PTL

\* A restore returns the records its archive swept.
THEOREM RestoresTheEvent == Spec => RestoreReturnsTheEvent
<1>1. ASSUME IInv, [Next]_vars, NEW p \in People, Archived(person[p]), person'[p] = Active,
             NEW r \in RecordsOf(p)
      PROVE  at'[r] = IF r \in swept THEN Active ELSE at[r]
  <2>0. /\ TypeOK /\ SweptByEvent
        /\ person \in [People -> Stamps \cup {Active, Gone}]
        /\ at \in [Records -> Stamps \cup {Active, Gone, Unborn}]
        /\ r \in Records /\ PersonOf[r] = p
    BY <1>1 DEF IInv, TypeOK, LifecycleTypeOK, RecordsOf
  <2>1. person'[p] # person[p]
    BY <1>1 DEF Archived, Active
  <2>2. ASSUME NEW q \in Requests, Sweeps(q) PROVE FALSE
    BY <1>1, <2>0, <2>1, <2>2 DEF Sweeps, Sweep, Archived, Active
  <2>3. ASSUME NEW q \in Requests, Removes(q) PROVE FALSE
    BY <1>1, <2>0, <2>3 DEF Removes, Remove, Purge, RemovePerson, Archived, Active, Gone
  <2>4. PICK q \in Requests : Restores(q)
    BY <2>0, <1>1, <2>1, <2>2, <2>3, RowEffect DEF Rests, Create, Writes
  <2>5. job[q].person = p
    BY <2>0, <2>1, <2>4 DEF Restores, CommitRestore
  <2>6. at'[r] = IF at[r] = person[p] THEN Active ELSE at[r]
    BY <1>1, <2>0, <2>4, <2>5 DEF Restores, CommitRestore, RecordsOf
  <2>7. QED BY <1>1, <2>0, <2>6 DEF SweptByEvent, Archived
<1>2. IInv /\ [Next]_vars =>
        [\A p \in People : Archived(person[p]) /\ person'[p] = Active =>
            \A r \in RecordsOf(p) :
                at'[r] = IF r \in swept THEN Active ELSE at[r]]_lifecycleVars
  BY <1>1
<1>3. QED BY Invariant, <1>2, PTL DEF Spec, RestoreReturnsTheEvent

\* People go from the archive only.
THEOREM RemovedFromArchive == Spec => PeopleGoArchived
<1>1. ASSUME IInv, [Next]_vars, NEW p \in People, Present(person[p]), person'[p] = Gone
      PROVE  /\ Archived(person[p]) /\ p \notin picked
             /\ \A q \in Requests : job[q].op = "purge" /\ job'[q] = Idle =>
                    person[p] + Retention < clock
  <2>0. /\ TypeOK /\ PurgeCutoff /\ person \in [People -> Stamps \cup {Active, Gone}]
        /\ clock \in Nat /\ person[p] \in Int /\ Retention \in Nat
    BY <1>1, TimeTypes, LifecycleAssumption DEF IInv, TypeOK, LifecycleTypeOK
  <2>1. person'[p] # person[p]
    BY <1>1 DEF Present, Active, Gone
  <2>2. ASSUME NEW q \in Requests, Sweeps(q) PROVE FALSE
    <3>1. job[q].stamp \in Nat
      BY <2>0, <2>2, TimeTypes DEF Sweeps, Stamped, StampedOps
    <3>2. QED BY <1>1, <2>0, <2>1, <2>2, <3>1 DEF Sweeps, Sweep, Gone
  <2>3. ASSUME NEW q \in Requests, Restores(q) PROVE FALSE
    BY <1>1, <2>0, <2>1, <2>3 DEF Restores, CommitRestore, Active, Gone
  <2>4. PICK q \in Requests : Removes(q)
    BY <2>0, <1>1, <2>1, <2>2, <2>3, RowEffect DEF Rests, Create, Writes
  <2>5. /\ job[q].person = p /\ Archived(person[p]) /\ p \notin picked /\ Finish(q)
        /\ job[q].op = "purge" => person[p] < job[q].cutoff
    BY <2>0, <2>1, <2>4 DEF Removes, Remove, Purge, StillExpired, RemovePerson
  <2>6. ASSUME NEW x \in Requests, job[x].op = "purge", job'[x] = Idle
        PROVE  person[p] + Retention < clock
    <3>1. x = q
      BY <2>0, <2>5, <2>6, Finished, IdleJob
    <3>2. job[q].cutoff + Retention <= clock /\ job[q].cutoff \in Int
      BY <2>0, <2>6, <3>1, WriterShape DEF PurgeCutoff
    <3>3. QED BY <2>0, <2>5, <2>6, <3>1, <3>2
  <2>7. QED BY <2>5, <2>6
<1>2. IInv /\ [Next]_vars =>
        [\A p \in People : Present(person[p]) /\ person'[p] = Gone =>
            /\ Archived(person[p]) /\ p \notin picked
            /\ \A q \in Requests : job[q].op = "purge" /\ job'[q] = Idle =>
                person[p] + Retention < clock]_lifecycleVars
  BY <1>1
<1>3. QED BY Invariant, <1>2, PTL DEF Spec, PeopleGoArchived

\* A file that somebody deletes is still archived.
THEOREM FilesDeletedArchived == Spec => FilesGoArchived
<1>1. ASSUME IInv, [Next]_vars, NEW r \in Files, DeletedAlone(r) PROVE Archived(at[r])
  <2>0. /\ TypeOK /\ r \in Records /\ job \in [Requests -> Jobs]
        /\ at \in [Records -> Stamps \cup {Active, Gone, Unborn}]
        /\ at'[r] # at[r] /\ at'[r] = Gone
    BY <1>1 DEF IInv, TypeOK, LifecycleTypeOK, Records, DeletedAlone, Present, Active, Gone
  <2>1. PICK d \in Requests : job[d].op = "delete" /\ job'[d] = Idle
    BY <1>1 DEF DeletedAlone
  <2>2. ASSUME NEW q \in Requests, Finish(q), job[q].op # "delete" PROVE FALSE
    BY <2>0, <2>1, <2>2, Finished, IdleJob
  <2>3. ASSUME NEW q \in Requests, Sweeps(q) \/ Restores(q) \/ Removes(q) PROVE FALSE
    BY <2>2, <2>3 DEF Sweeps, Restores, CommitRestore, Removes, Remove, Purge
  <2>4. ASSUME NEW y \in Records, Create(y) PROVE FALSE
    BY <2>0, <2>1, <2>4, IdleJob DEF Create
  <2>5. PICK y \in Records, x \in Stamps \cup {Active, Gone} : Writes(y, x)
    BY <2>0, <1>1, <2>3, <2>4, RowEffect DEF Rests
  <2>6. y = r /\ x = Gone
    BY <2>0, <2>5 DEF Writes, Write
  <2>7. PICK q \in Requests : Delete(q) /\ job[q].rec = r
    BY <2>1, <2>5, <2>6 DEF Writes
  <2>8. at[r] \in Stamps
    BY <1>1, <2>0, <2>7, WriterShape DEF Delete, AsSeen
  <2>9. QED BY <2>8 DEF Archived, Active, Stamps
<1>2. IInv /\ [Next]_vars => [\A r \in Files : DeletedAlone(r) => Archived(at[r])]_lifecycleVars
  BY <1>1
<1>3. QED BY Invariant, <1>2, PTL DEF Spec, FilesGoArchived

\* Archives and restores take effect by access that is current then.
THEOREM LifecycleAuthorized == Spec => LifecycleByAuthority
<1>1. ASSUME IInv, [Next]_vars, NEW q \in Requests,
             job[q].op \in {"archiving", "restoring"}, job'[q] = Idle,
             person' # person, job[q].op = "archiving" => job[q].ask = Direct
      PROVE  CanConfigure(job[q].who)
  <2>0. TypeOK
    BY <1>1 DEF IInv
  <2>1. ASSUME NEW x \in Requests, Finish(x) PROVE x = q
    BY <1>1, <2>0, <2>1, Finished, IdleJob
  <2>2. ASSUME NEW x \in Requests, Removes(x) PROVE FALSE
    BY <1>1, <2>1, <2>2 DEF Removes, Remove, Purge
  <2>3. ASSUME NEW x \in Requests, Restores(x) PROVE CanConfigure(job[q].who)
    BY <2>1, <2>3 DEF Restores, CommitRestore, StillMay
  <2>4. ASSUME NEW x \in Requests, CommitArchive(x) PROVE CanConfigure(job[q].who)
    BY <2>1, <2>4 DEF CommitArchive, StillMay
  <2>5. ASSUME NEW x \in Requests, CommitReview(x) PROVE FALSE
    BY <1>1, <2>1, <2>5 DEF CommitReview
  <2>6. ASSUME NEW x \in Requests, Sweeps(x) PROVE CommitArchive(x) \/ CommitReview(x)
    BY <2>6 DEF Sweeps
  <2>7. QED
    BY <1>1, <2>0, <2>2, <2>3, <2>4, <2>5, <2>6, RowEffect DEF Rests, Create, Writes
<1>2. IInv /\ [Next]_vars =>
        [\A q \in Requests :
            /\ job[q].op \in {"archiving", "restoring"} /\ job'[q] = Idle
            /\ person' # person /\ (job[q].op = "archiving" => job[q].ask = Direct)
            => CanConfigure(job[q].who)]_lifecycleVars
  BY <1>1
<1>3. QED BY Invariant, <1>2, PTL DEF Spec, LifecycleByAuthority

\* The first decision stands, and an archive under way is the only one that
\* decides its request.
THEOREM FirstDecisionStands == Spec => DecisionsStand
<1>1. ASSUME IInv, [Next]_vars, NEW a \in Asks, ask[a] \in Decided PROVE ask'[a] = ask[a]
  <2>0. /\ TypeOK /\ ReviewHolds /\ SubmitsNew
        /\ ask \in [Asks -> {"new", "pending"} \cup Decided]
        /\ ask[a] \notin {"new", "pending"}
    BY <1>1 DEF IInv, TypeOK, Decided
  <2>1. ASSUME NEW q \in Requests, Submits(q) PROVE job[q].ask # a
    BY <2>0, <2>1 DEF Submits, SubmitsNew
  <2>2. ASSUME NEW q \in Requests, Decides(q) PROVE job[q].ask # a
    BY <2>0, <2>2 DEF Decides
  <2>3. ASSUME NEW q \in Requests, CommitReview(q) PROVE job[q].ask # a
    BY <2>0, <2>3 DEF CommitReview, ReviewHolds, Reviews
  <2>4. QED
    BY <1>1, <2>0, <2>1, <2>2, <2>3, AskEffect DEF Submits, Decides, CommitReview
<1>2. ASSUME IInv, [Next]_vars, NEW q \in Requests, job[q].op = "archiving", job[q].ask # Direct
      PROVE  LET a == job[q].ask
                 p == job[q].person
             IN  /\ ask'[a] # ask[a] => ask'[a] = "approved" /\ Archived(person'[p])
                 /\ job'[q] = Idle /\ person'[p] # person[p] => ask'[a] = "approved"
  <2> DEFINE a == job[q].ask
             p == job[q].person
  <2>0. /\ TypeOK /\ ReviewHolds /\ SubmitsNew /\ job \in [Requests -> Jobs]
        /\ ask \in [Asks -> {"new", "pending"} \cup Decided]
        /\ person \in [People -> Stamps \cup {Active, Gone}]
        /\ a \in Asks /\ p \in People /\ job[q].stamp \in Nat /\ job[q].stamp > 0
        /\ Reviews(q) /\ ask[a] = "pending" /\ job[q] # Idle
    BY <1>2, HolderShape, TimeTypes, IdleJob
       DEF IInv, TypeOK, LifecycleTypeOK, Reviews, ReviewHolds, Stamped, StampedOps
  <2>1. ASSUME CommitReview(q) PROVE ask'[a] = "approved" /\ Archived(person'[p])
    BY <2>0, <2>1 DEF CommitReview, Sweep, Archived, Active
  <2>2. ASSUME NEW x \in Requests, CommitReview(x), job[x].ask = a PROVE x = q
    BY <2>0, <2>2 DEF CommitReview, ReviewHolds, Reviews
  <2>3. ASSUME NEW x \in Requests, Submits(x) PROVE job[x].ask # a
    BY <2>0, <2>3 DEF Submits, SubmitsNew
  <2>4. ASSUME NEW x \in Requests, Decides(x) PROVE job[x].ask # a
    BY <1>2, <2>4 DEF Decides, AskFree
  <2>5. ask'[a] # ask[a] => CommitReview(q)
    BY <1>2, <2>0, <2>2, <2>3, <2>4, AskEffect DEF Submits, Decides, CommitReview
  <2>6. ASSUME job'[q] = Idle, person'[p] # person[p] PROVE CommitReview(q)
    <3>1. ASSUME NEW x \in Requests, Finish(x) PROVE x = q
      BY <2>0, <2>6, <3>1, Finished, IdleJob
    <3>2. ASSUME NEW x \in Requests, Restores(x) \/ Removes(x) PROVE FALSE
      BY <1>2, <3>1, <3>2 DEF Restores, CommitRestore, Removes, Remove, Purge
    <3>3. PICK x \in Requests : Sweeps(x)
      BY <1>2, <2>0, <2>6, <3>2, RowEffect DEF Rests, Create, Writes
    <3>4. x = q
      BY <3>1, <3>3 DEF Sweeps
    <3>5. QED BY <1>2, <3>3, <3>4 DEF Sweeps, CommitArchive
  <2>7. QED BY <2>1, <2>5, <2>6
<1>3. IInv /\ [Next]_vars =>
        [/\ \A a \in Asks : ask[a] \in Decided => ask'[a] = ask[a]
         /\ \A q \in Requests : job[q].op = "archiving" /\ job[q].ask # Direct =>
                LET a == job[q].ask
                    p == job[q].person
                IN  /\ ask'[a] # ask[a] => ask'[a] = "approved" /\ Archived(person'[p])
                    /\ job'[q] = Idle /\ person'[p] # person[p] => ask'[a] = "approved"]_vars
  BY <1>1, <1>2
<1>4. QED BY Invariant, <1>3, PTL DEF Spec, DecisionsStand

\* Cancellations and approvals take effect by access that is current then.
THEOREM DecisionsAuthorized == Spec => DecidedByAuthority
<1>1. ASSUME IInv, [Next]_vars, NEW q \in Requests, job'[q] = Idle, ask' # ask,
             job[q].op \in {"cancel", "archiving"}
      PROVE  /\ job[q].op = "cancel" => AskedBy[job[q].ask] \in admitted
             /\ job[q].op = "archiving" => CanReview(job[q].who)
  <2>0. TypeOK
    BY <1>1 DEF IInv
  <2>1. ASSUME NEW x \in Requests, Finish(x) PROVE x = q
    BY <1>1, <2>0, <2>1, Finished, IdleJob
  <2>2. ASSUME NEW x \in Requests, Submits(x) PROVE FALSE
    BY <1>1, <2>1, <2>2 DEF Submits
  <2>3. ASSUME NEW x \in Requests, Decides(x)
        PROVE  job[q].op = "cancel" /\ AskedBy[job[q].ask] \in admitted
    BY <1>1, <2>1, <2>3 DEF Decides
  <2>4. ASSUME NEW x \in Requests, CommitReview(x)
        PROVE  job[q].op = "archiving" /\ CanReview(job[q].who)
    BY <2>1, <2>4 DEF CommitReview, StillReviewer
  <2>5. QED BY <1>1, <2>0, <2>2, <2>3, <2>4, AskEffect
<1>2. IInv /\ [Next]_vars =>
        [\A q \in Requests : job'[q] = Idle =>
            /\ job[q].op = "cancel" /\ ask' # ask => AskedBy[job[q].ask] \in admitted
            /\ job[q].op = "archiving" /\ ask' # ask => CanReview(job[q].who)]_vars
  BY <1>1
<1>3. QED BY Invariant, <1>2, PTL DEF Spec, DecidedByAuthority

\* People, their records and the deletion requests about them keep what the
\* archive promises.
THEOREM Implements == Spec => ImplementsArchive
<1>1. IInv /\ [Next]_vars => [Promise!Next]_<<standings, keeping, done, ask>>
  BY StepPromise
<1>2. [Promise!Next]_<<standings, keeping, done, ask>> => [Promise!Next]_<<Promise!rows, ask>>
  BY DEF Promise!rows
<1>3. QED BY Invariant, InitPromise, <1>1, <1>2, PTL DEF Spec, ImplementsArchive, Promise!Spec

=============================================================================
