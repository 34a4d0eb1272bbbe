------------------------- MODULE PersonnelLifecycle -------------------------
(***************************************************************************)
(* The People of one Organization and the records kept about them: files   *)
(* (counseling records and documents), follow-ups and leader notes.        *)
(* Archiving a Person archives the records that are active then with the   *)
(* time of that event; restoring the Person restores the records that      *)
(* carry it.  Records are also archived, restored and deleted one by one,  *)
(* archived People are removed by hand, and a nightly run removes whatever *)
(* has been archived for longer than the retention period.                 *)
(*                                                                         *)
(* A request reads a row, decides, and writes later.  The functions that   *)
(* archive and restore hold the Person's row FOR NO KEY UPDATE: a job      *)
(* whose op is "archiving" or "restoring".  Such a function writes several *)
(* tables, each row is locked until the commit and nobody reads two rows   *)
(* of one transaction between, so its writes are one step, the commit.     *)
(* Who may write a single record is left out.                              *)
(***************************************************************************)
EXTENDS Integers

CONSTANTS
    People, Files, FollowUps, Notes,
    PersonOf,       \* the Person each record is about
    Actors,
    Configurers,    \* actors whose access has Personnel configure
    Asks,           \* deletion requests by whose approval People are archived
    Direct,         \* marks an archive that no deletion request asked for
    Requests,       \* slots for requests under way
    Retention,      \* how long archived rows are kept
    MaxClock        \* bound on the number of timestamps taken

Records == Files \cup FollowUps \cup Notes

\* archived_at: a time, or one of these
Active == 0
Gone == -1
Unborn == -2
Stamps == 1..MaxClock

ASSUME LifecycleAssumption ==
    /\ PersonOf \in [Records -> People]
    /\ Configurers \subseteq Actors
    /\ Files \cap FollowUps = {} /\ Notes \cap (Files \cup FollowUps) = {}
    /\ Direct \notin Asks
    /\ Retention \in Nat /\ MaxClock \in Nat

VARIABLES
    person,    \* archived_at of each Person
    at,        \* archived_at of each record
    done,      \* follow-ups with completed_at
    clock,     \* the last time a request took
    picked,    \* People that external taskings name
    admitted,  \* actors with current access to the Organization
    swept,     \* records that the archive of their Person archived
    job        \* the request in each slot

lifecycle == <<person, at, done, clock, picked, admitted, swept>>
lifecycleVars == <<lifecycle, job>>

Idle == [op |-> "idle"]
LifecycleJobs ==
    {Idle}
      \cup [op : {"archive", "archiving"}, who : Actors, person : People,
            stamp : Stamps, ask : Asks \cup {Direct}]
      \cup [op : {"restore", "restoring"}, who : Actors, person : People]
      \cup [op : {"remove"}, person : People]
      \cup [op : {"purge"}, person : People, cutoff : Int]
      \cup [op : {"stash"}, rec : Records, stamp : Stamps]
      \cup [op : {"status"}, rec : FollowUps, done : BOOLEAN]
      \cup [op : {"delete"}, rec : Records, seen : Stamps]

LifecycleTypeOK ==
    /\ person \in [People -> Stamps \cup {Active, Gone}]
    /\ at \in [Records -> Stamps \cup {Active, Gone, Unborn}]
    /\ done \subseteq FollowUps
    /\ clock \in Stamps \cup {0}
    /\ picked \subseteq People
    /\ admitted \subseteq Actors
    /\ swept \subseteq Records

LifecycleInit ==
    /\ person = [p \in People |-> Active]
    /\ at = [r \in Records |-> Unborn]
    /\ done = {} /\ picked = {} /\ swept = {}
    /\ clock = 0
    /\ admitted = Actors
    /\ job = [q \in Requests |-> Idle]

Present(x) == x >= Active
Archived(x) == x > Active
RecordsOf(p) == {r \in Records : PersonOf[r] = p}
CanConfigure(u) == u \in Configurers \cap admitted

PersonFree(p) ==
    \A q \in Requests :
        job[q].op \in {"archiving", "restoring"} => job[q].person # p

Start(q, j) == job[q] = Idle /\ job' = [job EXCEPT ![q] = j]
Finish(q) == job' = [job EXCEPT ![q] = Idle]

\* refused, failed or rolled back
GiveUp(q) == job[q] # Idle /\ Finish(q) /\ UNCHANGED lifecycle

\* new Date() of a request.  No two requests take the same time: archived_at
\* has milliseconds, and two events within one would be one event to a restore.
TakeTime == clock < MaxClock /\ clock' = clock + 1

ChangeAccess(u) ==
    /\ admitted' = IF u \in admitted THEN admitted \ {u} ELSE admitted \cup {u}
    /\ UNCHANGED <<person, at, done, clock, picked, swept, job>>

Pick(p) ==
    /\ Present(person[p])
    /\ picked' = IF p \in picked THEN picked \ {p} ELSE picked \cup {p}
    /\ UNCHANGED <<person, at, done, clock, admitted, swept, job>>

-----------------------------------------------------------------------------
(* Archiving and restoring a Person *)

\* An archived Person may be archived again.
BeginArchive(q, u, p) ==
    /\ Present(person[p]) /\ CanConfigure(u)
    /\ TakeTime
    /\ Start(q, [op |-> "archive", who |-> u, person |-> p, stamp |-> clock', ask |-> Direct])
    /\ UNCHANGED <<person, at, done, picked, admitted, swept>>

BeginRestore(q, u, p) ==
    /\ Archived(person[p]) /\ CanConfigure(u)
    /\ Start(q, [op |-> "restore", who |-> u, person |-> p])
    /\ UNCHANGED lifecycle

\* The function's own check and the row lock.
LockPerson(q) ==
    /\ \/ job[q].op = "archive" /\ job' = [job EXCEPT ![q].op = "archiving"]
       \/ job[q].op = "restore" /\ job' = [job EXCEPT ![q].op = "restoring"]
    /\ PersonFree(job[q].person)
    /\ Present(person[job[q].person]) /\ CanConfigure(job[q].who)
    /\ UNCHANGED lifecycle

\* Faulty variant: children take the time of this request.
EventTimeFaulty(p, stamp) == stamp

\* Children take the time the Person carries after its own update.
EventTime(p, stamp) == IF Archived(person[p]) THEN person[p] ELSE stamp

\* A completed follow-up stays as it is.
Sweep(p, stamp) ==
    LET taken == {r \in RecordsOf(p) : at[r] = Active /\ r \notin done}
    IN  /\ person' = [person EXCEPT ![p] = IF Archived(@) THEN @ ELSE stamp]
        /\ at' = [r \in Records |-> IF r \in taken THEN EventTime(p, stamp) ELSE at[r]]
        /\ swept' = swept \cup taken
        /\ UNCHANGED <<done, clock, picked, admitted>>

\* Faulty variant: access is not looked at again after the waits.
StillMayFaulty(u) == TRUE

StillMay(u) == CanConfigure(u)

CommitArchive(q) ==
    /\ job[q].op = "archiving" /\ job[q].ask = Direct
    /\ StillMay(job[q].who)
    /\ Sweep(job[q].person, job[q].stamp)
    /\ Finish(q)

CommitRestore(q) ==
    /\ job[q].op = "restoring"
    /\ StillMay(job[q].who)
    /\ LET p == job[q].person
           back == {r \in RecordsOf(p) : at[r] = person[p]}
       IN  IF Archived(person[p])
           THEN /\ at' = [r \in Records |-> IF r \in back THEN Active ELSE at[r]]
                /\ person' = [person EXCEPT ![p] = Active]
                /\ swept' = swept \ back
           ELSE UNCHANGED <<at, person, swept>>
    /\ Finish(q)
    /\ UNCHANGED <<done, clock, picked, admitted>>

-----------------------------------------------------------------------------
(* Removing a Person *)

BeginRemove(q, u, p) ==
    /\ Archived(person[p]) /\ p \notin picked /\ CanConfigure(u)
    /\ Start(q, [op |-> "remove", person |-> p])
    /\ UNCHANGED lifecycle

\* The nightly run reads its candidates with the cutoff of the run.
BeginPurge(q, p) ==
    /\ Archived(person[p]) /\ person[p] < clock - Retention
    /\ Start(q, [op |-> "purge", person |-> p, cutoff |-> clock - Retention])
    /\ UNCHANGED lifecycle

\* The delete waits for the row and judges it as it is then; picks hold the
\* Person by a foreign key that is checked at the commit.
RemovePerson(p) ==
    /\ PersonFree(p)
    /\ p \notin picked
    /\ person' = [person EXCEPT ![p] = Gone]
    /\ at' = [r \in Records |-> IF r \in RecordsOf(p) /\ Present(at[r]) THEN Gone ELSE at[r]]
    /\ done' = done \ RecordsOf(p)
    /\ swept' = swept \ RecordsOf(p)
    /\ UNCHANGED <<clock, picked, admitted>>

\* By the policy on deletes.
Remove(q) ==
    /\ job[q].op = "remove"
    /\ Archived(person[job[q].person])
    /\ RemovePerson(job[q].person)
    /\ Finish(q)

\* Faulty variant: the run deletes the candidates it has read.
StillExpiredFaulty(p, cutoff) == Present(person[p])

StillExpired(p, cutoff) == Archived(person[p]) /\ person[p] < cutoff

Purge(q) ==
    /\ job[q].op = "purge"
    /\ StillExpired(job[q].person, job[q].cutoff)
    /\ RemovePerson(job[q].person)
    /\ Finish(q)

-----------------------------------------------------------------------------
(* Single records *)

\* A record of an archived Person may be created, too.
Create(r) ==
    /\ at[r] = Unborn /\ Present(person[PersonOf[r]])
    /\ at' = [at EXCEPT ![r] = Active]
    /\ UNCHANGED <<person, done, clock, picked, admitted, swept, job>>

\* Single statements on a row that is still there.
Write(r, x) ==
    /\ Present(at[r])
    /\ at' = [at EXCEPT ![r] = x]
    /\ swept' = swept \ {r}

\* A follow-up that is archived already may be archived again.
BeginStash(q, r) ==
    /\ Present(at[r]) /\ (Archived(at[r]) => r \in FollowUps)
    /\ TakeTime
    /\ Start(q, [op |-> "stash", rec |-> r, stamp |-> clock'])
    /\ UNCHANGED <<person, at, done, picked, admitted, swept>>

Stash(q) ==
    /\ job[q].op = "stash"
    /\ Write(job[q].rec, job[q].stamp)
    /\ Finish(q)
    /\ UNCHANGED <<person, done, clock, picked, admitted>>

\* The write does not ask whether the record is archived (still).
Restore(r) ==
    /\ Write(r, Active)
    /\ UNCHANGED <<person, done, clock, picked, admitted, job>>

BeginStatus(q, r, b) ==
    /\ at[r] = Active
    /\ Start(q, [op |-> "status", rec |-> r, done |-> b])
    /\ UNCHANGED lifecycle

\* It also clears archived_at.
SetStatus(q) ==
    /\ job[q].op = "status"
    /\ Write(job[q].rec, Active)
    /\ done' = IF job[q].done THEN done \cup {job[q].rec} ELSE done \ {job[q].rec}
    /\ Finish(q)
    /\ UNCHANGED <<person, clock, picked, admitted>>

\* Archive them before deleting them.
MayDelete(r) == Archived(at[r])

BeginDelete(q, r) ==
    /\ MayDelete(r)
    /\ Start(q, [op |-> "delete", rec |-> r, seen |-> at[r]])
    /\ UNCHANGED lifecycle

\* Faulty variant: files are deleted like follow-ups and notes.
AsSeenFaulty(r, seen) == TRUE

\* The function that deletes a file compares archived_at; follow-ups and notes
\* are deleted by their id.
AsSeen(r, seen) == r \in Files => at[r] = seen

Drop(r) == Write(r, Gone) /\ done' = done \ {r}

Delete(q) ==
    /\ job[q].op = "delete"
    /\ AsSeen(job[q].rec, job[q].seen)
    /\ Drop(job[q].rec)
    /\ Finish(q)
    /\ UNCHANGED <<person, clock, picked, admitted>>

\* One conditional statement of the nightly run.
Expire(r) ==
    /\ Archived(at[r]) /\ at[r] < clock - Retention
    /\ Drop(r)
    /\ UNCHANGED <<person, clock, picked, admitted, job>>

LifecycleNext ==
    \/ \E u \in Actors : ChangeAccess(u)
    \/ \E p \in People : Pick(p)
    \/ \E r \in Records : Create(r) \/ Restore(r) \/ Expire(r)
    \/ \E q \in Requests :
        \/ GiveUp(q)
        \/ \E u \in Actors, p \in People :
            BeginArchive(q, u, p) \/ BeginRestore(q, u, p) \/ BeginRemove(q, u, p)
        \/ \E p \in People : BeginPurge(q, p)
        \/ \E r \in Records : BeginStash(q, r) \/ BeginDelete(q, r)
        \/ \E r \in FollowUps, b \in BOOLEAN : BeginStatus(q, r, b)
        \/ LockPerson(q) \/ CommitArchive(q) \/ CommitRestore(q)
        \/ Remove(q) \/ Purge(q) \/ Stash(q) \/ SetStatus(q) \/ Delete(q)

LifecycleSpec == LifecycleInit /\ [][LifecycleNext]_lifecycleVars

-----------------------------------------------------------------------------
(* Properties *)

\* Restoring a Person brings back exactly the records that its archive, or an
\* archive repeated since, has archived and nobody has touched by itself.
RestoreReturnsTheEvent ==
    [][\A p \in People : Archived(person[p]) /\ person'[p] = Active =>
        \A r \in RecordsOf(p) :
            at'[r] = IF r \in swept THEN Active ELSE at[r]]_lifecycleVars

\* A Person goes only from the archive, while no tasking names it; the nightly
\* run takes nobody who was restored, or archived anew, since it read its
\* candidates.
PeopleGoArchived ==
    [][\A p \in People : Present(person[p]) /\ person'[p] = Gone =>
        /\ Archived(person[p]) /\ p \notin picked
        /\ \A q \in Requests : job[q].op = "purge" /\ job'[q] = Idle =>
            person[p] + Retention < clock]_lifecycleVars

\* record r goes by a deletion somebody asked for
DeletedAlone(r) ==
    /\ Present(at[r]) /\ at'[r] = Gone
    /\ \E q \in Requests : job[q].op = "delete" /\ job'[q] = Idle

\* A file somebody deletes was not restored since they found it archived.
FilesGoArchived == [][\A r \in Files : DeletedAlone(r) => Archived(at[r])]_lifecycleVars

\* What the documentation says of all of them.
ArtifactsGoArchived == [][\A r \in Records : DeletedAlone(r) => Archived(at[r])]_lifecycleVars

\* Nobody archives or restores a Person by access that was lost while the
\* request waited for rows.
LifecycleByAuthority ==
    [][\A q \in Requests :
        /\ job[q].op \in {"archiving", "restoring"} /\ job'[q] = Idle
        /\ person' # person /\ (job[q].op = "archiving" => job[q].ask = Direct)
        => CanConfigure(job[q].who)]_lifecycleVars

=============================================================================
