-------------------------- MODULE DeletionRequests --------------------------
(***************************************************************************)
(* Members who may not archive a Person or delete a counseling record ask  *)
(* a reviewer to.  The module runs beside the Personnel lifecycle, whose   *)
(* rows an approval changes and whose row locks it waits for.              *)
(*                                                                         *)
(* A submission holds the advisory lock of its target from its check to    *)
(* its insert (op "submitting").  The approval of an archive holds the     *)
(* request's row FOR UPDATE (op "reviewing") and then the Person's row as  *)
(* well (op "archiving" with that request).  The other statements touch    *)
(* one request's row in one step, and wait while it is held.  Requests for *)
(* training and rating records are left out, so is the file of a deleted   *)
(* record: FileRetirement retires it.                                      *)
(***************************************************************************)
EXTENDS PersonnelLifecycle

CONSTANTS
    Reviewers,  \* actors who are an owner or admin of the Organization
    AskedBy,    \* the member who makes each request
    TargetOf    \* the Person or the counseling record it is about

Decided == {"approved", "denied", "cancelled"}

ASSUME DeletionRequestsAssumption ==
    /\ Reviewers \subseteq Actors
    /\ AskedBy \in [Asks -> Actors]
    /\ TargetOf \in [Asks -> People \cup Files]
    /\ People \cap Files = {}

VARIABLE ask  \* status of each deletion request

vars == <<lifecycle, job, ask>>

AsksAbout(S) == {a \in Asks : TargetOf[a] \in S}

Jobs ==
    LifecycleJobs
      \cup [op : {"submit", "submitting", "cancel", "deny"}, ask : Asks]
      \cup [op : {"approve"}, ask : AsksAbout(Files)]
      \cup [op : {"review", "reviewing"}, who : Actors, ask : AsksAbout(People), stamp : Stamps]

TypeOK ==
    /\ LifecycleTypeOK
    /\ job \in [Requests -> Jobs]
    /\ ask \in [Asks -> {"new", "pending"} \cup Decided]

Init == LifecycleInit /\ ask = [a \in Asks |-> "new"]

CanReview(u) == u \in Reviewers \cap admitted

TargetPresent(t) == IF t \in People THEN person[t] = Active ELSE Present(at[t])

AskFree(a) ==
    \A q \in Requests : job[q].op \in {"reviewing", "archiving"} => job[q].ask # a

\* Faulty variant: submissions do not take the lock.
TargetFreeFaulty(t) == TRUE

TargetFree(t) ==
    \A q \in Requests : job[q].op = "submitting" => TargetOf[job[q].ask] # t

-----------------------------------------------------------------------------
(* Submitting and cancelling *)

BeginSubmit(q, a) ==
    /\ ask[a] = "new" /\ \A x \in Requests : job[x].op \in {"submit", "submitting"} => job[x].ask # a
    /\ AskedBy[a] \in admitted /\ TargetPresent(TargetOf[a])
    /\ Start(q, [op |-> "submit", ask |-> a])
    /\ UNCHANGED <<lifecycle, ask>>

\* A retry finds the pending request of its first try.
CheckSubmit(q) ==
    /\ job[q].op = "submit"
    /\ TargetFree(TargetOf[job[q].ask])
    /\ \A b \in Asks : TargetOf[b] = TargetOf[job[q].ask] => ask[b] # "pending"
    /\ job' = [job EXCEPT ![q].op = "submitting"]
    /\ UNCHANGED <<lifecycle, ask>>

\* By service role: the target and the member are not looked at again.
Submit(q) ==
    /\ job[q].op = "submitting"
    /\ ask' = [ask EXCEPT ![job[q].ask] = "pending"]
    /\ Finish(q)
    /\ UNCHANGED lifecycle

BeginCancel(q, a) ==
    /\ ask[a] = "pending" /\ AskedBy[a] \in admitted
    /\ Start(q, [op |-> "cancel", ask |-> a])
    /\ UNCHANGED <<lifecycle, ask>>

\* Faulty variant: what was checked before the wait is not checked again.
StillPendingFaulty(a) == ask[a] # "new"

StillPending(a) == ask[a] = "pending"
StillMember(u) == u \in admitted

Cancel(q) ==
    /\ job[q].op = "cancel"
    /\ LET a == job[q].ask
       IN  /\ AskFree(a) /\ StillMember(AskedBy[a]) /\ StillPending(a)
           /\ ask' = [ask EXCEPT ![a] = "cancelled"]
    /\ Finish(q)
    /\ UNCHANGED lifecycle

-----------------------------------------------------------------------------
(* Reviewing *)

BeginDeny(q, u, a) ==
    /\ CanReview(u) /\ ask[a] = "pending"
    /\ Start(q, [op |-> "deny", ask |-> a])
    /\ UNCHANGED <<lifecycle, ask>>

Deny(q) ==
    /\ job[q].op = "deny"
    /\ AskFree(job[q].ask) /\ StillPending(job[q].ask)
    /\ ask' = [ask EXCEPT ![job[q].ask] = "denied"]
    /\ Finish(q)
    /\ UNCHANGED lifecycle

BeginCounselingApproval(q, u, a) ==
    /\ CanReview(u) /\ ask[a] = "pending"
    /\ TargetOf[a] \in Files /\ Present(at[TargetOf[a]])
    /\ Start(q, [op |-> "approve", ask |-> a])
    /\ UNCHANGED <<lifecycle, ask>>

\* The record goes whether it is archived or not; if it has gone already,
\* nothing is approved.
ApproveCounseling(q) ==
    /\ job[q].op = "approve"
    /\ AskFree(job[q].ask) /\ StillPending(job[q].ask)
    /\ ask' = [ask EXCEPT ![job[q].ask] = "approved"]
    /\ Drop(TargetOf[job[q].ask])
    /\ Finish(q)
    /\ UNCHANGED <<person, clock, picked, admitted>>

BeginReview(q, u, a) ==
    /\ CanReview(u) /\ ask[a] = "pending" /\ TargetOf[a] \in People
    /\ TakeTime
    /\ Start(q, [op |-> "review", who |-> u, ask |-> a, stamp |-> clock'])
    /\ UNCHANGED <<person, at, done, picked, admitted, swept, ask>>

LockAsk(q) ==
    /\ job[q].op = "review"
    /\ AskFree(job[q].ask) /\ StillPending(job[q].ask)
    /\ CanReview(job[q].who)
    /\ job' = [job EXCEPT ![q].op = "reviewing"]
    /\ UNCHANGED <<lifecycle, ask>>

\* From here on it is an archive like any other.
LockReviewed(q) ==
    /\ job[q].op = "reviewing"
    /\ LET p == TargetOf[job[q].ask]
       IN  /\ PersonFree(p) /\ Present(person[p])
           /\ job' = [job EXCEPT ![q] =
                [op |-> "archiving", who |-> @.who, person |-> p, stamp |-> @.stamp, ask |-> @.ask]]
    /\ UNCHANGED <<lifecycle, ask>>

\* Faulty variant: the reviewer is not looked at again after the waits.
StillReviewerFaulty(u) == TRUE

StillReviewer(u) == CanReview(u)

CommitReview(q) ==
    /\ job[q].op = "archiving" /\ job[q].ask # Direct
    /\ StillReviewer(job[q].who)
    /\ Sweep(job[q].person, job[q].stamp)
    /\ ask' = [ask EXCEPT ![job[q].ask] = "approved"]
    /\ Finish(q)

Next ==
    \/ LifecycleNext /\ UNCHANGED ask
    \/ \E q \in Requests :
        \/ \E a \in Asks :
            \/ BeginSubmit(q, a) \/ BeginCancel(q, a)
            \/ \E u \in Actors :
                BeginDeny(q, u, a) \/ BeginReview(q, u, a) \/ BeginCounselingApproval(q, u, a)
        \/ CheckSubmit(q) \/ Submit(q) \/ Cancel(q) \/ Deny(q)
        \/ ApproveCounseling(q)
        \/ LockAsk(q) \/ LockReviewed(q) \/ CommitReview(q)

Spec == Init /\ [][Next]_vars

-----------------------------------------------------------------------------
(* Properties *)

\* Submissions of the same request, a retry and its first try among them,
\* never leave two pending requests for one target.
OnePendingPerTarget ==
    \A a, b \in Asks :
        ask[a] = "pending" /\ ask[b] = "pending" /\ TargetOf[a] = TargetOf[b] => a = b

\* However a cancellation, a denial and approvals of one request overlap, the
\* first decision stands.  While the archive a request asks for waits or runs,
\* nothing else decides the request, and the archive approves it when it commits.
DecisionsStand ==
    [][/\ \A a \in Asks : ask[a] \in Decided => ask'[a] = ask[a]
       /\ \A q \in Requests : job[q].op = "archiving" /\ job[q].ask # Direct =>
            LET a == job[q].ask
                p == job[q].person
            IN  /\ ask'[a] # ask[a] => ask'[a] = "approved" /\ Archived(person'[p])
                /\ job'[q] = Idle /\ person'[p] # person[p] => ask'[a] = "approved"]_vars

\* Nobody decides by access that was lost while the decision waited for rows:
\* the reviewer whose archive commits may still review, and the member whose
\* cancellation takes effect still belongs to the Organization.
DecidedByAuthority ==
    [][\A q \in Requests : job'[q] = Idle =>
        /\ job[q].op = "cancel" /\ ask' # ask => AskedBy[job[q].ask] \in admitted
        /\ job[q].op = "archiving" /\ ask' # ask => CanReview(job[q].who)]_vars

-----------------------------------------------------------------------------
(* Both modules implement PersonnelArchive. *)

Standing(p) ==
    CASE person[p] = Active -> "active" [] person[p] = Gone -> "gone" [] OTHER -> "archived"

\* An archived record went with its Person when it has the Person's time.
RecordStanding(r) ==
    CASE at[r] = Unborn -> "unborn" [] at[r] = Active -> "active" [] at[r] = Gone -> "gone"
      [] Archived(at[r]) /\ at[r] = person[PersonOf[r]] -> "with"
      [] OTHER -> "alone"

standings == [p \in People |-> Standing(p)]
keeping == [r \in Records |-> RecordStanding(r)]

Promise == INSTANCE PersonnelArchive
    WITH standing <- standings, kept <- keeping, finished <- done, asked <- ask

\* The time that a Person and its records have in common stands for "archived
\* together", though requests take their times early and write them late in
\* any order: an archive and its restore are exact inverses, an approval takes
\* effect in the step that decides it, and a target is asked about once.
ImplementsArchive == Promise!Spec

=============================================================================
