---------------------------- MODULE AccountSetup ----------------------------
(***************************************************************************)
(* Account setup: an approved Access Request is sent setup links; the      *)
(* holder of a link claims it, the server asks the Auth provider to write  *)
(* a password, and the request is completed.  The provider's transaction   *)
(* may land long after the server stopped waiting for it, so every claim   *)
(* carries an attempt row that the provider's own transaction must commit  *)
(* (the witness) and that a status check can fence.                        *)
(*                                                                         *)
(* Every SQL function runs under the request row's lock and an advisory    *)
(* lock per normalised email, so each is one atomic action.  The steps of  *)
(* the server's handlers between those calls are separate actions, and a   *)
(* handler may die or time out between any two of them.                    *)
(***************************************************************************)
CONSTANTS
    Requests,   \* Access Request ids
    Links,      \* setup link ids; the pool bounds how many are ever issued
    Emails,     \* normalised addresses
    Checkers,   \* concurrent "Check setup status" calls
    RequestOf,  \* the request each link id belongs to
    NoLink

ASSUME SetupAssumption ==
    /\ RequestOf \in [Links -> Requests]
    /\ NoLink \notin Links
    /\ Links \cap Checkers = {}

VARIABLES
    status,     \* access_requests.status, "absent" before the row exists
    grant,      \* access_requests.approval_basis; "withdrawn" once no linked
                \* invitation of an invitation-based approval is still live
    email,      \* access_requests.email
    completed,  \* requests with setup_completed_at set
    mark,       \* the timestamp columns of account_setup_links that are set
    attempt,    \* account_setup_attempts.state of the link's attempt
    password,   \* the link whose setup wrote the account's password last
    step,       \* where completeSetupSession is for the link it claimed
    inflight,   \* links whose provider call may still commit
    checking,   \* where a recoverSetupSession call is
    target,     \* the link a recoverSetupSession call was made with
    source      \* claim.sourceLinkId that a handler is about to finish

requestVars == <<status, grant, email>>
sessionVars == <<step, inflight>>
checkVars == <<checking, target>>
vars == <<requestVars, completed, mark, attempt, password, sessionVars,
          checkVars, source>>

Columns == {"issued", "expired", "revoked", "claimed", "used", "failed"}
\* What completeSetupSession answers; "ended" stands for every answer but the
\* two that tell the person no password was set.
Answers == {"ended", "fresh-link-required", "account-create-failed"}
Steps == {"idle", "claimed", "calling", "success", "rejection", "mismatch",
          "error", "finishing"} \cup Answers

TypeOK ==
    /\ status \in [Requests -> {"absent", "pending", "approved", "rejected",
                                "rescinded"}]
    /\ grant \in [Requests -> {"none", "platform_review",
                               "organization_invitation", "withdrawn"}]
    /\ email \in [Requests -> Emails]
    /\ completed \subseteq Requests
    /\ mark \in [Links -> SUBSET Columns]
    /\ attempt \in [Links -> {"none", "started", "committed", "fenced"}]
    /\ password \in [Emails -> Links \cup {NoLink}]
    /\ step \in [Links -> Steps]
    /\ inflight \subseteq Links
    /\ checking \in [Checkers -> {"idle", "validated", "finishing"}]
    /\ target \in [Checkers -> Links \cup {NoLink}]
    /\ source \in [Links \cup Checkers -> Links \cup {NoLink}]

----------------------------------------------------------------------------
(* What the SQL functions read. *)

EmailOf(l) == email[RequestOf[l]]

\* Row of account_setup_links_one_active_per_request_idx: not yet claimed,
\* failed, used or revoked.  An expired link stays in the index.
Active(l) ==
    /\ "issued" \in mark[l]
    /\ "claimed" \notin mark[l] /\ "failed" \notin mark[l]
    /\ "used" \notin mark[l] /\ "revoked" \notin mark[l]

\* A claim holds password setup until it is used or failed; neither expiry
\* nor revocation ends it.
Held(l) ==
    "claimed" \in mark[l] /\ "used" \notin mark[l] /\ "failed" \notin mark[l]

HeldFor(e) == {l \in Links : Held(l) /\ EmailOf(l) = e}

GrantLive(r) ==
    /\ status[r] = "approved"
    /\ r \notin completed
    /\ grant[r] \in {"platform_review", "organization_invitation"}

\* The link, the request and the grant that claim_account_setup_link_for_session
\* asks for before it looks at other claims.
LinkOpen(l) ==
    /\ Active(l)
    /\ "expired" \notin mark[l]
    /\ GrantLive(RequestOf[l])

\* Faulty variant: other requests of the same email are not looked at.
ClaimableFaulty(l) ==
    /\ LinkOpen(l)
    /\ {k \in HeldFor(EmailOf(l)) : RequestOf[k] = RequestOf[l]} = {}

Claimable(l) == LinkOpen(l) /\ HeldFor(EmailOf(l)) \ {l} = {}

\* A link nobody used, failed or revoked and that time has not ended.
Unspent(t) ==
    /\ "issued" \in mark[t]
    /\ "failed" \notin mark[t] /\ "used" \notin mark[t]
    /\ "revoked" \notin mark[t] /\ "expired" \notin mark[t]

\* A link that may authorise a status check.
ValidTarget(t) == Unspent(t) /\ status[RequestOf[t]] = "approved"

\* Faulty variant: no trigger fences the attempt of a failed link.
FenceFaulty(a) == a

\* account_setup_links.failed_at is set: the trigger fences a started attempt.
Fence(a) == IF a = "started" THEN "fenced" ELSE a

FailHeld(l) ==
    /\ mark' = [mark EXCEPT ![l] = @ \cup {"failed"}]
    /\ attempt' = [attempt EXCEPT ![l] = Fence(@)]

\* markClaimFailed touches only a claim that is still held.
FailIfHeld(l) ==
    IF Held(l) THEN FailHeld(l) ELSE UNCHANGED <<mark, attempt>>

----------------------------------------------------------------------------
(* Access Requests, invitations and links. *)

Init ==
    /\ status = [r \in Requests |-> "absent"]
    /\ grant = [r \in Requests |-> "none"]
    /\ email \in [Requests -> Emails]
    /\ completed = {}
    /\ mark = [l \in Links |-> {}]
    /\ attempt = [l \in Links |-> "none"]
    /\ password = [e \in Emails |-> NoLink]
    /\ step = [l \in Links |-> "idle"]
    /\ inflight = {}
    /\ checking = [c \in Checkers |-> "idle"]
    /\ target = [c \in Checkers |-> NoLink]
    /\ source = [p \in Links \cup Checkers |-> NoLink]

NoPending(e) == \A r \in Requests : ~(status[r] = "pending" /\ email[r] = e)

\* A public submission lists the email's requests and then inserts.  What it
\* listed may be stale by then: only the pending-email index still holds.
Submit(r) ==
    /\ status[r] = "absent"
    /\ NoPending(email[r])
    /\ status' = [status EXCEPT ![r] = "pending"]
    /\ UNCHANGED <<grant, email, completed, mark, attempt, password,
                   sessionVars, checkVars, source>>

\* prevent_account_setup_email_change lets a pending request alone change.
ChangeEmail(r, e) ==
    /\ status[r] = "pending"
    /\ \A l \in Links : RequestOf[l] = r => mark[l] = {}
    /\ NoPending(e)
    /\ email' = [email EXCEPT ![r] = e]
    /\ UNCHANGED <<status, grant, completed, mark, attempt, password,
                   sessionVars, checkVars, source>>

Approve(r) ==
    /\ status[r] = "pending"
    /\ status' = [status EXCEPT ![r] = "approved"]
    /\ grant' = [grant EXCEPT ![r] = "platform_review"]
    /\ UNCHANGED <<email, completed, mark, attempt, password,
                   sessionVars, checkVars, source>>

Reject(r) ==
    /\ status[r] = "pending"
    /\ status' = [status EXCEPT ![r] = "rejected"]
    /\ UNCHANGED <<grant, email, completed, mark, attempt, password,
                   sessionVars, checkVars, source>>

\* link_organization_invitation_access_request: an invitation joins the
\* email's pending or approved unfinished request, or creates a request; a
\* pending one is approved by it.  An approved request older than 90 days is
\* passed over, so a second approved request for one email can arise.
Invite(r) ==
    /\ \/ status[r] = "absent" /\ NoPending(email[r])
       \/ status[r] = "pending"
       \/ status[r] = "approved" /\ r \notin completed /\ NoPending(email[r])
    /\ status' = [status EXCEPT ![r] = "approved"]
    /\ grant' = [grant EXCEPT ![r] =
                    IF @ = "platform_review" THEN @ ELSE "organization_invitation"]
    /\ UNCHANGED <<email, completed, mark, attempt, password, sessionVars,
                   checkVars, source>>

\* The last live invitation linked to the request is revoked.
WithdrawInvitation(r) ==
    /\ grant[r] = "organization_invitation"
    /\ grant' = [grant EXCEPT ![r] = "withdrawn"]
    /\ UNCHANGED <<status, email, completed, mark, attempt, password,
                   sessionVars, checkVars, source>>

\* The links of r that issuing or rescinding revokes.
RevokeOpenLinks(r) ==
    [l \in Links |-> IF RequestOf[l] = r /\ Active(l)
                     THEN mark[l] \cup {"revoked"} ELSE mark[l]]

\* Faulty variant: expiry is taken to end a claim.
RescindableFaulty(r) ==
    /\ status[r] = "approved"
    /\ r \notin completed
    /\ \A l \in Links : RequestOf[l] = r /\ Held(l) => "expired" \in mark[l]

Rescindable(r) ==
    /\ status[r] = "approved"
    /\ r \notin completed
    /\ \A l \in Links : RequestOf[l] = r => ~Held(l)

Rescind(r) ==
    /\ Rescindable(r)
    /\ status' = [status EXCEPT ![r] = "rescinded"]
    /\ mark' = RevokeOpenLinks(r)
    /\ UNCHANGED <<grant, email, completed, attempt, password, sessionVars,
                   checkVars, source>>

\* issue_account_setup_link replaces the request's open link in the same
\* transaction, which is what lets the insert pass the unique index.
Issue(l) ==
    /\ mark[l] = {}
    /\ GrantLive(RequestOf[l])
    /\ mark' = [RevokeOpenLinks(RequestOf[l]) EXCEPT ![l] = {"issued"}]
    /\ UNCHANGED <<requestVars, completed, attempt, password, sessionVars,
                   checkVars, source>>

\* Time passing matters to a link that is open or holds a claim.
Expire(l) ==
    /\ Active(l) \/ Held(l)
    /\ "expired" \notin mark[l]
    /\ mark' = [mark EXCEPT ![l] = @ \cup {"expired"}]
    /\ UNCHANGED <<requestVars, completed, attempt, password, sessionVars,
                   checkVars, source>>

\* revokeExpiredUnusedLinks: the daily cleanup never touches a claimed link.
CleanUp(l) ==
    /\ Active(l)
    /\ "expired" \in mark[l]
    /\ mark' = [mark EXCEPT ![l] = @ \cup {"revoked"}]
    /\ UNCHANGED <<requestVars, completed, attempt, password, sessionVars,
                   checkVars, source>>

\* release_account_setup_claim_for_staff.  The attestation that the provider
\* is quiescent is the operator's; the model lets it be wrong.
ReleaseClaim(l) ==
    /\ Held(l)
    /\ FailHeld(l)
    /\ UNCHANGED <<requestVars, completed, password, sessionVars, checkVars,
                   source>>

----------------------------------------------------------------------------
(* Reconciling and finishing: the two functions a handler calls at the end. *)

\* The claims reconcile_account_setup_claim finds for the target's email.
Candidates(t) == HeldFor(EmailOf(t))

\* Faulty variant: an expired claim is left to support.
CommittedFaulty(t, s) ==
    /\ ValidTarget(t)
    /\ Candidates(t) = {s}
    /\ attempt[s] = "committed"
    /\ "expired" \notin mark[s]

\* The outcome of reconcile_account_setup_claim and the claim it is about.
Committed(t, s) ==
    /\ ValidTarget(t)
    /\ Candidates(t) = {s}
    /\ attempt[s] = "committed"

\* Faulty variant: a committed attempt is treated as one without a write.
FencesFaulty(t, s) ==
    /\ ValidTarget(t)
    /\ Candidates(t) = {s}
    /\ attempt[s] \in {"started", "committed"}
    /\ RequestOf[t] \notin completed

Fences(t, s) ==
    /\ ValidTarget(t)
    /\ Candidates(t) = {s}
    /\ attempt[s] = "started"
    /\ RequestOf[t] \notin completed

FenceClaim(s) ==
    /\ attempt' = [attempt EXCEPT ![s] = "fenced"]
    /\ mark' = [mark EXCEPT ![s] = @ \cup {"failed"}]

Finished(l) == RequestOf[l] \in completed /\ "used" \in mark[l]

LiveTarget(s, t) ==
    /\ Unspent(t)
    /\ "claimed" \in mark[t] => t = s

\* complete_account_setup_recovery: the witnessed attempt of s finishes the
\* requests of s and of the link t that authorises it.  Repeating it is
\* harmless.
CanFinish(s, t) ==
    /\ "claimed" \in mark[s] /\ "failed" \notin mark[s]
    /\ attempt[s] = "committed"
    /\ EmailOf(s) = EmailOf(t)
    /\ status[RequestOf[s]] = "approved" /\ status[RequestOf[t]] = "approved"
    /\ IF Finished(t) THEN Finished(s) ELSE LiveTarget(s, t)

\* Faulty variant: only the link that authorised the recovery is used up.
FinishFaulty(s, t) ==
    /\ completed' = completed \cup {RequestOf[s], RequestOf[t]}
    /\ mark' = [mark EXCEPT ![t] = @ \cup {"claimed", "used"}]

Finish(s, t) ==
    /\ completed' = completed \cup {RequestOf[s], RequestOf[t]}
    /\ mark' = [l \in Links |-> IF l \in {s, t}
                                THEN mark[l] \cup {"claimed", "used"} ELSE mark[l]]

----------------------------------------------------------------------------
(* completeSetupSession, for the link l whose claim it wins. *)

ClaimLink(l) ==
    /\ step[l] = "idle"
    /\ Claimable(l)
    /\ mark' = [mark EXCEPT ![l] = @ \cup {"claimed"}]
    /\ attempt' = [attempt EXCEPT ![l] = "started"]
    /\ step' = [step EXCEPT ![l] = "claimed"]
    /\ UNCHANGED <<requestVars, completed, password, inflight, checkVars, source>>

RequestUsable(l) ==
    RequestOf[l] \notin completed /\ status[RequestOf[l]] = "approved"

\* The request read after the claim is finished or withdrawn.
GiveUp(l) ==
    /\ step[l] = "claimed"
    /\ ~RequestUsable(l)
    /\ FailIfHeld(l)
    /\ step' = [step EXCEPT ![l] = "ended"]
    /\ UNCHANGED <<requestVars, completed, password, inflight, checkVars, source>>

\* The attempt id is read and createOrActivateConfirmedUser is called with it.
CallProvider(l) ==
    /\ step[l] = "claimed"
    /\ RequestUsable(l)
    /\ step' = [step EXCEPT ![l] = "calling"]
    /\ inflight' = inflight \cup {l}
    /\ UNCHANGED <<requestVars, completed, mark, attempt, password, checkVars,
                   source>>

\* Faulty variant: the provider's transaction does not ask for the attempt.
WitnessAllowsFaulty(l) == attempt[l] # "none"

\* confirm_account_setup_create, confirm_password_change_attempt: the Auth
\* transaction commits only with the attempt it was given still started.
WitnessAllows(l) == attempt[l] = "started"

\* The provider may still run its transaction after the handler gave up.
ProviderCommits(l) ==
    /\ l \in inflight
    /\ WitnessAllows(l)
    /\ attempt' = [attempt EXCEPT ![l] = "committed"]
    /\ password' = [password EXCEPT ![EmailOf(l)] = l]
    /\ inflight' = inflight \ {l}
    /\ UNCHANGED <<requestVars, completed, mark, step, checkVars, source>>

\* The provider answers that it wrote the password.
HearSuccess(l) ==
    /\ step[l] = "calling"
    /\ attempt[l] = "committed"
    /\ step' = [step EXCEPT ![l] = "success"]
    /\ UNCHANGED <<requestVars, completed, mark, attempt, password, inflight,
                   checkVars, source>>

\* It answers that it refused: a weak password, or a user without an email
\* identity.
HearRefusal(l) ==
    /\ step[l] = "calling"
    /\ l \in inflight
    /\ inflight' = inflight \ {l}
    /\ \E why \in {"rejection", "mismatch"} : step' = [step EXCEPT ![l] = why]
    /\ UNCHANGED <<requestVars, completed, mark, attempt, password, checkVars,
                   source>>

\* An error or a timeout says nothing of what the provider did or will do.
HearError(l) ==
    /\ step[l] = "calling"
    /\ step' = [step EXCEPT ![l] = "error"]
    /\ UNCHANGED <<requestVars, completed, mark, attempt, password, inflight,
                   checkVars, source>>

Reconciling == {"success", "rejection", "mismatch", "error"}

\* What the person is told once the claim was fenced.
FencedAnswer(h) ==
    IF h = "rejection" THEN "account-create-failed"
    ELSE IF h = "error" THEN "fresh-link-required" ELSE "ended"

SessionCommitted(l) ==
    /\ step[l] \in Reconciling
    /\ \E s \in Links :
        /\ Committed(l, s)
        /\ source' = [source EXCEPT ![l] = s]
    /\ step' = [step EXCEPT ![l] = "finishing"]
    /\ UNCHANGED <<requestVars, completed, mark, attempt, password, inflight,
                   checkVars>>

SessionFenced(l) ==
    /\ step[l] \in Reconciling
    /\ \E s \in Links : Fences(l, s) /\ FenceClaim(s)
    /\ step' = [step EXCEPT ![l] = FencedAnswer(@)]
    /\ UNCHANGED <<requestVars, completed, password, inflight, checkVars, source>>

\* A conflicting or missing claim, an error of the call, or a crash of the
\* handler at any await.
SessionGivesUp(l) ==
    /\ step[l] \in {"claimed", "calling", "finishing"} \cup Reconciling
    /\ step' = [step EXCEPT ![l] = "ended"]
    /\ UNCHANGED <<requestVars, completed, mark, attempt, password, inflight,
                   checkVars, source>>

FinishSession(l) ==
    /\ step[l] = "finishing"
    /\ CanFinish(source[l], l)
    /\ Finish(source[l], l)
    /\ step' = [step EXCEPT ![l] = "ended"]
    /\ UNCHANGED <<requestVars, attempt, password, inflight, checkVars, source>>

----------------------------------------------------------------------------
(* recoverSetupSession, "Check setup status". *)

StartCheck(c, t) ==
    /\ checking[c] = "idle"
    /\ ValidTarget(t)
    /\ RequestOf[t] \in completed => "claimed" \in mark[t]
    /\ checking' = [checking EXCEPT ![c] = "validated"]
    /\ target' = [target EXCEPT ![c] = t]
    /\ UNCHANGED <<requestVars, completed, mark, attempt, password,
                   sessionVars, source>>

CheckCommitted(c) ==
    /\ checking[c] = "validated"
    /\ \E s \in Links :
        /\ Committed(target[c], s)
        /\ source' = [source EXCEPT ![c] = s]
    /\ checking' = [checking EXCEPT ![c] = "finishing"]
    /\ UNCHANGED <<requestVars, completed, mark, attempt, password,
                   sessionVars, target>>

\* Where a check ends it forgets what it worked on.
EndCheck(c) ==
    /\ checking' = [checking EXCEPT ![c] = "idle"]
    /\ target' = [target EXCEPT ![c] = NoLink]

CheckFenced(c) ==
    /\ checking[c] = "validated"
    /\ \E s \in Links : Fences(target[c], s) /\ FenceClaim(s)
    /\ EndCheck(c)
    /\ UNCHANGED <<requestVars, completed, password, sessionVars, source>>

FinishCheck(c) ==
    /\ checking[c] = "finishing"
    /\ CanFinish(source[c], target[c])
    /\ Finish(source[c], target[c])
    /\ EndCheck(c)
    /\ source' = [source EXCEPT ![c] = NoLink]
    /\ UNCHANGED <<requestVars, attempt, password, sessionVars>>

\* Nothing to reconcile, a refusal, an error or a crash.
CheckGivesUp(c) ==
    /\ checking[c] # "idle"
    /\ EndCheck(c)
    /\ source' = [source EXCEPT ![c] = NoLink]
    /\ UNCHANGED <<requestVars, completed, mark, attempt, password, sessionVars>>

----------------------------------------------------------------------------

RequestStep(r) ==
    \/ Submit(r) \/ Approve(r) \/ Reject(r) \/ Invite(r)
    \/ WithdrawInvitation(r) \/ Rescind(r)
    \/ \E e \in Emails : ChangeEmail(r, e)

LinkStep(l) == Issue(l) \/ Expire(l) \/ CleanUp(l) \/ ReleaseClaim(l)

SessionStep(l) ==
    \/ ClaimLink(l) \/ GiveUp(l) \/ CallProvider(l)
    \/ HearSuccess(l) \/ HearRefusal(l) \/ HearError(l)
    \/ SessionCommitted(l) \/ SessionFenced(l) \/ SessionGivesUp(l)
    \/ FinishSession(l)

CheckStep(c) ==
    \/ \E t \in Links : StartCheck(c, t)
    \/ CheckCommitted(c) \/ CheckFenced(c) \/ FinishCheck(c) \/ CheckGivesUp(c)

Next ==
    \/ \E r \in Requests : RequestStep(r)
    \/ \E l \in Links : LinkStep(l) \/ SessionStep(l) \/ ProviderCommits(l)
    \/ \E c \in Checkers : CheckStep(c)

Spec == Init /\ [][Next]_vars

\* The person keeps checking with each link that stays valid, every check
\* ends, and no step of it fails for ever.
FairSpec ==
    /\ Spec
    /\ \A c \in Checkers :
        /\ \A t \in Links : SF_vars(StartCheck(c, t))
        /\ SF_vars(CheckCommitted(c)) /\ SF_vars(CheckFenced(c))
        /\ SF_vars(FinishCheck(c)) /\ WF_vars(CheckGivesUp(c))

----------------------------------------------------------------------------
(* Properties. *)

\* At most one claim of an email is held, whatever number of requests and
\* links the email has: the claim function's advisory lock and scan.
OneHeldClaimPerEmail ==
    \A k, l \in Links :
        Held(k) /\ Held(l) /\ EmailOf(k) = EmailOf(l) => k = l

\* A held claim can always be reconciled: its request is approved and
\* unfinished and its attempt is still open or witnessed.  Otherwise the
\* status check could only answer "setup-support-required".
HeldClaimIsRecoverable ==
    \A l \in Links : Held(l) =>
        /\ status[RequestOf[l]] = "approved"
        /\ RequestOf[l] \notin completed
        /\ attempt[l] \in {"started", "committed"}

\* While a witnessed claim is held, its password is the account's password:
\* what finishing records is what the person can sign in with.
WitnessedPasswordStands ==
    \A l \in Links :
        Held(l) /\ attempt[l] = "committed" => password[EmailOf(l)] = l

\* Whoever was told that the account was not created, or to ask for a fresh
\* link, never finds the password they typed in force, however late the
\* provider's transaction runs.
NegativeAnswerMeansNoPassword ==
    \A l \in Links :
        step[l] \in {"account-create-failed", "fresh-link-required"} =>
            /\ attempt[l] = "fenced"
            /\ \A e \in Emails : password[e] # l

\* A finished request has a used link of its own, and a used link of its
\* email whose password write was witnessed.
CompletedIsWitnessed ==
    \A r \in completed :
        /\ \E l \in Links : RequestOf[l] = r /\ "used" \in mark[l]
        /\ \E l \in Links :
            /\ EmailOf(l) = email[r]
            /\ "used" \in mark[l]
            /\ attempt[l] = "committed"

\* A setup password is written only while its link holds the claim of an
\* approved, unfinished request: never after a fence, a staff release, a
\* rescission or a completion.
WriteOnlyUnderClaim ==
    [][\A e \in Emails : password'[e] # password[e] =>
        /\ Held(password'[e])
        /\ EmailOf(password'[e]) = e
        /\ status[RequestOf[password'[e]]] = "approved"
        /\ RequestOf[password'[e]] \notin completed]_vars

\* A held claim is reconciled, without staff, unless the email runs out of
\* valid links: what the held-claim runbook promises for a person with a
\* valid link of an approved request.
HeldClaimReconciles ==
    \A l \in Links :
        Held(l) ~> \/ ~Held(l)
                   \/ ~\E t \in Links : ValidTarget(t) /\ EmailOf(t) = EmailOf(l)

----------------------------------------------------------------------------
(* Account setup implements PasswordHold. *)

HoldOf(l) ==
    IF "claimed" \notin mark[l] THEN "free"
    ELSE IF attempt[l] = "committed"
         THEN IF Held(l) THEN "written" ELSE "spent"
         ELSE IF Held(l) THEN "open" ELSE "closed"

Hold == INSTANCE PasswordHold WITH
    Rights <- Links,
    Accounts <- Emails,
    hold <- [l \in Links |-> HoldOf(l)],
    account <- [l \in Links |-> EmailOf(l)]

\* Every step of the handlers, the provider, the staff and the clock is a
\* step of the one-holder promise or leaves it alone.
ImplementsHold == Hold!Spec

=============================================================================
