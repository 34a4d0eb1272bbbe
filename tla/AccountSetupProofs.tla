-------------------------- MODULE AccountSetupProofs ------------------------
(***************************************************************************)
(* The safety of account setup for any number of requests, links, emails   *)
(* and status checks.                                                      *)
(***************************************************************************)
EXTENDS AccountSetup, TLAPS

(* A link's columns are set in an order, and only for an issued link. *)
MarksInOrder ==
    \A l \in Links :
        /\ mark[l] # {} => /\ "issued" \in mark[l]
                           /\ status[RequestOf[l]] \in {"approved", "rescinded"}
        /\ "used" \in mark[l] => /\ "claimed" \in mark[l]
                                 /\ RequestOf[l] \in completed
        /\ "failed" \in mark[l] => "claimed" \in mark[l]
        /\ attempt[l] # "none" => "claimed" \in mark[l]
        /\ step[l] # "idle" => "claimed" \in mark[l]

(* An attempt that is still open belongs to a claim that is held. *)
OpenAttemptIsHeld == \A l \in Links : attempt[l] = "started" => Held(l)

(* The password in force was witnessed for the link that wrote it. *)
PasswordIsWitnessed ==
    \A e \in Emails : password[e] \in Links =>
        attempt[password[e]] = "committed" /\ EmailOf(password[e]) = e

(* One open link per request: what the unique index enforces. *)
OneActivePerRequest ==
    \A k, l \in Links :
        Active(k) /\ Active(l) /\ RequestOf[k] = RequestOf[l] => k = l

NegativeIsFenced ==
    \A l \in Links :
        step[l] \in {"account-create-failed", "fresh-link-required"} =>
            attempt[l] = "fenced"

(* What a handler remembers between two of its calls. *)
Remembered ==
    /\ \A l \in Links : step[l] = "finishing" => source[l] \in Links
    /\ \A c \in Checkers :
        /\ checking[c] # "idle" => target[c] \in Links
        /\ checking[c] = "finishing" => source[c] \in Links

(* A check's target was issued, and a check about to finish knows every     *)
(* claim of its target's request as long as the target is not claimed.      *)
CheckKnowsClaims ==
    \A c \in Checkers :
        /\ checking[c] # "idle" => "issued" \in mark[target[c]]
        /\ checking[c] = "finishing" /\ Active(target[c]) =>
             \A k \in Links :
                Held(k) /\ RequestOf[k] = RequestOf[target[c]] => k = source[c]

(* The inductive invariant. *)
IInv ==
    /\ TypeOK
    /\ MarksInOrder
    /\ OpenAttemptIsHeld
    /\ OneHeldClaimPerEmail
    /\ HeldClaimIsRecoverable
    /\ WitnessedPasswordStands
    /\ PasswordIsWitnessed
    /\ OneActivePerRequest
    /\ NegativeIsFenced
    /\ Remembered
    /\ CheckKnowsClaims
    /\ CompletedIsWitnessed

----------------------------------------------------------------------------

(* Every step keeps the types. *)
LEMMA TypeStep ==
  TypeOK /\ Remembered /\ [Next]_vars => TypeOK' /\ Remembered'
<1>. SUFFICES ASSUME TypeOK, Remembered, [Next]_vars
              PROVE  TypeOK' /\ Remembered'
  OBVIOUS
<1>. USE SetupAssumption DEF TypeOK, Columns, Steps, Answers, requestVars,
                             sessionVars, checkVars, Remembered
<1>1. ASSUME NEW r \in Requests, Submit(r) PROVE TypeOK' /\ Remembered'
  BY <1>1 DEF Submit
<1>2. ASSUME NEW r \in Requests, Approve(r) PROVE TypeOK' /\ Remembered'
  BY <1>2 DEF Approve
<1>3. ASSUME NEW r \in Requests, Reject(r) PROVE TypeOK' /\ Remembered'
  BY <1>3 DEF Reject
<1>4. ASSUME NEW r \in Requests, Invite(r) PROVE TypeOK' /\ Remembered'
  BY <1>4 DEF Invite
<1>5. ASSUME NEW r \in Requests, WithdrawInvitation(r)
       PROVE TypeOK' /\ Remembered'
  BY <1>5 DEF WithdrawInvitation
<1>6. ASSUME NEW r \in Requests, Rescind(r) PROVE TypeOK' /\ Remembered'
  BY <1>6 DEF Rescind, RevokeOpenLinks
<1>7. ASSUME NEW r \in Requests, NEW e \in Emails, ChangeEmail(r, e)
       PROVE TypeOK' /\ Remembered'
  BY <1>7 DEF ChangeEmail
<1>8. ASSUME NEW l \in Links, Issue(l) PROVE TypeOK' /\ Remembered'
  BY <1>8 DEF Issue, RevokeOpenLinks
<1>9. ASSUME NEW l \in Links, Expire(l) PROVE TypeOK' /\ Remembered'
  BY <1>9 DEF Expire
<1>10. ASSUME NEW l \in Links, CleanUp(l) PROVE TypeOK' /\ Remembered'
  BY <1>10 DEF CleanUp
<1>11. ASSUME NEW l \in Links, ReleaseClaim(l) PROVE TypeOK' /\ Remembered'
  BY <1>11 DEF ReleaseClaim, FailHeld, Fence
<1>12. ASSUME NEW l \in Links, ClaimLink(l) PROVE TypeOK' /\ Remembered'
  BY <1>12 DEF ClaimLink
<1>13. ASSUME NEW l \in Links, GiveUp(l) PROVE TypeOK' /\ Remembered'
  BY <1>13 DEF GiveUp, FailIfHeld, FailHeld, Fence
<1>14. ASSUME NEW l \in Links, CallProvider(l) PROVE TypeOK' /\ Remembered'
  BY <1>14 DEF CallProvider
<1>15. ASSUME NEW l \in Links, HearSuccess(l) PROVE TypeOK' /\ Remembered'
  BY <1>15 DEF HearSuccess
<1>16. ASSUME NEW l \in Links, HearRefusal(l) PROVE TypeOK' /\ Remembered'
  BY <1>16 DEF HearRefusal
<1>17. ASSUME NEW l \in Links, HearError(l) PROVE TypeOK' /\ Remembered'
  BY <1>17 DEF HearError
<1>18. ASSUME NEW l \in Links, SessionCommitted(l)
       PROVE TypeOK' /\ Remembered'
  BY <1>18 DEF SessionCommitted
<1>19. ASSUME NEW l \in Links, SessionFenced(l) PROVE TypeOK' /\ Remembered'
  BY <1>19 DEF SessionFenced, FenceClaim, FencedAnswer
<1>20. ASSUME NEW l \in Links, SessionGivesUp(l) PROVE TypeOK' /\ Remembered'
  BY <1>20 DEF SessionGivesUp
<1>21. ASSUME NEW l \in Links, FinishSession(l) PROVE TypeOK' /\ Remembered'
  BY <1>21 DEF FinishSession, Finish
<1>22. ASSUME NEW l \in Links, ProviderCommits(l) PROVE TypeOK' /\ Remembered'
  BY <1>22 DEF ProviderCommits
<1>23. ASSUME NEW c \in Checkers, NEW t \in Links, StartCheck(c, t)
       PROVE TypeOK' /\ Remembered'
  BY <1>23 DEF StartCheck
<1>24. ASSUME NEW c \in Checkers, CheckCommitted(c)
       PROVE TypeOK' /\ Remembered'
  BY <1>24 DEF CheckCommitted
<1>25. ASSUME NEW c \in Checkers, CheckFenced(c) PROVE TypeOK' /\ Remembered'
  BY <1>25 DEF CheckFenced, FenceClaim, EndCheck
<1>26. ASSUME NEW c \in Checkers, FinishCheck(c) PROVE TypeOK' /\ Remembered'
  BY <1>26 DEF FinishCheck, Finish, EndCheck
<1>27. ASSUME NEW c \in Checkers, CheckGivesUp(c) PROVE TypeOK' /\ Remembered'
  BY <1>27 DEF CheckGivesUp, EndCheck
<1>28. CASE UNCHANGED vars
  BY <1>28 DEF vars
<1>. QED
  BY <1>1, <1>2, <1>3, <1>4, <1>5, <1>6, <1>7, <1>8, <1>9, <1>10, <1>11,
     <1>12, <1>13, <1>14, <1>15, <1>16, <1>17, <1>18, <1>19, <1>20, <1>21,
     <1>22, <1>23, <1>24, <1>25, <1>26, <1>27, <1>28
     DEF Next, RequestStep, LinkStep, SessionStep, CheckStep

(* Each part depends on a few variables only. *)
LEMMA Undisturbed ==
  ASSUME IInv
  PROVE
    /\ UNCHANGED <<status, completed, mark, attempt, step>> => MarksInOrder'
    /\ UNCHANGED <<mark, attempt>> => OpenAttemptIsHeld'
    /\ UNCHANGED <<email, mark>> => OneHeldClaimPerEmail'
    /\ UNCHANGED <<status, completed, mark, attempt>> => HeldClaimIsRecoverable'
    /\ UNCHANGED <<email, mark, attempt, password>> => WitnessedPasswordStands'
    /\ UNCHANGED <<email, attempt, password>> => PasswordIsWitnessed'
    /\ UNCHANGED mark => OneActivePerRequest'
    /\ UNCHANGED <<attempt, step>> => NegativeIsFenced'
    /\ UNCHANGED <<mark, checking, target, source>> => CheckKnowsClaims'
    /\ UNCHANGED <<email, completed, mark, attempt>> => CompletedIsWitnessed'
<1>1. UNCHANGED <<status, completed, mark, attempt, step>> => MarksInOrder'
  BY DEF IInv, MarksInOrder
<1>2. UNCHANGED <<mark, attempt>> => OpenAttemptIsHeld'
  BY DEF IInv, OpenAttemptIsHeld, Held
<1>3. UNCHANGED <<email, mark>> => OneHeldClaimPerEmail'
  BY DEF IInv, OneHeldClaimPerEmail, Held, EmailOf
<1>4. UNCHANGED <<status, completed, mark, attempt>> => HeldClaimIsRecoverable'
  BY DEF IInv, HeldClaimIsRecoverable, Held
<1>5. UNCHANGED <<email, mark, attempt, password>> => WitnessedPasswordStands'
  BY DEF IInv, WitnessedPasswordStands, Held, EmailOf
<1>6. UNCHANGED <<email, attempt, password>> => PasswordIsWitnessed'
  BY DEF IInv, PasswordIsWitnessed, EmailOf
<1>7. UNCHANGED mark => OneActivePerRequest'
  BY DEF IInv, OneActivePerRequest, Active
<1>8. UNCHANGED <<attempt, step>> => NegativeIsFenced'
  BY DEF IInv, NegativeIsFenced
<1>9. UNCHANGED <<mark, checking, target, source>> => CheckKnowsClaims'
  BY DEF IInv, CheckKnowsClaims, Held, Active
<1>10. UNCHANGED <<email, completed, mark, attempt>> => CompletedIsWitnessed'
  BY DEF IInv, CompletedIsWitnessed, EmailOf
<1>. QED
  BY <1>1, <1>2, <1>3, <1>4, <1>5, <1>6, <1>7, <1>8, <1>9, <1>10

(* Submission, review, invitation, withdrawal and change of address. *)
LEMMA RequestStepKeeps ==
  ASSUME IInv, NEW r \in Requests, RequestStep(r)
  PROVE  IInv'
<1>. USE SetupAssumption DEF TypeOK, Columns, Steps, Answers, requestVars,
                             sessionVars, checkVars, Remembered
<1>t. TypeOK' /\ Remembered'
  BY TypeStep DEF IInv, Next
<1>1. ASSUME Submit(r) PROVE IInv'
  <2>1. (OpenAttemptIsHeld /\ OneHeldClaimPerEmail
         /\ WitnessedPasswordStands /\ PasswordIsWitnessed
         /\ OneActivePerRequest /\ NegativeIsFenced /\ CheckKnowsClaims
         /\ CompletedIsWitnessed)'
    BY <1>1, Undisturbed DEF Submit
  <2>2. MarksInOrder'
    BY <1>1 DEF IInv, Submit, MarksInOrder
  <2>3. HeldClaimIsRecoverable'
    BY <1>1 DEF IInv, Submit, HeldClaimIsRecoverable, Held
  <2>. QED
    BY <1>t, <2>1, <2>2, <2>3 DEF IInv
<1>2. ASSUME Approve(r) PROVE IInv'
  <2>1. (OpenAttemptIsHeld /\ OneHeldClaimPerEmail
         /\ WitnessedPasswordStands /\ PasswordIsWitnessed
         /\ OneActivePerRequest /\ NegativeIsFenced /\ CheckKnowsClaims
         /\ CompletedIsWitnessed)'
    BY <1>2, Undisturbed DEF Approve
  <2>2. MarksInOrder'
    BY <1>2 DEF IInv, Approve, MarksInOrder
  <2>3. HeldClaimIsRecoverable'
    BY <1>2 DEF IInv, Approve, HeldClaimIsRecoverable, Held
  <2>. QED
    BY <1>t, <2>1, <2>2, <2>3 DEF IInv
<1>3. ASSUME Reject(r) PROVE IInv'
  <2>1. (OpenAttemptIsHeld /\ OneHeldClaimPerEmail
         /\ WitnessedPasswordStands /\ PasswordIsWitnessed
         /\ OneActivePerRequest /\ NegativeIsFenced /\ CheckKnowsClaims
         /\ CompletedIsWitnessed)'
    BY <1>3, Undisturbed DEF Reject
  <2>2. MarksInOrder'
    BY <1>3 DEF IInv, Reject, MarksInOrder
  <2>3. HeldClaimIsRecoverable'
    BY <1>3 DEF IInv, Reject, HeldClaimIsRecoverable, Held
  <2>. QED
    BY <1>t, <2>1, <2>2, <2>3 DEF IInv
<1>4. ASSUME Invite(r) PROVE IInv'
  <2>1. (OpenAttemptIsHeld /\ OneHeldClaimPerEmail
         /\ WitnessedPasswordStands /\ PasswordIsWitnessed
         /\ OneActivePerRequest /\ NegativeIsFenced /\ CheckKnowsClaims
         /\ CompletedIsWitnessed)'
    BY <1>4, Undisturbed DEF Invite
  <2>2. MarksInOrder'
    BY <1>4 DEF IInv, Invite, MarksInOrder
  <2>3. HeldClaimIsRecoverable'
    BY <1>4 DEF IInv, Invite, HeldClaimIsRecoverable, Held
  <2>. QED
    BY <1>t, <2>1, <2>2, <2>3 DEF IInv
<1>5. ASSUME WithdrawInvitation(r) PROVE IInv'
  <2>1. (MarksInOrder /\ OpenAttemptIsHeld /\ OneHeldClaimPerEmail
         /\ HeldClaimIsRecoverable /\ WitnessedPasswordStands
         /\ PasswordIsWitnessed /\ OneActivePerRequest /\ NegativeIsFenced
         /\ CheckKnowsClaims /\ CompletedIsWitnessed)'
    BY <1>5, Undisturbed DEF WithdrawInvitation
  <2>. QED
    BY <1>t, <2>1 DEF IInv
<1>6. ASSUME Rescind(r) PROVE IInv'
  <2>1. (PasswordIsWitnessed /\ NegativeIsFenced)'
    BY <1>6, Undisturbed DEF Rescind, RevokeOpenLinks
  <2>2. MarksInOrder'
    BY <1>6 DEF IInv, Rescind, RevokeOpenLinks, MarksInOrder, Active
  <2>3. OpenAttemptIsHeld'
    BY <1>6 DEF IInv, Rescind, RevokeOpenLinks, OpenAttemptIsHeld, Held
  <2>4. OneHeldClaimPerEmail'
    BY <1>6 DEF IInv, Rescind, RevokeOpenLinks, OneHeldClaimPerEmail, Held,
       EmailOf
  <2>5. HeldClaimIsRecoverable'
    BY <1>6 DEF IInv, Rescind, RevokeOpenLinks, HeldClaimIsRecoverable, Held,
       Rescindable
  <2>6. WitnessedPasswordStands'
    BY <1>6 DEF IInv, Rescind, RevokeOpenLinks, WitnessedPasswordStands, Held,
       EmailOf
  <2>7. OneActivePerRequest'
    BY <1>6 DEF IInv, Rescind, RevokeOpenLinks, OneActivePerRequest, Active
  <2>8. CheckKnowsClaims'
    BY <1>6 DEF IInv, Rescind, RevokeOpenLinks, CheckKnowsClaims, Held, Active
  <2>9. CompletedIsWitnessed'
    BY <1>6 DEF IInv, Rescind, RevokeOpenLinks, CompletedIsWitnessed, EmailOf
  <2>. QED
    BY <1>t, <2>1, <2>2, <2>3, <2>4, <2>5, <2>6, <2>7, <2>8, <2>9 DEF IInv
<1>7. ASSUME NEW e \in Emails, ChangeEmail(r, e) PROVE IInv'
  <2>1. (MarksInOrder /\ OpenAttemptIsHeld /\ HeldClaimIsRecoverable
         /\ OneActivePerRequest /\ NegativeIsFenced /\ CheckKnowsClaims)'
    BY <1>7, Undisturbed DEF ChangeEmail
  <2>2. OneHeldClaimPerEmail'
    BY <1>7 DEF IInv, ChangeEmail, OneHeldClaimPerEmail, Held, EmailOf
  <2>3. WitnessedPasswordStands'
    BY <1>7 DEF IInv, ChangeEmail, WitnessedPasswordStands, Held, EmailOf
  <2>4. PasswordIsWitnessed'
    BY <1>7 DEF IInv, ChangeEmail, PasswordIsWitnessed, EmailOf, MarksInOrder
  <2>5. CompletedIsWitnessed'
    BY <1>7 DEF IInv, ChangeEmail, CompletedIsWitnessed, EmailOf
  <2>. QED
    BY <1>t, <2>1, <2>2, <2>3, <2>4, <2>5 DEF IInv
<1>. QED
  BY <1>1, <1>2, <1>3, <1>4, <1>5, <1>6, <1>7 DEF RequestStep

(* Issuing, expiry, cleanup and staff release. *)
LEMMA LinkStepKeeps ==
  ASSUME IInv, NEW l \in Links, LinkStep(l)
  PROVE  IInv'
<1>. USE SetupAssumption DEF TypeOK, Columns, Steps, Answers, requestVars,
                             sessionVars, checkVars, Remembered
<1>t. TypeOK' /\ Remembered'
  BY TypeStep DEF IInv, Next
<1>1. ASSUME Issue(l) PROVE IInv'
  <2>1. (PasswordIsWitnessed /\ NegativeIsFenced)'
    BY <1>1, Undisturbed DEF Issue, RevokeOpenLinks
  <2>2. MarksInOrder'
    BY <1>1 DEF IInv, Issue, RevokeOpenLinks, MarksInOrder, GrantLive, Active
  <2>3. OpenAttemptIsHeld'
    BY <1>1 DEF IInv, Issue, RevokeOpenLinks, OpenAttemptIsHeld, Held
  <2>4. OneHeldClaimPerEmail'
    BY <1>1 DEF IInv, Issue, RevokeOpenLinks, OneHeldClaimPerEmail, Held,
       EmailOf
  <2>5. HeldClaimIsRecoverable'
    BY <1>1 DEF IInv, Issue, RevokeOpenLinks, HeldClaimIsRecoverable, Held
  <2>6. WitnessedPasswordStands'
    BY <1>1 DEF IInv, Issue, RevokeOpenLinks, WitnessedPasswordStands, Held,
       EmailOf
  <2>7. OneActivePerRequest'
    BY <1>1 DEF IInv, Issue, RevokeOpenLinks, OneActivePerRequest, Active
  <2>8. CheckKnowsClaims'
    BY <1>1 DEF IInv, Issue, RevokeOpenLinks, CheckKnowsClaims, Held, Active
  <2>9. CompletedIsWitnessed'
    BY <1>1 DEF IInv, Issue, RevokeOpenLinks, CompletedIsWitnessed, EmailOf,
       Active
  <2>. QED
    BY <1>t, <2>1, <2>2, <2>3, <2>4, <2>5, <2>6, <2>7, <2>8, <2>9 DEF IInv
<1>2. ASSUME Expire(l) PROVE IInv'
  <2>1. (PasswordIsWitnessed /\ NegativeIsFenced)'
    BY <1>2, Undisturbed DEF Expire
  <2>2. MarksInOrder'
    BY <1>2 DEF IInv, Expire, MarksInOrder, Active, Held
  <2>3. OpenAttemptIsHeld'
    BY <1>2 DEF IInv, Expire, OpenAttemptIsHeld, Held
  <2>4. OneHeldClaimPerEmail'
    BY <1>2 DEF IInv, Expire, OneHeldClaimPerEmail, Held, EmailOf
  <2>5. HeldClaimIsRecoverable'
    BY <1>2 DEF IInv, Expire, HeldClaimIsRecoverable, Held
  <2>6. WitnessedPasswordStands'
    BY <1>2 DEF IInv, Expire, WitnessedPasswordStands, Held, EmailOf
  <2>7. OneActivePerRequest'
    BY <1>2 DEF IInv, Expire, OneActivePerRequest, Active
  <2>8. CheckKnowsClaims'
    BY <1>2 DEF IInv, Expire, CheckKnowsClaims, Held, Active
  <2>9. CompletedIsWitnessed'
    BY <1>2 DEF IInv, Expire, CompletedIsWitnessed, EmailOf
  <2>. QED
    BY <1>t, <2>1, <2>2, <2>3, <2>4, <2>5, <2>6, <2>7, <2>8, <2>9 DEF IInv
<1>3. ASSUME CleanUp(l) PROVE IInv'
  <2>1. (PasswordIsWitnessed /\ NegativeIsFenced)'
    BY <1>3, Undisturbed DEF CleanUp
  <2>2. MarksInOrder'
    BY <1>3 DEF IInv, CleanUp, MarksInOrder
  <2>3. OpenAttemptIsHeld'
    BY <1>3 DEF IInv, CleanUp, OpenAttemptIsHeld, Held
  <2>4. OneHeldClaimPerEmail'
    BY <1>3 DEF IInv, CleanUp, OneHeldClaimPerEmail, Held, EmailOf
  <2>5. HeldClaimIsRecoverable'
    BY <1>3 DEF IInv, CleanUp, HeldClaimIsRecoverable, Held
  <2>6. WitnessedPasswordStands'
    BY <1>3 DEF IInv, CleanUp, WitnessedPasswordStands, Held, EmailOf
  <2>7. OneActivePerRequest'
    BY <1>3 DEF IInv, CleanUp, OneActivePerRequest, Active
  <2>8. CheckKnowsClaims'
    BY <1>3 DEF IInv, CleanUp, CheckKnowsClaims, Held, Active
  <2>9. CompletedIsWitnessed'
    BY <1>3 DEF IInv, CleanUp, CompletedIsWitnessed, EmailOf
  <2>. QED
    BY <1>t, <2>1, <2>2, <2>3, <2>4, <2>5, <2>6, <2>7, <2>8, <2>9 DEF IInv
<1>4. ASSUME ReleaseClaim(l) PROVE IInv'
  <2>1. MarksInOrder'
    BY <1>4 DEF IInv, ReleaseClaim, FailHeld, Fence, MarksInOrder, Held
  <2>2. OpenAttemptIsHeld'
    BY <1>4 DEF IInv, ReleaseClaim, FailHeld, Fence, OpenAttemptIsHeld, Held
  <2>3. OneHeldClaimPerEmail'
    BY <1>4 DEF IInv, ReleaseClaim, FailHeld, Fence, OneHeldClaimPerEmail,
       Held, EmailOf
  <2>4. HeldClaimIsRecoverable'
    BY <1>4 DEF IInv, ReleaseClaim, FailHeld, Fence, HeldClaimIsRecoverable,
       Held
  <2>5. WitnessedPasswordStands'
    BY <1>4 DEF IInv, ReleaseClaim, FailHeld, Fence, WitnessedPasswordStands,
       Held, EmailOf
  <2>6. PasswordIsWitnessed'
    BY <1>4 DEF IInv, ReleaseClaim, FailHeld, Fence, PasswordIsWitnessed,
       EmailOf
  <2>7. OneActivePerRequest'
    BY <1>4 DEF IInv, ReleaseClaim, FailHeld, Fence, OneActivePerRequest,
       Active
  <2>8. NegativeIsFenced'
    BY <1>4 DEF IInv, ReleaseClaim, FailHeld, Fence, NegativeIsFenced
  <2>9. CheckKnowsClaims'
    BY <1>4 DEF IInv, ReleaseClaim, FailHeld, Fence, CheckKnowsClaims, Held,
       Active
  <2>10. CompletedIsWitnessed'
    BY <1>4 DEF IInv, ReleaseClaim, FailHeld, Fence, CompletedIsWitnessed,
       EmailOf
  <2>. QED
    BY <1>t, <2>1, <2>2, <2>3, <2>4, <2>5, <2>6, <2>7, <2>8, <2>9, <2>10 DEF
       IInv
<1>. QED
  BY <1>1, <1>2, <1>3, <1>4 DEF LinkStep

(* The handler of a setup session, and the provider. *)
LEMMA SessionStepKeeps ==
  ASSUME IInv, NEW l \in Links, SessionStep(l) \/ ProviderCommits(l)
  PROVE  IInv'
<1>. USE SetupAssumption DEF TypeOK, Columns, Steps, Answers, requestVars,
                             sessionVars, checkVars, Remembered
<1>t. TypeOK' /\ Remembered'
  BY TypeStep DEF IInv, Next
<1>1. ASSUME ClaimLink(l) PROVE IInv'
  <2>1. MarksInOrder'
    BY <1>1 DEF IInv, ClaimLink, MarksInOrder, Claimable, LinkOpen, GrantLive,
       Active
  <2>2. OpenAttemptIsHeld'
    BY <1>1 DEF IInv, ClaimLink, OpenAttemptIsHeld, Held, Claimable, LinkOpen,
       Active
  <2>3. OneHeldClaimPerEmail'
    BY <1>1 DEF IInv, ClaimLink, OneHeldClaimPerEmail, Held, EmailOf,
       Claimable, LinkOpen, HeldFor, GrantLive
  <2>4. HeldClaimIsRecoverable'
    BY <1>1 DEF IInv, ClaimLink, HeldClaimIsRecoverable, Held, Claimable,
       LinkOpen, HeldFor, GrantLive
  <2>5. WitnessedPasswordStands'
    BY <1>1 DEF IInv, ClaimLink, WitnessedPasswordStands, Held, EmailOf
  <2>6. PasswordIsWitnessed'
    BY <1>1 DEF IInv, ClaimLink, PasswordIsWitnessed, EmailOf, Claimable,
       LinkOpen, Active, MarksInOrder
  <2>7. OneActivePerRequest'
    BY <1>1 DEF IInv, ClaimLink, OneActivePerRequest, Active
  <2>8. NegativeIsFenced'
    BY <1>1 DEF IInv, ClaimLink, NegativeIsFenced
  <2>9. CheckKnowsClaims'
    BY <1>1 DEF IInv, ClaimLink, CheckKnowsClaims, Held, Active, Claimable,
       LinkOpen, MarksInOrder, OneActivePerRequest
  <2>10. CompletedIsWitnessed'
    BY <1>1 DEF IInv, ClaimLink, CompletedIsWitnessed, EmailOf, Claimable,
       LinkOpen, Active, MarksInOrder
  <2>. QED
    BY <1>t, <2>1, <2>2, <2>3, <2>4, <2>5, <2>6, <2>7, <2>8, <2>9, <2>10 DEF
       IInv
<1>2. ASSUME GiveUp(l) PROVE IInv'
  <2>1. MarksInOrder'
    BY <1>2 DEF IInv, GiveUp, FailIfHeld, FailHeld, Fence, MarksInOrder
  <2>2. OpenAttemptIsHeld'
    BY <1>2 DEF IInv, GiveUp, FailIfHeld, FailHeld, Fence, OpenAttemptIsHeld,
       Held
  <2>3. OneHeldClaimPerEmail'
    BY <1>2 DEF IInv, GiveUp, FailIfHeld, FailHeld, Fence,
       OneHeldClaimPerEmail, Held, EmailOf
  <2>4. HeldClaimIsRecoverable'
    BY <1>2 DEF IInv, GiveUp, FailIfHeld, FailHeld, Fence,
       HeldClaimIsRecoverable, Held
  <2>5. WitnessedPasswordStands'
    BY <1>2 DEF IInv, GiveUp, FailIfHeld, FailHeld, Fence,
       WitnessedPasswordStands, Held, EmailOf
  <2>6. PasswordIsWitnessed'
    BY <1>2 DEF IInv, GiveUp, FailIfHeld, FailHeld, Fence,
       PasswordIsWitnessed, EmailOf
  <2>7. OneActivePerRequest'
    BY <1>2 DEF IInv, GiveUp, FailIfHeld, FailHeld, Fence,
       OneActivePerRequest, Active
  <2>8. NegativeIsFenced'
    BY <1>2 DEF IInv, GiveUp, FailIfHeld, FailHeld, Fence, NegativeIsFenced
  <2>9. CheckKnowsClaims'
    BY <1>2 DEF IInv, GiveUp, FailIfHeld, FailHeld, Fence, CheckKnowsClaims,
       Held, Active, RequestUsable
  <2>10. CompletedIsWitnessed'
    BY <1>2 DEF IInv, GiveUp, FailIfHeld, FailHeld, Fence,
       CompletedIsWitnessed, EmailOf
  <2>. QED
    BY <1>t, <2>1, <2>2, <2>3, <2>4, <2>5, <2>6, <2>7, <2>8, <2>9, <2>10 DEF
       IInv
<1>3. ASSUME CallProvider(l) PROVE IInv'
  <2>1. (OpenAttemptIsHeld /\ OneHeldClaimPerEmail /\ HeldClaimIsRecoverable
         /\ WitnessedPasswordStands /\ PasswordIsWitnessed
         /\ OneActivePerRequest /\ CheckKnowsClaims /\ CompletedIsWitnessed)'
    BY <1>3, Undisturbed DEF CallProvider
  <2>2. MarksInOrder'
    BY <1>3 DEF IInv, CallProvider, MarksInOrder
  <2>3. NegativeIsFenced'
    BY <1>3 DEF IInv, CallProvider, NegativeIsFenced
  <2>. QED
    BY <1>t, <2>1, <2>2, <2>3 DEF IInv
<1>4. ASSUME HearSuccess(l) PROVE IInv'
  <2>1. (OpenAttemptIsHeld /\ OneHeldClaimPerEmail /\ HeldClaimIsRecoverable
         /\ WitnessedPasswordStands /\ PasswordIsWitnessed
         /\ OneActivePerRequest /\ CheckKnowsClaims /\ CompletedIsWitnessed)'
    BY <1>4, Undisturbed DEF HearSuccess
  <2>2. MarksInOrder'
    BY <1>4 DEF IInv, HearSuccess, MarksInOrder
  <2>3. NegativeIsFenced'
    BY <1>4 DEF IInv, HearSuccess, NegativeIsFenced
  <2>. QED
    BY <1>t, <2>1, <2>2, <2>3 DEF IInv
<1>5. ASSUME HearRefusal(l) PROVE IInv'
  <2>1. (OpenAttemptIsHeld /\ OneHeldClaimPerEmail /\ HeldClaimIsRecoverable
         /\ WitnessedPasswordStands /\ PasswordIsWitnessed
         /\ OneActivePerRequest /\ CheckKnowsClaims /\ CompletedIsWitnessed)'
    BY <1>5, Undisturbed DEF HearRefusal
  <2>2. MarksInOrder'
    BY <1>5 DEF IInv, HearRefusal, MarksInOrder
  <2>3. NegativeIsFenced'
    BY <1>5 DEF IInv, HearRefusal, NegativeIsFenced
  <2>. QED
    BY <1>t, <2>1, <2>2, <2>3 DEF IInv
<1>6. ASSUME HearError(l) PROVE IInv'
  <2>1. (OpenAttemptIsHeld /\ OneHeldClaimPerEmail /\ HeldClaimIsRecoverable
         /\ WitnessedPasswordStands /\ PasswordIsWitnessed
         /\ OneActivePerRequest /\ CheckKnowsClaims /\ CompletedIsWitnessed)'
    BY <1>6, Undisturbed DEF HearError
  <2>2. MarksInOrder'
    BY <1>6 DEF IInv, HearError, MarksInOrder
  <2>3. NegativeIsFenced'
    BY <1>6 DEF IInv, HearError, NegativeIsFenced
  <2>. QED
    BY <1>t, <2>1, <2>2, <2>3 DEF IInv
<1>7. ASSUME SessionCommitted(l) PROVE IInv'
  <2>1. (OpenAttemptIsHeld /\ OneHeldClaimPerEmail /\ HeldClaimIsRecoverable
         /\ WitnessedPasswordStands /\ PasswordIsWitnessed
         /\ OneActivePerRequest /\ CompletedIsWitnessed)'
    BY <1>7, Undisturbed DEF SessionCommitted
  <2>2. MarksInOrder'
    BY <1>7 DEF IInv, SessionCommitted, MarksInOrder, Committed, ValidTarget,
       Unspent, Candidates, HeldFor, Reconciling
  <2>3. NegativeIsFenced'
    BY <1>7 DEF IInv, SessionCommitted, NegativeIsFenced
  <2>4. CheckKnowsClaims'
    BY <1>7 DEF IInv, SessionCommitted, CheckKnowsClaims, Held, Active
  <2>. QED
    BY <1>t, <2>1, <2>2, <2>3, <2>4 DEF IInv
<1>8. ASSUME SessionFenced(l) PROVE IInv'
  <2>1. MarksInOrder'
    BY <1>8 DEF IInv, SessionFenced, FenceClaim, FencedAnswer, MarksInOrder,
       Fences, ValidTarget, Unspent, Candidates, HeldFor, Reconciling
  <2>2. OpenAttemptIsHeld'
    BY <1>8 DEF IInv, SessionFenced, FenceClaim, FencedAnswer,
       OpenAttemptIsHeld, Held
  <2>3. OneHeldClaimPerEmail'
    BY <1>8 DEF IInv, SessionFenced, FenceClaim, FencedAnswer,
       OneHeldClaimPerEmail, Held, EmailOf
  <2>4. HeldClaimIsRecoverable'
    BY <1>8 DEF IInv, SessionFenced, FenceClaim, FencedAnswer,
       HeldClaimIsRecoverable, Held
  <2>5. WitnessedPasswordStands'
    BY <1>8 DEF IInv, SessionFenced, FenceClaim, FencedAnswer,
       WitnessedPasswordStands, Held, EmailOf
  <2>6. PasswordIsWitnessed'
    BY <1>8 DEF IInv, SessionFenced, FenceClaim, FencedAnswer,
       PasswordIsWitnessed, EmailOf, Fences, ValidTarget, Unspent, Candidates,
       HeldFor, Reconciling
  <2>7. OneActivePerRequest'
    BY <1>8 DEF IInv, SessionFenced, FenceClaim, FencedAnswer,
       OneActivePerRequest, Active
  <2>8. NegativeIsFenced'
    BY <1>8 DEF IInv, SessionFenced, FenceClaim, FencedAnswer,
       NegativeIsFenced, Fences, ValidTarget, Unspent, Candidates, HeldFor,
       Held, EmailOf, MarksInOrder, Reconciling
  <2>9. CheckKnowsClaims'
    BY <1>8 DEF IInv, SessionFenced, FenceClaim, FencedAnswer,
       CheckKnowsClaims, Held, Active
  <2>10. CompletedIsWitnessed'
    BY <1>8 DEF IInv, SessionFenced, FenceClaim, FencedAnswer,
       CompletedIsWitnessed, EmailOf, Fences, ValidTarget, Unspent,
       Candidates, HeldFor, Reconciling
  <2>. QED
    BY <1>t, <2>1, <2>2, <2>3, <2>4, <2>5, <2>6, <2>7, <2>8, <2>9, <2>10 DEF
       IInv
<1>9. ASSUME SessionGivesUp(l) PROVE IInv'
  <2>1. (OpenAttemptIsHeld /\ OneHeldClaimPerEmail /\ HeldClaimIsRecoverable
         /\ WitnessedPasswordStands /\ PasswordIsWitnessed
         /\ OneActivePerRequest /\ CheckKnowsClaims /\ CompletedIsWitnessed)'
    BY <1>9, Undisturbed DEF SessionGivesUp
  <2>2. MarksInOrder'
    BY <1>9 DEF IInv, SessionGivesUp, MarksInOrder, Reconciling
  <2>3. NegativeIsFenced'
    BY <1>9 DEF IInv, SessionGivesUp, NegativeIsFenced
  <2>. QED
    BY <1>t, <2>1, <2>2, <2>3 DEF IInv
<1>10. ASSUME FinishSession(l) PROVE IInv'
  <2>1. PasswordIsWitnessed'
    BY <1>10, Undisturbed DEF FinishSession, Finish
  <2>2. MarksInOrder'
    BY <1>10 DEF IInv, FinishSession, Finish, MarksInOrder, CanFinish,
       Finished, LiveTarget, Unspent
  <2>3. OpenAttemptIsHeld'
    BY <1>10 DEF IInv, FinishSession, Finish, OpenAttemptIsHeld, Held,
       CanFinish, Finished, LiveTarget, Unspent
  <2>4. OneHeldClaimPerEmail'
    BY <1>10 DEF IInv, FinishSession, Finish, OneHeldClaimPerEmail, Held,
       EmailOf
  <2>5. HeldClaimIsRecoverable'
    BY <1>10 DEF IInv, FinishSession, Finish, HeldClaimIsRecoverable, Held,
       CanFinish, Finished, LiveTarget, Unspent, EmailOf, MarksInOrder,
       OneHeldClaimPerEmail
  <2>6. WitnessedPasswordStands'
    BY <1>10 DEF IInv, FinishSession, Finish, WitnessedPasswordStands, Held,
       EmailOf
  <2>7. OneActivePerRequest'
    BY <1>10 DEF IInv, FinishSession, Finish, OneActivePerRequest, Active
  <2>8. NegativeIsFenced'
    BY <1>10 DEF IInv, FinishSession, Finish, NegativeIsFenced
  <2>9. CheckKnowsClaims'
    BY <1>10 DEF IInv, FinishSession, Finish, CheckKnowsClaims, Held, Active
  <2>10. CompletedIsWitnessed'
    BY <1>10 DEF IInv, FinishSession, Finish, CompletedIsWitnessed, EmailOf,
       CanFinish, Finished, LiveTarget, Unspent
  <2>. QED
    BY <1>t, <2>1, <2>2, <2>3, <2>4, <2>5, <2>6, <2>7, <2>8, <2>9, <2>10 DEF
       IInv
<1>11. ASSUME ProviderCommits(l) PROVE IInv'
  <2>1. (OneHeldClaimPerEmail /\ OneActivePerRequest /\ CheckKnowsClaims)'
    BY <1>11, Undisturbed DEF ProviderCommits
  <2>2. MarksInOrder'
    BY <1>11 DEF IInv, ProviderCommits, MarksInOrder, WitnessAllows
  <2>3. OpenAttemptIsHeld'
    BY <1>11 DEF IInv, ProviderCommits, OpenAttemptIsHeld, Held
  <2>4. HeldClaimIsRecoverable'
    BY <1>11 DEF IInv, ProviderCommits, HeldClaimIsRecoverable, Held
  <2>5. WitnessedPasswordStands'
    BY <1>11 DEF IInv, ProviderCommits, WitnessedPasswordStands, Held,
       EmailOf, WitnessAllows, OneHeldClaimPerEmail, OpenAttemptIsHeld
  <2>6. PasswordIsWitnessed'
    BY <1>11 DEF IInv, ProviderCommits, PasswordIsWitnessed, EmailOf
  <2>7. NegativeIsFenced'
    BY <1>11 DEF IInv, ProviderCommits, NegativeIsFenced, WitnessAllows
  <2>8. CompletedIsWitnessed'
    BY <1>11 DEF IInv, ProviderCommits, CompletedIsWitnessed, EmailOf
  <2>. QED
    BY <1>t, <2>1, <2>2, <2>3, <2>4, <2>5, <2>6, <2>7, <2>8 DEF IInv
<1>. QED
  BY <1>1, <1>2, <1>3, <1>4, <1>5, <1>6, <1>7, <1>8, <1>9, <1>10, <1>11 DEF
     SessionStep

(* "Check setup status". *)
LEMMA CheckStepKeeps ==
  ASSUME IInv, NEW c \in Checkers, CheckStep(c)
  PROVE  IInv'
<1>. USE SetupAssumption DEF TypeOK, Columns, Steps, Answers, requestVars,
                             sessionVars, checkVars, Remembered
<1>t. TypeOK' /\ Remembered'
  BY TypeStep DEF IInv, Next
<1>1. ASSUME NEW t \in Links, StartCheck(c, t) PROVE IInv'
  <2>1. (MarksInOrder /\ OpenAttemptIsHeld /\ OneHeldClaimPerEmail
         /\ HeldClaimIsRecoverable /\ WitnessedPasswordStands
         /\ PasswordIsWitnessed /\ OneActivePerRequest /\ NegativeIsFenced
         /\ CompletedIsWitnessed)'
    BY <1>1, Undisturbed DEF StartCheck
  <2>2. CheckKnowsClaims'
    BY <1>1 DEF IInv, StartCheck, CheckKnowsClaims, Held, Active, ValidTarget,
       Unspent
  <2>. QED
    BY <1>t, <2>1, <2>2 DEF IInv
<1>2. ASSUME CheckCommitted(c) PROVE IInv'
  <2>1. (MarksInOrder /\ OpenAttemptIsHeld /\ OneHeldClaimPerEmail
         /\ HeldClaimIsRecoverable /\ WitnessedPasswordStands
         /\ PasswordIsWitnessed /\ OneActivePerRequest /\ NegativeIsFenced
         /\ CompletedIsWitnessed)'
    BY <1>2, Undisturbed DEF CheckCommitted
  <2>2. CheckKnowsClaims'
    BY <1>2 DEF IInv, CheckCommitted, CheckKnowsClaims, Held, Active,
       Committed, ValidTarget, Unspent, Candidates, HeldFor, EmailOf
  <2>. QED
    BY <1>t, <2>1, <2>2 DEF IInv
<1>3. ASSUME CheckFenced(c) PROVE IInv'
  <2>1. MarksInOrder'
    BY <1>3 DEF IInv, CheckFenced, FenceClaim, EndCheck, MarksInOrder, Fences,
       ValidTarget, Unspent, Candidates, HeldFor
  <2>2. OpenAttemptIsHeld'
    BY <1>3 DEF IInv, CheckFenced, FenceClaim, EndCheck, OpenAttemptIsHeld,
       Held
  <2>3. OneHeldClaimPerEmail'
    BY <1>3 DEF IInv, CheckFenced, FenceClaim, EndCheck, OneHeldClaimPerEmail,
       Held, EmailOf
  <2>4. HeldClaimIsRecoverable'
    BY <1>3 DEF IInv, CheckFenced, FenceClaim, EndCheck,
       HeldClaimIsRecoverable, Held
  <2>5. WitnessedPasswordStands'
    BY <1>3 DEF IInv, CheckFenced, FenceClaim, EndCheck,
       WitnessedPasswordStands, Held, EmailOf
  <2>6. PasswordIsWitnessed'
    BY <1>3 DEF IInv, CheckFenced, FenceClaim, EndCheck, PasswordIsWitnessed,
       EmailOf, Fences, ValidTarget, Unspent, Candidates, HeldFor
  <2>7. OneActivePerRequest'
    BY <1>3 DEF IInv, CheckFenced, FenceClaim, EndCheck, OneActivePerRequest,
       Active
  <2>8. NegativeIsFenced'
    BY <1>3 DEF IInv, CheckFenced, FenceClaim, EndCheck, NegativeIsFenced
  <2>9. CheckKnowsClaims'
    BY <1>3 DEF IInv, CheckFenced, FenceClaim, EndCheck, CheckKnowsClaims,
       Held, Active
  <2>10. CompletedIsWitnessed'
    BY <1>3 DEF IInv, CheckFenced, FenceClaim, EndCheck, CompletedIsWitnessed,
       EmailOf, Fences, ValidTarget, Unspent, Candidates, HeldFor
  <2>. QED
    BY <1>t, <2>1, <2>2, <2>3, <2>4, <2>5, <2>6, <2>7, <2>8, <2>9, <2>10 DEF
       IInv
<1>4. ASSUME FinishCheck(c) PROVE IInv'
  <2>1. (PasswordIsWitnessed /\ NegativeIsFenced)'
    BY <1>4, Undisturbed DEF FinishCheck, Finish, EndCheck
  <2>2. MarksInOrder'
    BY <1>4 DEF IInv, FinishCheck, Finish, EndCheck, MarksInOrder, CanFinish,
       Finished, LiveTarget, Unspent
  <2>3. OpenAttemptIsHeld'
    BY <1>4 DEF IInv, FinishCheck, Finish, EndCheck, OpenAttemptIsHeld, Held,
       CanFinish, Finished, LiveTarget, Unspent
  <2>4. OneHeldClaimPerEmail'
    BY <1>4 DEF IInv, FinishCheck, Finish, EndCheck, OneHeldClaimPerEmail,
       Held, EmailOf
  <2>5. HeldClaimIsRecoverable'
    BY <1>4 DEF IInv, FinishCheck, Finish, EndCheck, HeldClaimIsRecoverable,
       Held, CanFinish, Finished, LiveTarget, Unspent, EmailOf, MarksInOrder,
       OneHeldClaimPerEmail, CheckKnowsClaims, Active
  <2>6. WitnessedPasswordStands'
    BY <1>4 DEF IInv, FinishCheck, Finish, EndCheck, WitnessedPasswordStands,
       Held, EmailOf
  <2>7. OneActivePerRequest'
    BY <1>4 DEF IInv, FinishCheck, Finish, EndCheck, OneActivePerRequest,
       Active
  <2>8. CheckKnowsClaims'
    BY <1>4 DEF IInv, FinishCheck, Finish, EndCheck, CheckKnowsClaims, Held,
       Active
  <2>9. CompletedIsWitnessed'
    BY <1>4 DEF IInv, FinishCheck, Finish, EndCheck, CompletedIsWitnessed,
       EmailOf, CanFinish, Finished, LiveTarget, Unspent
  <2>. QED
    BY <1>t, <2>1, <2>2, <2>3, <2>4, <2>5, <2>6, <2>7, <2>8, <2>9 DEF IInv
<1>5. ASSUME CheckGivesUp(c) PROVE IInv'
  <2>1. (MarksInOrder /\ OpenAttemptIsHeld /\ OneHeldClaimPerEmail
         /\ HeldClaimIsRecoverable /\ WitnessedPasswordStands
         /\ PasswordIsWitnessed /\ OneActivePerRequest /\ NegativeIsFenced
         /\ CompletedIsWitnessed)'
    BY <1>5, Undisturbed DEF CheckGivesUp, EndCheck
  <2>2. CheckKnowsClaims'
    BY <1>5 DEF IInv, CheckGivesUp, EndCheck, CheckKnowsClaims, Held, Active
  <2>. QED
    BY <1>t, <2>1, <2>2 DEF IInv
<1>. QED
  BY <1>1, <1>2, <1>3, <1>4, <1>5 DEF CheckStep

----------------------------------------------------------------------------

(* At the start no link exists and nothing is marked. *)
LEMMA InitHolds == Init => IInv
<1>. SUFFICES ASSUME Init PROVE IInv
  OBVIOUS
<1>. USE SetupAssumption DEF Init, Held, Active, EmailOf
<1>1. TypeOK
  BY DEF TypeOK, Columns, Steps, Answers
<1>2. MarksInOrder /\ OpenAttemptIsHeld /\ OneActivePerRequest
  BY DEF MarksInOrder, OpenAttemptIsHeld, OneActivePerRequest
<1>3. OneHeldClaimPerEmail /\ HeldClaimIsRecoverable /\ WitnessedPasswordStands
  BY DEF OneHeldClaimPerEmail, HeldClaimIsRecoverable, WitnessedPasswordStands
<1>4. PasswordIsWitnessed /\ NegativeIsFenced /\ CompletedIsWitnessed
  BY DEF PasswordIsWitnessed, NegativeIsFenced, CompletedIsWitnessed
<1>5. Remembered /\ CheckKnowsClaims
  BY DEF Remembered, CheckKnowsClaims
<1>. QED
  BY <1>1, <1>2, <1>3, <1>4, <1>5 DEF IInv

(* Every step keeps the invariant: the four kinds of steps, each its lemma. *)
LEMMA StepKeeps == IInv /\ [Next]_vars => IInv'
<1>. SUFFICES ASSUME IInv, [Next]_vars PROVE IInv'
  OBVIOUS
<1>1. CASE Next
  BY <1>1, RequestStepKeeps, LinkStepKeeps, SessionStepKeeps, CheckStepKeeps
     DEF Next
<1>2. CASE UNCHANGED vars
  <2>. USE <1>2 DEF vars, requestVars, sessionVars, checkVars
  <2>1. TypeOK' /\ Remembered'
    BY TypeStep DEF IInv
  <2>. QED
    BY <2>1, Undisturbed DEF IInv
<1>. QED
  BY <1>1, <1>2

(* The inductive invariant holds in every reachable state. *)
THEOREM Inductive == Spec => []IInv
  BY InitHolds, StepKeeps, PTL DEF Spec

(* The columns, the attempts and what the handlers remember stay in their   *)
(* types.                                                                   *)
THEOREM TypeCorrect == Spec => []TypeOK
<1>1. IInv => TypeOK
  BY DEF IInv
<1>. QED
  BY <1>1, Inductive, PTL

(* However many requests and links an email has, one claim of it is held at *)
(* a time: the scan of claim_account_setup_link_for_session.                *)
THEOREM OneHolder == Spec => []OneHeldClaimPerEmail
<1>1. IInv => OneHeldClaimPerEmail
  BY DEF IInv
<1>. QED
  BY <1>1, Inductive, PTL

(* reconcile_account_setup_claim always finds a held claim in a state it    *)
(* can decide: neither rescinding, completing nor expiry strands one.       *)
THEOREM Recoverable == Spec => []HeldClaimIsRecoverable
<1>1. IInv => HeldClaimIsRecoverable
  BY DEF IInv
<1>. QED
  BY <1>1, Inductive, PTL

(* The password a witnessed claim is about to record is the one in force.   *)
THEOREM PasswordStands == Spec => []WitnessedPasswordStands
<1>1. IInv => WitnessedPasswordStands
  BY DEF IInv
<1>. QED
  BY <1>1, Inductive, PTL

(* Whoever was told that no account was created never has the password they *)
(* typed, even if the provider's transaction runs long after the answer.    *)
THEOREM NegativeIsFinal == Spec => []NegativeAnswerMeansNoPassword
<1>1. IInv => NegativeAnswerMeansNoPassword
  BY SetupAssumption DEF IInv, NegativeIsFenced, PasswordIsWitnessed, TypeOK,
                         NegativeAnswerMeansNoPassword
<1>. QED
  BY <1>1, Inductive, PTL

(* Every finished request rests on a used link of its own and on a password *)
(* write that the provider's own transaction witnessed.                     *)
THEOREM CompletionIsWitnessed == Spec => []CompletedIsWitnessed
<1>1. IInv => CompletedIsWitnessed
  BY DEF IInv
<1>. QED
  BY <1>1, Inductive, PTL

(* Only ProviderCommits writes a password, and only under an open attempt,  *)
(* which the invariant ties to a claim that is held, approved, unfinished.  *)
THEOREM WritesUnderClaim == Spec => WriteOnlyUnderClaim
<1>. DEFINE Written(e) ==
        password'[e] # password[e] =>
            /\ Held(password'[e])
            /\ EmailOf(password'[e]) = e
            /\ status[RequestOf[password'[e]]] = "approved"
            /\ RequestOf[password'[e]] \notin completed
<1>1. ASSUME IInv, [Next]_vars, NEW e \in Emails PROVE Written(e)
  <2>1. ASSUME NEW l \in Links, ProviderCommits(l) PROVE Written(e)
    BY <1>1, <2>1, SetupAssumption
       DEF ProviderCommits, WitnessAllows, IInv, TypeOK, OpenAttemptIsHeld,
           HeldClaimIsRecoverable, EmailOf
  <2>2. ASSUME NEW r \in Requests, RequestStep(r) PROVE Written(e)
    BY <2>2 DEF RequestStep, Submit, Approve, Reject, Invite, Rescind,
                WithdrawInvitation, ChangeEmail
  <2>3. ASSUME NEW l \in Links, LinkStep(l) PROVE Written(e)
    BY <2>3 DEF LinkStep, Issue, Expire, CleanUp, ReleaseClaim
  <2>4. ASSUME NEW l \in Links, SessionStep(l) PROVE Written(e)
    BY <2>4 DEF SessionStep, ClaimLink, GiveUp, CallProvider, HearSuccess,
                HearRefusal, HearError, SessionCommitted, SessionFenced,
                SessionGivesUp, FinishSession
  <2>5. ASSUME NEW c \in Checkers, CheckStep(c) PROVE Written(e)
    BY <2>5 DEF CheckStep, StartCheck, CheckCommitted, CheckFenced,
                FinishCheck, CheckGivesUp
  <2>. QED
    BY <1>1, <2>1, <2>2, <2>3, <2>4, <2>5 DEF Next, vars
<1>2. IInv /\ [Next]_vars => [\A e \in Emails : Written(e)]_vars
  BY <1>1
<1>. QED
  BY <1>2, Inductive, PTL DEF Spec, WriteOnlyUnderClaim

----------------------------------------------------------------------------

(* Only claiming, using and failing a link and its attempt move its hold. *)
LEMMA HoldUndisturbed ==
  ASSUME UNCHANGED <<attempt, email>>,
         \A l \in Links : \A col \in {"claimed", "used", "failed"} :
            col \in mark'[l] <=> col \in mark[l]
  PROVE  UNCHANGED Hold!holdVars
  BY DEF Hold!holdVars, HoldOf, Held, EmailOf

(* Submitting and approving leave the hold; only an email change moves it. *)
LEMMA RequestStepHold ==
  ASSUME IInv, NEW r \in Requests, RequestStep(r)
  PROVE  [Hold!Next]_Hold!holdVars
<1>. USE SetupAssumption DEF IInv, TypeOK, requestVars, sessionVars, checkVars
<1>1. CASE \/ Submit(r) \/ Approve(r) \/ Reject(r) \/ Invite(r)
           \/ WithdrawInvitation(r)
  BY <1>1, HoldUndisturbed
     DEF Submit, Approve, Reject, Invite, WithdrawInvitation
<1>2. CASE Rescind(r)
  BY <1>2, HoldUndisturbed DEF Rescind, RevokeOpenLinks
<1>3. ASSUME NEW e \in Emails, ChangeEmail(r, e) PROVE Hold!Readdress
  BY <1>3 DEF ChangeEmail, Hold!Readdress, HoldOf, Held, EmailOf
<1>. QED
  BY <1>1, <1>2, <1>3 DEF RequestStep, Hold!Next

(* Staff steps on a link release a hold, or change none. *)
LEMMA LinkStepHold ==
  ASSUME IInv, NEW l \in Links, LinkStep(l)
  PROVE  [Hold!Next]_Hold!holdVars
<1>. USE SetupAssumption DEF IInv, TypeOK, requestVars, sessionVars, checkVars
<1>1. CASE Issue(l)
  BY <1>1, HoldUndisturbed DEF Issue, RevokeOpenLinks
<1>2. CASE Expire(l)
  BY <1>2, HoldUndisturbed DEF Expire
<1>3. CASE CleanUp(l)
  BY <1>3, HoldUndisturbed DEF CleanUp
<1>4. ASSUME ReleaseClaim(l) PROVE Hold!Close({l})
  BY <1>4 DEF ReleaseClaim, FailHeld, Fence, Hold!Close, Hold!Ended, HoldOf,
              Held, EmailOf
<1>. QED
  BY <1>1, <1>2, <1>3, <1>4 DEF LinkStep, Hold!Next

(* Completion ends the hold of the link it spends and touches no other. *)
LEMMA FinishHold ==
  ASSUME IInv, NEW s \in Links, NEW t \in Links, CanFinish(s, t), Finish(s, t),
         UNCHANGED <<attempt, email>>
  PROVE  Hold!Close({s, t})
  BY SetupAssumption
     DEF IInv, TypeOK, MarksInOrder, CanFinish, Finish, Finished, LiveTarget,
         Unspent, Hold!Close, Hold!Ended, HoldOf, Held, EmailOf

(* A visitor's steps take a hold, or record what the provider is asked. *)
LEMMA SessionStepHold ==
  ASSUME IInv, NEW l \in Links, SessionStep(l) \/ ProviderCommits(l)
  PROVE  [Hold!Next]_Hold!holdVars
<1>. USE SetupAssumption DEF IInv, TypeOK, requestVars, sessionVars, checkVars
<1>1. CASE \/ CallProvider(l) \/ HearSuccess(l) \/ HearRefusal(l)
           \/ HearError(l) \/ SessionCommitted(l) \/ SessionGivesUp(l)
  BY <1>1, HoldUndisturbed
     DEF CallProvider, HearSuccess, HearRefusal, HearError, SessionCommitted,
         SessionGivesUp
<1>2. ASSUME ClaimLink(l) PROVE Hold!Acquire(l)
  BY <1>2 DEF ClaimLink, Claimable, LinkOpen, HeldFor, Active, MarksInOrder,
              Hold!Acquire, Hold!Holding, HoldOf, Held, EmailOf
<1>3. ASSUME GiveUp(l) PROVE [Hold!Next]_Hold!holdVars
  <2>1. CASE Held(l)
    <3>1. Hold!Close({l})
      BY <1>3, <2>1 DEF GiveUp, FailIfHeld, FailHeld, Fence, Hold!Close,
                        Hold!Ended, HoldOf, Held, EmailOf
    <3>. QED
      BY <3>1 DEF Hold!Next
  <2>2. CASE ~Held(l)
    BY <1>3, <2>2, HoldUndisturbed DEF GiveUp, FailIfHeld
  <2>. QED
    BY <2>1, <2>2
<1>4. ASSUME SessionFenced(l) PROVE \E s \in Links : Hold!Close({s})
  BY <1>4 DEF SessionFenced, Fences, FenceClaim, Candidates, HeldFor,
              Hold!Close, Hold!Ended, HoldOf, Held, EmailOf
<1>5. ASSUME FinishSession(l) PROVE Hold!Next
  <2>1. source[l] \in Links
    BY <1>5 DEF FinishSession, Remembered
  <2>2. Hold!Close({source[l], l})
    BY <1>5, <2>1, FinishHold DEF FinishSession
  <2>. QED
    BY <2>1, <2>2 DEF Hold!Next
<1>6. ASSUME ProviderCommits(l) PROVE Hold!Write(l)
  BY <1>6 DEF ProviderCommits, WitnessAllows, OpenAttemptIsHeld, Hold!Write,
              HoldOf, Held, EmailOf
<1>. QED
  BY <1>1, <1>2, <1>3, <1>4, <1>5, <1>6 DEF SessionStep, Hold!Next

(* The staff check ends a hold only on a witness or a final refusal. *)
LEMMA CheckStepHold ==
  ASSUME IInv, NEW c \in Checkers, CheckStep(c)
  PROVE  [Hold!Next]_Hold!holdVars
<1>. USE SetupAssumption DEF IInv, TypeOK, requestVars, sessionVars, checkVars
<1>1. CASE \/ \E t \in Links : StartCheck(c, t)
           \/ CheckCommitted(c) \/ CheckGivesUp(c)
  BY <1>1, HoldUndisturbed DEF StartCheck, CheckCommitted, CheckGivesUp
<1>2. ASSUME CheckFenced(c) PROVE \E s \in Links : Hold!Close({s})
  BY <1>2 DEF CheckFenced, Fences, FenceClaim, Candidates, HeldFor,
              Hold!Close, Hold!Ended, HoldOf, Held, EmailOf
<1>3. ASSUME FinishCheck(c) PROVE Hold!Next
  <2>1. source[c] \in Links /\ target[c] \in Links
    BY <1>3 DEF FinishCheck, Remembered
  <2>2. Hold!Close({source[c], target[c]})
    BY <1>3, <2>1, FinishHold DEF FinishCheck
  <2>. QED
    BY <2>1, <2>2 DEF Hold!Next
<1>. QED
  BY <1>1, <1>2, <1>3 DEF CheckStep, Hold!Next

(* Account setup implements PasswordHold: requests, links, handlers,        *)
(* provider, staff and clock can only acquire, write under and close one email's      *)
(* right at a time, and a right that ended never writes.                    *)
THEOREM Implements == Spec => ImplementsHold
<1>1. Init => Hold!Init
  BY SetupAssumption DEF Init, Hold!Init, HoldOf, EmailOf
<1>2. IInv /\ [Next]_vars => [Hold!Next]_Hold!holdVars
  <2>. SUFFICES ASSUME IInv, [Next]_vars PROVE [Hold!Next]_Hold!holdVars
    OBVIOUS
  <2>1. CASE Next
    BY <2>1, RequestStepHold, LinkStepHold, SessionStepHold, CheckStepHold
       DEF Next
  <2>2. CASE UNCHANGED vars
    BY <2>2, HoldUndisturbed DEF vars, requestVars
  <2>. QED
    BY <2>1, <2>2
<1>. QED
  BY <1>1, <1>2, Inductive, PTL DEF Spec, ImplementsHold, Hold!Spec
=============================================================================
