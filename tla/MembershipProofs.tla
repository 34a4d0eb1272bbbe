-------------------------- MODULE MembershipProofs --------------------------
(***************************************************************************)
(* Membership's safety for any number of users, memberships, invitations   *)
(* and overlapping requests.  What the locks are for is the inductive part *)
(* of it: an acceptance that holds its invitation's row keeps it pending   *)
(* and to itself, and a transfer that holds the Organization's row keeps   *)
(* it from being suspended.  Every step then maps to one of what           *)
(* OrganizationAccess promises: since a user has one row at most, a change *)
(* of a row's role is the change of its user's.                            *)
(***************************************************************************)
EXTENDS Membership, TLAPS

\* A locked invitation stays pending, and one acceptance at a time locks it.
AdmitHoldsPending ==
    \A q \in Requests : job[q].op = "admit" =>
        /\ state[job[q].inv] = "pending"
        /\ \A p \in Requests : job[p] = job[q] => p = q

\* The owner's transfer runs in an Organization that is not suspended.
TransferUnsuspended ==
    \A q \in Requests : job[q].op = "transfer" => ~suspended

\* A user has at most one row under the roles f of the rows.
OneRow(f) ==
    \A r, s \in Rows :
        UserOf[r] = UserOf[s] /\ f[r] # NoRole /\ f[s] # NoRole => r = s

OneRowPerUser == OneRow(role)

IInv ==
    /\ TypeOK
    /\ OneOwner
    /\ OneRowPerUser
    /\ MembersWereInvited
    /\ AdmitHoldsPending
    /\ TransferUnsuspended

-----------------------------------------------------------------------------
(* Types *)

\* What a request remembers is named by its kind.
LEMMA JobShape ==
    ASSUME TypeOK, NEW q \in Requests
    PROVE  /\ job[q].op \in {"accept", "admit"} =>
                job[q].inv \in Invitations /\ job[q] = [op |-> job[q].op, inv |-> job[q].inv]
           /\ job[q].op \in {"update", "updating", "remove"} =>
                job[q].row \in Rows /\ job[q].was \in Editable
           /\ job[q].op \in {"update", "transfer"} => job[q].who \in Users
           /\ job[q].op \in {"transfer", "platform"} => job[q].to \in Users
<1>1. job[q] \in Jobs
  BY DEF TypeOK
<1>2. QED BY <1>1 DEF Jobs, Idle

\* A slot that is given a well-formed request or emptied stays well formed.
LEMMA SlotType ==
    ASSUME TypeOK, NEW q \in Requests, NEW j \in Jobs, job' = [job EXCEPT ![q] = j]
    PROVE  job' \in [Requests -> Jobs]
  BY DEF TypeOK

\* The empty slot is a job.
LEMMA IdleJob == Idle \in Jobs
  BY DEF Jobs

\* Passing ownership on keeps roles roles.
LEMMA PassType ==
    ASSUME TypeOK, NEW q \in Requests, NEW o \in Rows, NEW t \in Rows,
           PassOwnership(q, o, t)
    PROVE  TypeOK'
  BY SlotType, IdleJob DEF PassOwnership, TypeOK, Roles, Editable, Finish

\* The initial state has the declared types.
LEMMA InitType == Init => TypeOK
<1>1. FirstRole \in [Founding -> Editable \cup {"owner"}]
  BY MembershipAssumption
<1>2. Init => role \in [Rows -> Roles]
  BY <1>1 DEF Init, Roles
<1>3. QED BY <1>2, IdleJob DEF Init, TypeOK, States

\* Every step keeps the declared types.
LEMMA NextType == TypeOK /\ [Next]_vars => TypeOK'
<1> SUFFICES ASSUME TypeOK, [Next]_vars PROVE TypeOK'
  OBVIOUS
<1>1. CASE UNCHANGED vars
  BY <1>1 DEF vars, TypeOK
<1>2. ASSUME NEW i \in Invitations,
             Lapse(i) \/ Decline(i) \/ Expire(i) \/ Block(i) \/ \E u \in Users : Revoke(u, i) \/ Invite(u, i)
      PROVE  TypeOK'
  BY <1>2 DEF Lapse, Decline, Expire, Block, Revoke, Invite, SetState, TypeOK, States, Ended
<1>3. ASSUME NEW b \in BOOLEAN, SetSuspended(b) PROVE TypeOK'
  BY <1>3 DEF SetSuspended, TypeOK
<1>4. ASSUME NEW q \in Requests, GiveUp(q) \/ Transfer(q) \/ PlatformTransfer(q) PROVE TypeOK'
  <2>1. CASE GiveUp(q)
    BY <2>1, SlotType, IdleJob DEF GiveUp, Finish, TypeOK
  <2>2. CASE Transfer(q) \/ PlatformTransfer(q)
    BY <2>2, PassType DEF Transfer, PlatformTransfer
  <2>3. QED BY <1>4, <2>1, <2>2
<1>5. ASSUME NEW q \in Requests, NEW i \in Invitations, BeginAccept(q, i) PROVE TypeOK'
  <2>1. [op |-> "accept", inv |-> i] \in Jobs
    BY DEF Jobs
  <2>2. QED BY <1>5, <2>1, SlotType DEF BeginAccept, Start, TypeOK
<1>6. ASSUME NEW q \in Requests, LockInvitation(q) PROVE TypeOK'
  <2>1. [op |-> "admit", inv |-> job[q].inv] \in Jobs
    BY <1>6, JobShape DEF Jobs, LockInvitation
  <2>2. QED BY <1>6, <2>1, SlotType DEF LockInvitation, TypeOK
<1>7. ASSUME NEW q \in Requests, Admit(q) PROVE TypeOK'
  <2>1. job[q].inv \in Invitations /\ Offer[job[q].inv] \in Roles
    BY <1>7, JobShape, MembershipAssumption DEF Admit, Roles
  <2>2. job' \in [Requests -> Jobs]
    BY <1>7, SlotType, IdleJob DEF Admit, Finish
  <2>3. role' \in [Rows -> Roles] /\ state' \in [Invitations -> States]
    BY <1>7, <2>1 DEF Admit, TypeOK, States, Rows
  <2>4. QED BY <1>7, <2>2, <2>3 DEF Admit, TypeOK
<1>8. ASSUME NEW q \in Requests, NEW u \in Users, NEW r \in Rows,
             BeginRemove(q, u, r) \/ BeginUpdate(q, u, r)
      PROVE  TypeOK'
  <2>1. CASE BeginRemove(q, u, r)
    <3>1. [op |-> "remove", row |-> r, was |-> role[r]] \in Jobs
      BY <2>1 DEF BeginRemove, Jobs
    <3>2. QED BY <2>1, <3>1, SlotType DEF BeginRemove, Start, TypeOK
  <2>2. CASE BeginUpdate(q, u, r)
    <3>1. [op |-> "update", who |-> u, row |-> r, was |-> role[r]] \in Jobs
      BY <2>2 DEF BeginUpdate, Jobs
    <3>2. QED BY <2>2, <3>1, SlotType DEF BeginUpdate, Start, TypeOK
  <2>3. QED BY <1>8, <2>1, <2>2
<1>9. ASSUME NEW q \in Requests, StartUpdate(q) PROVE TypeOK'
  <2>1. [op |-> "updating", row |-> job[q].row, was |-> job[q].was] \in Jobs
    BY <1>9, JobShape DEF StartUpdate, Jobs
  <2>2. QED BY <1>9, <2>1, SlotType DEF StartUpdate, TypeOK
<1>10. ASSUME NEW q \in Requests, Update(q) \/ Remove(q) PROVE TypeOK'
  <2>1. job' \in [Requests -> Jobs]
    BY <1>10, SlotType, IdleJob DEF Update, Remove, Finish
  <2>2. role' \in [Rows -> Roles]
    BY <1>10 DEF Update, Remove, TypeOK, Other, Roles, Editable
  <2>3. QED BY <1>10, <2>1, <2>2 DEF Update, Remove, TypeOK
<1>11. ASSUME NEW q \in Requests, NEW u \in Users, NEW v \in Users, BeginTransfer(q, u, v)
       PROVE  TypeOK'
  <2>1. [op |-> "transfer", who |-> u, to |-> v] \in Jobs
    BY DEF Jobs
  <2>2. QED BY <1>11, <2>1, SlotType DEF BeginTransfer, Start, TypeOK
<1>12. ASSUME NEW q \in Requests, NEW v \in Users, BeginPlatformTransfer(q, v) PROVE TypeOK'
  <2>1. [op |-> "platform", to |-> v] \in Jobs
    BY DEF Jobs
  <2>2. QED BY <1>12, <2>1, SlotType DEF BeginPlatformTransfer, Start, TypeOK
<1>13. QED
  BY <1>1, <1>2, <1>3, <1>4, <1>5, <1>6, <1>7, <1>8, <1>9, <1>10, <1>11, <1>12 DEF Next

-----------------------------------------------------------------------------
(* What a step can do to roles and invitations *)

\* One invitation's acceptance is recorded.
Enters(q, i) ==
    /\ job[q] = [op |-> "admit", inv |-> i]
    /\ role' = [role EXCEPT ![i] = Offer[i]]
    /\ state' = [state EXCEPT ![i] = "accepted"]
    /\ \A r \in Rows : UserOf[r] = UserOf[i] => role[r] = NoRole

\* A membership that is not the owner's changes or ends.
Changes(r, x) ==
    /\ role[r] \in Editable /\ x \in Editable \cup {NoRole}
    /\ role' = [role EXCEPT ![r] = x]
    /\ UNCHANGED state

\* Ownership passes from one row to another.
Passes(o, t) ==
    /\ role[o] = "owner" /\ role[t] \in Editable
    /\ role' = [role EXCEPT ![o] = "admin", ![t] = "owner"]
    /\ UNCHANGED state

\* An invitation nobody holds is created or ends.
Moves(i, s) ==
    /\ InvitationFree(i)
    /\ state[i] \notin {"accepted"}
    /\ s = "pending" <=> state[i] = "new"
    /\ s \in Ended \cup {"pending"}
    /\ state' = [state EXCEPT ![i] = s]
    /\ UNCHANGED <<role, job>>

\* Every step is one of these or leaves roles and invitations alone.
LEMMA StepEffect ==
    ASSUME TypeOK, AdmitHoldsPending, [Next]_vars
    PROVE  \/ UNCHANGED <<role, state>>
           \/ \E q \in Requests, i \in Invitations : Enters(q, i)
           \/ \E r \in Rows : \E x \in Editable \cup {NoRole} : Changes(r, x)
           \/ \E o, t \in Rows : Passes(o, t)
           \/ \E i \in Invitations : \E s \in States : Moves(i, s)
<1>1. CASE UNCHANGED vars
  BY <1>1 DEF vars
<1>2. ASSUME NEW i \in Invitations,
             Decline(i) \/ Expire(i) \/ Block(i) \/ \E u \in Users : Revoke(u, i)
      PROVE  \E s \in States : Moves(i, s)
  <2>1. ASSUME NEW s \in Ended, state[i] \notin {"new", "accepted"}, SetState(i, s)
        PROVE  \E z \in States : Moves(i, z)
    BY <2>1 DEF SetState, Moves, States, Ended
  <2>2. QED BY <1>2, <2>1 DEF Decline, Expire, Block, Revoke, Ended
<1>3. ASSUME NEW i \in Invitations, NEW u \in Users, Invite(u, i)
      PROVE  \E s \in States : Moves(i, s)
  <2>1. ASSUME NEW q \in Requests PROVE job[q] # [op |-> "admit", inv |-> i]
    BY <1>3 DEF Invite, AdmitHoldsPending
  <2>2. Moves(i, "pending")
    BY <1>3, <2>1 DEF Invite, Moves, InvitationFree
  <2>3. QED BY <2>2 DEF States
<1>4. ASSUME NEW q \in Requests, Admit(q)
      PROVE  UNCHANGED <<role, state>> \/ \E i \in Invitations : Enters(q, i)
  <2>1. job[q].inv \in Invitations /\ job[q] = [op |-> "admit", inv |-> job[q].inv]
    BY <1>4, JobShape DEF Admit
  <2>2. CASE Holds(UserOf[job[q].inv], Roles \ {NoRole})
    BY <1>4, <2>2 DEF Admit
  <2>3. CASE ~Holds(UserOf[job[q].inv], Roles \ {NoRole})
    <3>1. \A r \in Rows : UserOf[r] = UserOf[job[q].inv] => role[r] = NoRole
      BY <2>3 DEF Holds, TypeOK
    <3>2. Enters(q, job[q].inv)
      BY <1>4, <2>1, <2>3, <3>1 DEF Admit, Enters
    <3>3. QED BY <2>1, <3>2
  <2>4. QED BY <2>2, <2>3
<1>5. ASSUME NEW q \in Requests, Update(q) \/ Remove(q)
      PROVE  \E r \in Rows : \E x \in Editable \cup {NoRole} : Changes(r, x)
  <2>1. job[q].row \in Rows /\ role[job[q].row] \in Editable
    BY <1>5, JobShape DEF Update, Remove, StillAsSeen
  <2>2. CASE Update(q)
    <3>1. Other(job[q].was) \in Editable
      BY DEF Other, Editable
    <3>2. Changes(job[q].row, Other(job[q].was))
      BY <2>1, <2>2, <3>1 DEF Update, Changes
    <3>3. QED BY <2>1, <3>1, <3>2
  <2>3. CASE Remove(q)
    <3>1. Changes(job[q].row, NoRole)
      BY <2>1, <2>3 DEF Remove, Changes
    <3>2. QED BY <2>1, <3>1
  <2>4. QED BY <1>5, <2>2, <2>3
<1>6. ASSUME NEW q \in Requests, Transfer(q) \/ PlatformTransfer(q)
      PROVE  \E o, t \in Rows : Passes(o, t)
  BY <1>6 DEF Transfer, PlatformTransfer, PassOwnership, Passes
<1>7. ASSUME NEW q \in Requests,
             \/ GiveUp(q) \/ LockInvitation(q) \/ StartUpdate(q)
             \/ \E i \in Invitations : BeginAccept(q, i)
             \/ \E u \in Users, r \in Rows : BeginRemove(q, u, r) \/ BeginUpdate(q, u, r)
             \/ \E u, v \in Users : BeginTransfer(q, u, v)
             \/ \E v \in Users : BeginPlatformTransfer(q, v)
      PROVE  UNCHANGED <<role, state>>
  BY <1>7 DEF GiveUp, LockInvitation, StartUpdate, BeginAccept, BeginRemove, BeginUpdate,
              BeginTransfer, BeginPlatformTransfer
<1>8. ASSUME \/ \E i \in Invitations : Lapse(i)
             \/ \E b \in BOOLEAN : SetSuspended(b)
      PROVE  UNCHANGED <<role, state>>
  BY <1>8 DEF Lapse, SetSuspended
<1>9. QED
  BY <1>1, <1>2, <1>3, <1>4, <1>5, <1>6, <1>7, <1>8 DEF Next

-----------------------------------------------------------------------------
(* The invariant *)

\* It holds at the start: the assumption names the one founding owner.
LEMMA InitIInv == Init => IInv
<1> SUFFICES ASSUME Init PROVE IInv
  OBVIOUS
<1>1. TypeOK
  BY InitType
<1>2. OneOwner
  <2>1. PICK o \in Founding : \A s \in Founding : FirstRole[s] = "owner" <=> s = o
    BY MembershipAssumption
  <2>2. o \in Rows
    BY DEF Rows
  <2>3. \A r \in Rows : role[r] = "owner" <=> r = o
    BY <2>1 DEF Init, NoRole
  <2>4. QED BY <2>2, <2>3 DEF OneOwner
<1>3. MembersWereInvited
  BY MembershipAssumption DEF Init, MembersWereInvited, Rows
<1>4. AdmitHoldsPending /\ TransferUnsuspended
  BY DEF Init, AdmitHoldsPending, TransferUnsuspended, Idle
<1>5. OneRowPerUser
  BY MembershipAssumption DEF Init, OneRowPerUser, OneRow, Rows, NoRole
<1>6. QED BY <1>1, <1>2, <1>3, <1>4, <1>5 DEF IInv

\* Only passing ownership touches an owner's row, and it makes one other row
\* the owner's.
LEMMA OneOwnerStep == IInv /\ [Next]_vars => OneOwner'
<1> SUFFICES ASSUME IInv, [Next]_vars PROVE OneOwner'
  OBVIOUS
<1>1. PICK w \in Rows : \A r \in Rows : role[r] = "owner" <=> r = w
  BY DEF IInv, OneOwner
<1>2. CASE UNCHANGED <<role, state>>
  BY <1>2 DEF IInv, OneOwner
<1>3. ASSUME NEW q \in Requests, NEW i \in Invitations, Enters(q, i) PROVE OneOwner'
  <2>1. i \in Rows /\ Offer[i] # "owner" /\ role[i] # "owner"
    BY <1>3, MembershipAssumption DEF Rows, Enters, Editable, NoRole
  <2>2. \A r \in Rows : role'[r] = "owner" <=> r = w
    BY <1>1, <1>3, <2>1 DEF Enters, IInv, TypeOK
  <2>3. QED BY <2>2 DEF OneOwner
<1>4. ASSUME NEW r \in Rows, NEW x \in Editable \cup {NoRole}, Changes(r, x) PROVE OneOwner'
  <2>1. \A s \in Rows : role'[s] = "owner" <=> s = w
    BY <1>1, <1>4 DEF Changes, IInv, TypeOK, Editable, NoRole
  <2>2. QED BY <2>1 DEF OneOwner
<1>5. ASSUME NEW o \in Rows, NEW t \in Rows, Passes(o, t) PROVE OneOwner'
  <2>1. \A s \in Rows : role'[s] = "owner" <=> s = t
    BY <1>1, <1>5 DEF Passes, IInv, TypeOK, Editable
  <2>2. QED BY <2>1 DEF OneOwner
<1>6. ASSUME NEW i \in Invitations, NEW s \in States, Moves(i, s) PROVE OneOwner'
  BY <1>6 DEF Moves, IInv, OneOwner
<1>7. QED
  BY <1>2, <1>3, <1>4, <1>5, <1>6, StepEffect DEF IInv

\* An acceptance adds a row for a user who has none; the other steps change
\* rows that are there or remove them.
LEMMA OneRowStep == IInv /\ [Next]_vars => OneRowPerUser'
<1> SUFFICES ASSUME IInv, [Next]_vars PROVE OneRowPerUser'
  OBVIOUS
<1> USE DEF IInv
<1>1. CASE UNCHANGED <<role, state>>
  BY <1>1 DEF OneRowPerUser, OneRow
<1>2. ASSUME NEW q \in Requests, NEW i \in Invitations, Enters(q, i) PROVE OneRowPerUser'
  <2>1. i \in Rows
    BY DEF Rows
  <2>2. \A r \in Rows : r # i => role'[r] = role[r]
    BY <1>2 DEF Enters, TypeOK
  <2>3. \A r \in Rows : r # i /\ UserOf[r] = UserOf[i] => role'[r] = NoRole
    BY <1>2, <2>2 DEF Enters
  <2>4. QED BY <2>1, <2>2, <2>3 DEF OneRowPerUser, OneRow
<1>3. ASSUME NEW r \in Rows, NEW x \in Editable \cup {NoRole}, Changes(r, x)
      PROVE  OneRowPerUser'
  <2>1. \A s \in Rows : role'[s] # NoRole => role[s] # NoRole
    BY <1>3 DEF Changes, TypeOK, Editable, NoRole
  <2>2. QED BY <2>1 DEF OneRowPerUser, OneRow
<1>4. ASSUME NEW o \in Rows, NEW t \in Rows, Passes(o, t) PROVE OneRowPerUser'
  <2>1. \A s \in Rows : role'[s] # NoRole => role[s] # NoRole
    BY <1>4 DEF Passes, TypeOK, Editable, NoRole
  <2>2. QED BY <2>1 DEF OneRowPerUser, OneRow
<1>5. ASSUME NEW i \in Invitations, NEW s \in States, Moves(i, s) PROVE OneRowPerUser'
  BY <1>5 DEF Moves, OneRowPerUser, OneRow
<1>6. QED
  BY <1>1, <1>2, <1>3, <1>4, <1>5, StepEffect

\* Nothing moves an accepted invitation.
LEMMA InvitedStep == IInv /\ [Next]_vars => MembersWereInvited'
<1> SUFFICES ASSUME IInv, [Next]_vars PROVE MembersWereInvited'
  OBVIOUS
<1> USE DEF IInv
<1>1. CASE UNCHANGED <<role, state>>
  BY <1>1 DEF MembersWereInvited
<1>2. ASSUME NEW q \in Requests, NEW i \in Invitations, Enters(q, i) PROVE MembersWereInvited'
  BY <1>2 DEF Enters, MembersWereInvited, TypeOK, Rows
<1>3. ASSUME NEW r \in Rows, NEW x \in Editable \cup {NoRole}, Changes(r, x)
      PROVE  MembersWereInvited'
  BY <1>3 DEF Changes, MembersWereInvited, TypeOK, Rows, Editable, NoRole
<1>4. ASSUME NEW o \in Rows, NEW t \in Rows, Passes(o, t) PROVE MembersWereInvited'
  BY <1>4 DEF Passes, MembersWereInvited, TypeOK, Rows, Editable, NoRole
<1>5. ASSUME NEW i \in Invitations, NEW s \in States, Moves(i, s) PROVE MembersWereInvited'
  BY <1>5 DEF Moves, MembersWereInvited, TypeOK, Rows
<1>6. QED
  BY <1>1, <1>2, <1>3, <1>4, <1>5, StepEffect

\* An acceptance takes a free pending invitation; while it holds it nobody
\* else moves it, and it lets go when it is done.
LEMMA AdmitStep == IInv /\ [Next]_vars => AdmitHoldsPending'
<1> SUFFICES ASSUME IInv, [Next]_vars PROVE AdmitHoldsPending'
  OBVIOUS
<1> USE DEF IInv
<1>1. ASSUME UNCHANGED job, UNCHANGED state PROVE AdmitHoldsPending'
  BY <1>1 DEF AdmitHoldsPending
<1>2. ASSUME NEW q \in Requests, NEW j \in Jobs, j.op # "admit",
             job' = [job EXCEPT ![q] = j], UNCHANGED state
      PROVE  AdmitHoldsPending'
  BY <1>2 DEF AdmitHoldsPending, TypeOK
<1>3. ASSUME NEW q \in Requests, LockInvitation(q) PROVE AdmitHoldsPending'
  <2>1. job[q].inv \in Invitations
    BY <1>3, JobShape DEF LockInvitation
  <2>2. \A p \in Requests : job[p] # [op |-> "admit", inv |-> job[q].inv]
    BY <1>3 DEF LockInvitation, InvitationFree
  <2>3. QED BY <1>3, <2>1, <2>2 DEF LockInvitation, AdmitHoldsPending, TypeOK
<1>4. ASSUME NEW q \in Requests, Admit(q) PROVE AdmitHoldsPending'
  <2>1. job[q].inv \in Invitations /\ job[q] = [op |-> "admit", inv |-> job[q].inv]
    BY <1>4, JobShape DEF Admit
  <2>2. \A p \in Requests : p # q /\ job[p].op = "admit" => job[p].inv # job[q].inv
    <3> SUFFICES ASSUME NEW p \in Requests, p # q, job[p].op = "admit", job[p].inv = job[q].inv
                 PROVE  FALSE
      OBVIOUS
    <3>1. job[p] = [op |-> "admit", inv |-> job[p].inv]
      BY JobShape
    <3>2. QED BY <1>4, <2>1, <3>1 DEF AdmitHoldsPending, Admit
  <2>3. ASSUME NEW p \in Requests, job'[p].op = "admit"
        PROVE  /\ state'[job'[p].inv] = "pending"
               /\ \A r \in Requests : job'[r] = job'[p] => r = p
    <3>1. p # q /\ job'[p] = job[p]
      BY <1>4, <2>3 DEF Admit, Finish, Idle, TypeOK
    <3>2. job[p].inv \in Invitations /\ job[p].inv # job[q].inv
      BY <2>2, <2>3, <3>1, JobShape
    <3>3. state'[job[p].inv] = state[job[p].inv]
      BY <1>4, <2>1, <3>2 DEF Admit, TypeOK
    <3>4. state[job[p].inv] = "pending"
      BY <2>3, <3>1 DEF AdmitHoldsPending
    <3>5. ASSUME NEW r \in Requests, job'[r] = job'[p] PROVE r = p
      <4>1. job'[r] = job[r] /\ r # q
        BY <1>4, <2>3, <3>5 DEF Admit, Finish, Idle, TypeOK
      <4>2. QED BY <2>3, <3>1, <3>5, <4>1 DEF AdmitHoldsPending
    <3>6. QED BY <3>1, <3>3, <3>4, <3>5
  <2>4. QED BY <2>3 DEF AdmitHoldsPending
<1>5. ASSUME NEW i \in Invitations, NEW s, SetState(i, s) PROVE AdmitHoldsPending'
  <2>1. ASSUME NEW p \in Requests, job[p].op = "admit" PROVE job[p].inv # i
    BY <1>5, <2>1, JobShape DEF SetState, InvitationFree
  <2>2. QED BY <1>5, <2>1, JobShape DEF SetState, AdmitHoldsPending, TypeOK
<1>6. ASSUME NEW i \in Invitations, NEW u \in Users, Invite(u, i) PROVE AdmitHoldsPending'
  BY <1>6, JobShape DEF Invite, AdmitHoldsPending, TypeOK
<1>7. ASSUME NEW q \in Requests, GiveUp(q) \/ Update(q) \/ Remove(q) \/ Transfer(q) \/ PlatformTransfer(q)
      PROVE  AdmitHoldsPending'
  BY <1>2, <1>7, IdleJob DEF GiveUp, Update, Remove, Transfer, PlatformTransfer, PassOwnership, Finish, Idle
<1>8. ASSUME NEW q \in Requests, StartUpdate(q) PROVE AdmitHoldsPending'
  <2>1. [op |-> "updating", row |-> job[q].row, was |-> job[q].was] \in Jobs
    BY <1>8, JobShape DEF StartUpdate, Jobs
  <2>2. QED BY <1>2, <1>8, <2>1 DEF StartUpdate
<1>9. ASSUME NEW q \in Requests, NEW i \in Invitations, BeginAccept(q, i) PROVE AdmitHoldsPending'
  <2>1. [op |-> "accept", inv |-> i] \in Jobs
    BY DEF Jobs
  <2>2. QED BY <1>2, <1>9, <2>1 DEF BeginAccept, Start
<1>10. ASSUME NEW q \in Requests, NEW u \in Users, NEW r \in Rows,
              BeginRemove(q, u, r) \/ BeginUpdate(q, u, r)
       PROVE  AdmitHoldsPending'
  <2>1. CASE BeginRemove(q, u, r)
    <3>1. [op |-> "remove", row |-> r, was |-> role[r]] \in Jobs
      BY <2>1 DEF BeginRemove, Jobs
    <3>2. QED BY <1>2, <2>1, <3>1 DEF BeginRemove, Start
  <2>2. CASE BeginUpdate(q, u, r)
    <3>1. [op |-> "update", who |-> u, row |-> r, was |-> role[r]] \in Jobs
      BY <2>2 DEF BeginUpdate, Jobs
    <3>2. QED BY <1>2, <2>2, <3>1 DEF BeginUpdate, Start
  <2>3. QED BY <1>10, <2>1, <2>2
<1>11. ASSUME NEW q \in Requests, NEW u \in Users, NEW v \in Users,
              BeginTransfer(q, u, v) \/ BeginPlatformTransfer(q, v)
       PROVE  AdmitHoldsPending'
  <2>1. [op |-> "transfer", who |-> u, to |-> v] \in Jobs /\ [op |-> "platform", to |-> v] \in Jobs
    BY DEF Jobs
  <2>2. CASE BeginTransfer(q, u, v)
    BY <1>2, <2>1, <2>2 DEF BeginTransfer, Start
  <2>3. CASE BeginPlatformTransfer(q, v)
    BY <1>2, <2>1, <2>3 DEF BeginPlatformTransfer, Start
  <2>4. QED BY <1>11, <2>2, <2>3
<1>12. ASSUME NEW i \in Invitations,
              Decline(i) \/ Expire(i) \/ Block(i) \/ \E u \in Users : Revoke(u, i)
       PROVE  AdmitHoldsPending'
  BY <1>5, <1>12 DEF Decline, Expire, Block, Revoke
<1>13. ASSUME \/ UNCHANGED vars
              \/ \E i \in Invitations : Lapse(i)
              \/ \E b \in BOOLEAN : SetSuspended(b)
       PROVE  AdmitHoldsPending'
  BY <1>1, <1>13 DEF vars, Lapse, SetSuspended
<1>14. QED
  BY <1>3, <1>4, <1>6, <1>7, <1>8, <1>9, <1>10, <1>11, <1>12, <1>13 DEF Next

\* A transfer begins in an Organization that is not suspended, and a
\* suspension waits for the row it holds.
LEMMA TransferStep == IInv /\ [Next]_vars => TransferUnsuspended'
<1> SUFFICES ASSUME IInv, [Next]_vars, NEW p \in Requests, job'[p].op = "transfer"
             PROVE  ~suspended'
  BY DEF TransferUnsuspended
<1> USE DEF IInv
<1>1. ASSUME NEW b \in BOOLEAN, SetSuspended(b) PROVE ~suspended'
  BY <1>1 DEF SetSuspended, OrganizationFree
<1>2. ASSUME NEW u \in Users, NEW v \in Users, NEW q \in Requests, BeginTransfer(q, u, v)
      PROVE  ~suspended'
  BY <1>2 DEF BeginTransfer, IsOwner
<1>3. ASSUME UNCHANGED suspended, job[p].op = "transfer" PROVE ~suspended'
  BY <1>3 DEF TransferUnsuspended
<1>4. ASSUME NEW q \in Requests, NEW j, j.op # "transfer", job' = [job EXCEPT ![q] = j]
      PROVE  job[p].op = "transfer"
  BY <1>4 DEF TypeOK
<1>5. ASSUME NEW q \in Requests,
             \/ GiveUp(q) \/ LockInvitation(q) \/ Admit(q)
             \/ StartUpdate(q) \/ Update(q) \/ Remove(q)
             \/ Transfer(q) \/ PlatformTransfer(q)
             \/ \E i \in Invitations : BeginAccept(q, i)
             \/ \E u \in Users, r \in Rows : BeginRemove(q, u, r) \/ BeginUpdate(q, u, r)
             \/ \E v \in Users : BeginPlatformTransfer(q, v)
      PROVE  ~suspended'
  <2>1. UNCHANGED suspended
    BY <1>5 DEF GiveUp, LockInvitation, Admit, StartUpdate, Update, Remove, Transfer,
                PlatformTransfer, PassOwnership, BeginAccept, BeginRemove, BeginUpdate,
                BeginPlatformTransfer
  <2>2. job[p].op = "transfer"
    BY <1>4, <1>5 DEF GiveUp, LockInvitation, Admit, StartUpdate, Update, Remove, Transfer,
                PlatformTransfer, PassOwnership, BeginAccept, BeginRemove, BeginUpdate,
                BeginPlatformTransfer, Start, Finish, Idle
  <2>3. QED BY <1>3, <2>1, <2>2
<1>6. ASSUME \/ UNCHANGED vars
             \/ \E i \in Invitations :
                    \/ Lapse(i) \/ Decline(i) \/ Expire(i) \/ Block(i)
                    \/ \E u \in Users : Revoke(u, i) \/ Invite(u, i)
      PROVE  ~suspended'
  BY <1>3, <1>6 DEF vars, Lapse, Decline, Expire, Block, Revoke, Invite, SetState
<1>7. QED BY <1>1, <1>2, <1>5, <1>6 DEF Next

\* The invariant is inductive.
LEMMA NextIInv == IInv /\ [Next]_vars => IInv'
  BY NextType, OneOwnerStep, OneRowStep, InvitedStep, AdmitStep, TransferStep DEF IInv

-----------------------------------------------------------------------------
(* What membership promises *)

\* A user's access is the role of the user's row.
LEMMA AccessOfRow ==
    ASSUME NEW f \in [Rows -> Roles], OneRow(f), NEW r \in Rows, f[r] # NoRole
    PROVE  Access(f)[UserOf[r]] = f[r]
<1> DEFINE mine(s) == UserOf[s] = UserOf[r] /\ f[s] # NoRole
<1>1. UserOf[r] \in Users
  BY MembershipAssumption
<1>2. \E s \in Rows : mine(s)
  OBVIOUS
<1>3. mine(CHOOSE s \in Rows : mine(s)) /\ (CHOOSE s \in Rows : mine(s)) \in Rows
  BY <1>2
<1>4. (CHOOSE s \in Rows : mine(s)) = r
  BY <1>3 DEF OneRow
<1>5. Access(f)[UserOf[r]] = f[CHOOSE s \in Rows : mine(s)]
  BY <1>1, <1>2 DEF Access
<1>6. QED BY <1>4, <1>5

\* Without a row a user has none.
LEMMA AccessOfNobody ==
    ASSUME NEW f \in [Rows -> Roles], NEW u \in Users,
           \A r \in Rows : UserOf[r] = u => f[r] = NoRole
    PROVE  Access(f)[u] = NoRole
<1>1. ~\E r \in Rows : UserOf[r] = u /\ f[r] # NoRole
  OBVIOUS
<1>2. QED BY <1>1 DEF Access

\* Access is a function on the users.
LEMMA AccessDomain ==
    ASSUME NEW f
    PROVE  Access(f) = [u \in Users |-> Access(f)[u]]
  BY DEF Access

\* A new role of the row that is, or becomes, its user's only one is that
\* user's new role and nobody else's.
LEMMA Regrade ==
    ASSUME NEW f \in [Rows -> Roles], OneRow(f), NEW r \in Rows, NEW x \in Roles,
           \A s \in Rows : UserOf[s] = UserOf[r] /\ f[s] # NoRole => s = r
    PROVE  /\ [f EXCEPT ![r] = x] \in [Rows -> Roles]
           /\ OneRow([f EXCEPT ![r] = x])
           /\ Access([f EXCEPT ![r] = x]) = [Access(f) EXCEPT ![UserOf[r]] = x]
<1> DEFINE g == [f EXCEPT ![r] = x]
<1>1. g \in [Rows -> Roles] /\ g[r] = x /\ \A s \in Rows : s # r => g[s] = f[s]
  OBVIOUS
<1> HIDE DEF g
<1>2. OneRow(g)
  BY <1>1 DEF OneRow
<1>3. UserOf[r] \in Users
  BY MembershipAssumption
<1>4. Access(g)[UserOf[r]] = x
  <2>1. CASE x = NoRole
    BY <1>1, <1>3, <2>1, AccessOfNobody
  <2>2. CASE x # NoRole
    BY <1>1, <1>2, <2>2, AccessOfRow
  <2>3. QED BY <2>1, <2>2
<1>5. ASSUME NEW u \in Users, u # UserOf[r] PROVE Access(g)[u] = Access(f)[u]
  <2>1. \A s \in Rows : UserOf[s] = u => g[s] = f[s]
    BY <1>1, <1>5
  <2>2. CASE \A s \in Rows : UserOf[s] = u => f[s] = NoRole
    BY <1>1, <2>1, <2>2, AccessOfNobody
  <2>3. ASSUME NEW s \in Rows, UserOf[s] = u, f[s] # NoRole PROVE Access(g)[u] = Access(f)[u]
    <3>1. Access(f)[u] = f[s]
      BY <2>3, AccessOfRow
    <3>2. Access(g)[u] = g[s]
      BY <1>1, <1>2, <2>1, <2>3, AccessOfRow
    <3>3. QED BY <2>1, <2>3, <3>1, <3>2
  <2>4. QED BY <2>2, <2>3
<1>6. Access(g) = [Access(f) EXCEPT ![UserOf[r]] = x]
  BY <1>3, <1>4, <1>5, AccessDomain
<1>7. QED BY <1>1, <1>2, <1>6 DEF g

\* What each status of an invitation means for the offer.
LEMMA FateOf ==
    /\ Fate("new") = "unsent" /\ Fate("pending") = "open" /\ Fate("accepted") = "used"
    /\ \A s \in Ended : Fate(s) = "closed"
  BY DEF Fate, Ended

\* What became of an offer follows the invitation that is set.
LEMMA FateSet ==
    ASSUME TypeOK, NEW i \in Invitations, NEW s \in States, state' = [state EXCEPT ![i] = s]
    PROVE  [j \in Invitations |-> Fate(state'[j])]
             = [[j \in Invitations |-> Fate(state[j])] EXCEPT ![i] = Fate(s)]
<1>1. \A j \in Invitations : state'[j] = IF j = i THEN s ELSE state[j]
  BY DEF TypeOK
<1>2. \A j \in Invitations : Fate(state'[j]) = IF j = i THEN Fate(s) ELSE Fate(state[j])
  BY <1>1
<1>3. QED BY <1>2

\* The founding rows make a founding access.
LEMMA InitPromise == Init => Promise!Init
<1> SUFFICES ASSUME Init PROVE Promise!Init
  OBVIOUS
<1>1. TypeOK /\ OneOwner /\ OneRow(role)
  BY InitIInv DEF IInv, OneRowPerUser
<1>2. role \in [Rows -> Roles]
  BY <1>1 DEF TypeOK
<1>3. ASSUME NEW u \in Users
      PROVE  \/ Access(role)[u] = NoRole /\ \A r \in Rows : UserOf[r] = u => role[r] = NoRole
             \/ \E r \in Rows : UserOf[r] = u /\ role[r] # NoRole /\ Access(role)[u] = role[r]
  <2>1. CASE \A r \in Rows : UserOf[r] = u => role[r] = NoRole
    BY <1>2, <2>1, AccessOfNobody
  <2>2. ASSUME NEW r \in Rows, UserOf[r] = u, role[r] # NoRole PROVE Access(role)[u] = role[r]
    BY <1>1, <1>2, <2>2, AccessOfRow
  <2>3. QED BY <2>1, <2>2
<1>4. Access(role) \in [Users -> Editable \cup {"owner", "none"}]
  <2>1. \A u \in Users : Access(role)[u] \in Editable \cup {"owner", "none"}
    BY <1>2, <1>3 DEF Roles, NoRole
  <2>2. QED BY <2>1, AccessDomain
<1>5. PICK o \in Rows : \A r \in Rows : role[r] = "owner" <=> r = o
  BY <1>1 DEF OneOwner
<1>6. UserOf[o] \in Users /\ Access(role)[UserOf[o]] = "owner"
  BY <1>1, <1>2, <1>5, AccessOfRow, MembershipAssumption DEF NoRole
<1>7. \A v \in Users : Access(role)[v] = "owner" <=> v = UserOf[o]
  BY <1>3, <1>5, <1>6 DEF NoRole
<1>8. [i \in Invitations |-> Fate(state[i])] = [i \in Invitations |-> "unsent"]
  BY FateOf DEF Init
<1>9. QED BY <1>4, <1>6, <1>7, <1>8 DEF Promise!Init, Promise!Lesser, Editable

\* Every step is one of what is promised, or changes nobody's access and no
\* offer.
LEMMA StepPromise ==
    IInv /\ [Next]_vars =>
        Promise!Next \/ UNCHANGED <<Access(role), [i \in Invitations |-> Fate(state[i])]>>
<1> SUFFICES ASSUME IInv, [Next]_vars
             PROVE  Promise!Next \/ UNCHANGED <<Access(role), [i \in Invitations |-> Fate(state[i])]>>
  OBVIOUS
<1> USE DEF IInv
<1> DEFINE access == Access(role)
           offer == [i \in Invitations |-> Fate(state[i])]
<1>0. role \in [Rows -> Roles] /\ OneRow(role)
  BY DEF TypeOK, OneRowPerUser
<1>1. CASE UNCHANGED <<role, state>>
  BY <1>1
<1>2. ASSUME NEW q \in Requests, NEW i \in Invitations, Enters(q, i) PROVE Promise!Join(i)
  <2>1. i \in Rows /\ Offer[i] \in Roles /\ UserOf[i] \in Users
    BY MembershipAssumption DEF Rows, Roles
  <2>2. state[i] = "pending" /\ offer[i] = "open"
    BY <1>2, FateOf DEF Enters, AdmitHoldsPending
  <2>3. access[UserOf[i]] = "none"
    BY <1>0, <1>2, <2>1, AccessOfNobody DEF Enters, NoRole
  <2>4. access' = [access EXCEPT ![UserOf[i]] = Offer[i]]
    <3>1. \A s \in Rows : UserOf[s] = UserOf[i] /\ role[s] # NoRole => s = i
      BY <1>2 DEF Enters
    <3>2. role' = [role EXCEPT ![i] = Offer[i]]
      BY <1>2 DEF Enters
    <3>3. \A x \in Roles : Access([role EXCEPT ![i] = x]) = [access EXCEPT ![UserOf[i]] = x]
      BY <1>0, <2>1, <3>1, Regrade
    <3>4. QED BY <2>1, <3>2, <3>3
  <2>5. offer' = [offer EXCEPT ![i] = "used"]
    <3>1. state' = [state EXCEPT ![i] = "accepted"] /\ "accepted" \in States
      BY <1>2 DEF Enters, States
    <3>2. QED BY <3>1, FateOf, FateSet
  <2>6. QED BY <2>2, <2>3, <2>4, <2>5 DEF Promise!Join
<1>3. ASSUME NEW r \in Rows, NEW x \in Editable \cup {NoRole}, Changes(r, x)
      PROVE  Promise!Change(UserOf[r])
  <2>1. x \in Roles /\ role[r] # NoRole
    BY <1>3 DEF Changes, Roles, Editable, NoRole
  <2>2. access[UserOf[r]] \in Editable
    BY <1>0, <1>3, <2>1, AccessOfRow DEF Changes
  <2>3. access' = [access EXCEPT ![UserOf[r]] = x]
    <3>1. \A s \in Rows : UserOf[s] = UserOf[r] /\ role[s] # NoRole => s = r
      BY <1>0, <2>1 DEF OneRow
    <3>2. QED BY <1>0, <1>3, <2>1, <3>1, Regrade DEF Changes
  <2>4. offer' = offer
    BY <1>3 DEF Changes
  <2>5. QED BY <2>2, <2>3, <2>4 DEF Promise!Change, Promise!Lesser, Editable, NoRole
<1>4. ASSUME NEW o \in Rows, NEW t \in Rows, Passes(o, t)
      PROVE  Promise!Pass(UserOf[o], UserOf[t])
  <2> DEFINE f == [role EXCEPT ![o] = "admin"]
  <2>1. o # t /\ role[o] # NoRole /\ role[t] # NoRole
    BY <1>4 DEF Passes, Editable, NoRole
  <2>2. /\ \A s \in Rows : UserOf[s] = UserOf[o] /\ role[s] # NoRole => s = o
        /\ \A s \in Rows : UserOf[s] = UserOf[t] /\ role[s] # NoRole => s = t
    BY <1>0, <2>1 DEF OneRow
  <2>3. f \in [Rows -> Roles] /\ OneRow(f) /\ Access(f) = [access EXCEPT ![UserOf[o]] = "admin"]
    BY <1>0, <2>2, Regrade DEF Roles, Editable
  <2>4. \A s \in Rows : UserOf[s] = UserOf[t] /\ f[s] # NoRole => s = t
    BY <1>0, <2>1, <2>2
  <2>5. role' = [f EXCEPT ![t] = "owner"]
    BY <1>4 DEF Passes
  <2> HIDE DEF f
  <2>6. access' = [Access(f) EXCEPT ![UserOf[t]] = "owner"]
    BY <2>3, <2>4, <2>5, Regrade DEF Roles
  <2>7. access[UserOf[o]] = "owner" /\ access[UserOf[t]] \in Editable
    BY <1>0, <1>4, <2>1, AccessOfRow DEF Passes
  <2>8. offer' = offer
    BY <1>4 DEF Passes
  <2>9. QED BY <2>3, <2>6, <2>7, <2>8 DEF Promise!Pass, Promise!Lesser, Editable
<1>5. ASSUME NEW i \in Invitations, NEW s \in States, Moves(i, s)
      PROVE  \/ Promise!Send(i) \/ Promise!Close(i)
             \/ UNCHANGED <<access, offer>>
  <2>1. access' = access
    BY <1>5 DEF Moves
  <2>2. offer' = [offer EXCEPT ![i] = Fate(s)]
    BY <1>5, FateSet DEF Moves
  <2>3. CASE s = "pending"
    <3>1. offer[i] = "unsent" /\ Fate(s) = "open"
      BY <1>5, <2>3, FateOf DEF Moves
    <3>2. QED BY <2>1, <2>2, <3>1 DEF Promise!Send
  <2>4. CASE s \in Ended
    <3>1. Fate(s) = "closed"
      BY <2>4, FateOf
    <3>2. CASE state[i] = "pending"
      <4>1. offer[i] = "open"
        BY <3>2, FateOf
      <4>2. QED BY <2>1, <2>2, <3>1, <4>1 DEF Promise!Close
    <3>3. CASE state[i] \in Ended
      <4>1. offer[i] = "closed"
        BY <3>3, FateOf
      <4>2. offer' = offer
        BY <2>2, <3>1, <4>1
      <4>3. QED BY <2>1, <4>2
    <3>4. state[i] # "new"
      BY <1>5, <2>4 DEF Moves, Ended
    <3>5. QED BY <1>5, <3>2, <3>3, <3>4 DEF Moves, TypeOK, States
  <2>5. QED BY <1>5, <2>3, <2>4 DEF Moves
<1>6. QED
  <2>1. \A r \in Rows : UserOf[r] \in Users
    BY MembershipAssumption
  <2>2. QED BY <1>1, <1>2, <1>3, <1>4, <1>5, <2>1, StepEffect DEF Promise!Next

-----------------------------------------------------------------------------
(* The theorems *)

\* The inductive invariant holds throughout.
THEOREM Invariant == Spec => []IInv
  BY InitIInv, NextIInv, PTL DEF Spec

\* Every variable keeps its type.
THEOREM TypeCorrect == Spec => []TypeOK
<1>1. IInv => TypeOK
  BY DEF IInv
<1>2. QED BY Invariant, <1>1, PTL

\* There is always exactly one owner.
THEOREM SingleOwner == Spec => []OneOwner
<1>1. IInv => OneOwner
  BY DEF IInv
<1>2. QED BY Invariant, <1>1, PTL

\* Whoever came by an invitation finds it accepted.
THEOREM Invited == Spec => []MembersWereInvited
<1>1. IInv => MembersWereInvited
  BY DEF IInv
<1>2. QED BY Invariant, <1>1, PTL

\* Membership keeps what it promises to users.
THEOREM Implements == Spec => ImplementsAccess
<1>1. IInv /\ [Next]_vars =>
        [Promise!Next]_<<Access(role), [i \in Invitations |-> Fate(state[i])]>>
  BY StepPromise
<1>2. QED BY Invariant, InitPromise, <1>1, PTL DEF Spec, ImplementsAccess, Promise!Spec

\* The owner's row is only ever left by passing ownership on.
THEOREM Passing == Spec => OwnershipPasses
<1>1. ASSUME IInv, [Next]_vars, NEW o \in Rows, role[o] = "owner", role'[o] # "owner"
      PROVE  role'[o] = "admin" /\ \E t \in Rows : role[t] \in Editable /\ role'[t] = "owner"
  <2> USE DEF IInv
  <2>1. ASSUME NEW q \in Requests, NEW i \in Invitations, Enters(q, i) PROVE FALSE
    BY <1>1, <2>1 DEF Enters, TypeOK, NoRole, Rows
  <2>2. ASSUME NEW r \in Rows, NEW x \in Editable \cup {NoRole}, Changes(r, x) PROVE FALSE
    BY <1>1, <2>2 DEF Changes, TypeOK, Editable
  <2>3. ASSUME NEW i \in Invitations, NEW s \in States, Moves(i, s) PROVE FALSE
    BY <1>1, <2>3 DEF Moves
  <2>4. PICK w, t \in Rows : Passes(w, t)
    BY <1>1, <2>1, <2>2, <2>3, StepEffect
  <2>5. QED BY <1>1, <2>4 DEF Passes, TypeOK, Editable
<1>2. IInv /\ [Next]_vars =>
        [\A o \in Rows : role[o] = "owner" /\ role'[o] # "owner" =>
            /\ role'[o] = "admin"
            /\ \E t \in Rows : role[t] \in Editable /\ role'[t] = "owner"]_vars
  BY <1>1
<1>3. QED BY Invariant, <1>2, PTL DEF Spec, OwnershipPasses

\* An ended invitation stays ended and admits nobody.
THEOREM EndedIsFinal == Spec => EndedInvitationStaysEnded
<1>1. ASSUME IInv, [Next]_vars, NEW i \in Invitations, state[i] \in Ended
      PROVE  state'[i] \in Ended /\ role'[i] = role[i]
  <2> USE DEF IInv
  <2>1. role[i] = NoRole /\ i \in Rows
    BY <1>1 DEF MembersWereInvited, Ended, Rows
  <2>2. CASE UNCHANGED <<role, state>>
    BY <1>1, <2>2
  <2>3. ASSUME NEW q \in Requests, NEW j \in Invitations, Enters(q, j)
        PROVE  state'[i] \in Ended /\ role'[i] = role[i]
    <3>1. state[j] = "pending"
      BY <1>1, <2>3 DEF Enters, AdmitHoldsPending
    <3>2. j # i
      BY <1>1, <3>1 DEF Ended
    <3>3. QED BY <1>1, <2>1, <2>3, <3>2 DEF Enters, TypeOK
  <2>4. ASSUME NEW r \in Rows, NEW x \in Editable \cup {NoRole}, Changes(r, x)
        PROVE  state'[i] \in Ended /\ role'[i] = role[i]
    BY <1>1, <2>1, <2>4 DEF Changes, TypeOK, Editable, NoRole
  <2>5. ASSUME NEW o \in Rows, NEW t \in Rows, Passes(o, t)
        PROVE  state'[i] \in Ended /\ role'[i] = role[i]
    BY <1>1, <2>1, <2>5 DEF Passes, TypeOK, Editable, NoRole
  <2>6. ASSUME NEW j \in Invitations, NEW s \in States, Moves(j, s)
        PROVE  state'[i] \in Ended /\ role'[i] = role[i]
    BY <1>1, <2>6 DEF Moves, TypeOK, Ended
  <2>7. QED BY <1>1, <2>2, <2>3, <2>4, <2>5, <2>6, StepEffect
<1>2. IInv /\ [Next]_vars =>
        [\A i \in Invitations : state[i] \in Ended =>
            state'[i] \in Ended /\ role'[i] = role[i]]_vars
  BY <1>1
<1>3. QED BY Invariant, <1>2, PTL DEF Spec, EndedInvitationStaysEnded

\* The owner's transfer never lands in a suspended Organization.
THEOREM UnsuspendedTransfer == Spec => NoTransferWhileSuspended
<1>1. IInv /\ [Next]_vars =>
        [\A q \in Requests : job[q].op = "transfer" /\ role' # role /\ job'[q] = Idle
            => ~suspended]_vars
  BY DEF IInv, TransferUnsuspended
<1>2. QED BY Invariant, <1>1, PTL DEF Spec, NoTransferWhileSuspended

=============================================================================
