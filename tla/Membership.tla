----------------------------- MODULE Membership -----------------------------
(***************************************************************************)
(* Who belongs to one Organization and in which role.  A membership comes  *)
(* from founding the Organization or from an invitation; governors change  *)
(* roles and remove members, members leave, and ownership passes by a      *)
(* transfer of the owner or of a platform operator.                        *)
(*                                                                         *)
(* The server reads a membership and the caller's grant first and sends    *)
(* one conditional statement later; row level security judges the caller   *)
(* by the statement's snapshot, and a statement that waited for a row      *)
(* compares only the row's new columns.  Functions lock rows: a job whose  *)
(* op is "admit" holds its invitation's row, one whose op is "transfer" or *)
(* "platform" the Organization's row FOR UPDATE, which also keeps out the  *)
(* foreign key check of every insert.  Any request may end without effect  *)
(* (GiveUp): refused, failed or rolled back.                               *)
(***************************************************************************)
CONSTANTS
    Users,
    Founding,     \* membership rows that do not come from an invitation
    Invitations,  \* the membership an invitation admits has its name
    UserOf,       \* whose row, or whose address, each of them is
    Offer,        \* the role each invitation offers
    FirstRole,    \* the role of each founding row
    Requests      \* slots for requests under way

Rows == Founding \cup Invitations
Editable == {"member", "admin"}
NoRole == "none"
Roles == Editable \cup {"owner", NoRole}
Ended == {"declined", "revoked", "expired", "blocked"}
States == {"new", "pending", "accepted"} \cup Ended

ASSUME MembershipAssumption ==
    /\ Founding \cap Invitations = {}
    /\ UserOf \in [Rows -> Users]
    /\ Offer \in [Invitations -> Editable]
    /\ FirstRole \in [Founding -> Editable \cup {"owner"}]
    /\ \E r \in Founding : \A s \in Founding : FirstRole[s] = "owner" <=> s = r
    \* the table admits one row per user
    /\ \A r, s \in Founding : UserOf[r] = UserOf[s] => r = s

VARIABLES
    role,       \* role of each membership row, or none if there is no row
    state,      \* status of each invitation
    overdue,    \* invitations whose expires_at has passed
    suspended,  \* the Organization is suspended
    job         \* the request in each slot

vars == <<role, state, overdue, suspended, job>>

Idle == [op |-> "idle"]
Jobs ==
    {Idle}
      \cup [op : {"accept", "admit"}, inv : Invitations]
      \cup [op : {"update"}, who : Users, row : Rows, was : Editable]
      \cup [op : {"updating"}, row : Rows, was : Editable]
      \cup [op : {"remove"}, row : Rows, was : Editable]
      \cup [op : {"transfer"}, who : Users, to : Users]
      \cup [op : {"platform"}, to : Users]

TypeOK ==
    /\ role \in [Rows -> Roles]
    /\ state \in [Invitations -> States]
    /\ overdue \subseteq Invitations
    /\ suspended \in BOOLEAN
    /\ job \in [Requests -> Jobs]

Init ==
    /\ role = [r \in Rows |-> IF r \in Founding THEN FirstRole[r] ELSE NoRole]
    /\ state = [i \in Invitations |-> "new"]
    /\ overdue = {}
    /\ suspended = FALSE
    /\ job = [q \in Requests |-> Idle]

-----------------------------------------------------------------------------

\* Faulty variant: the invitation is read without FOR UPDATE.
InvitationFreeFaulty(i) == TRUE

InvitationFree(i) == \A q \in Requests : job[q] # [op |-> "admit", inv |-> i]
OrganizationFree == \A q \in Requests : job[q].op \notin {"transfer", "platform"}

\* user u has a row with one of these roles
Holds(u, roles) == \E r \in Rows : UserOf[r] = u /\ role[r] \in roles
\* What a suspended user asks is refused as well, which GiveUp stands for.
IsOwner(u) == Holds(u, {"owner"}) /\ ~suspended
CanManage(u) == Holds(u, {"owner", "admin"}) /\ ~suspended

\* governors decide about members, the owner about admins
MayDecide(u, x) == IF x = "admin" THEN IsOwner(u) ELSE CanManage(u)

\* what an update makes of a role
Other(x) == IF x = "admin" THEN "member" ELSE "admin"

Start(q, j) == job[q] = Idle /\ job' = [job EXCEPT ![q] = j]
Finish(q) == job' = [job EXCEPT ![q] = Idle]

GiveUp(q) ==
    /\ job[q] # Idle
    /\ Finish(q)
    /\ UNCHANGED <<role, state, overdue, suspended>>

-----------------------------------------------------------------------------
(* Invitations *)

\* The insert, after the overdue invitations of the address were expired;
\* one pending invitation per address.
Invite(u, i) ==
    /\ state[i] = "new"
    /\ MayDecide(u, Offer[i])
    /\ OrganizationFree
    /\ \A j \in Invitations : UserOf[j] = UserOf[i] => state[j] # "pending"
    /\ state' = [state EXCEPT ![i] = "pending"]
    /\ UNCHANGED <<role, overdue, suspended, job>>

\* In the other states nothing looks at the time any more.
Lapse(i) ==
    /\ state[i] \in {"pending", "revoked", "blocked"}
    /\ i \notin overdue
    /\ overdue' = overdue \cup {i}
    /\ UNCHANGED <<role, state, suspended, job>>

\* now() is the begin of the transaction, so an invitation that lapses while
\* the acceptance waits for its row is still accepted.  An acceptance that
\* finds the invitation ended at once is only refused.
BeginAccept(q, i) ==
    /\ state[i] = "pending"
    /\ i \notin overdue
    /\ Start(q, [op |-> "accept", inv |-> i])
    /\ UNCHANGED <<role, state, overdue, suspended>>

\* Whether the invitee must first finish an account setup only refuses more.
LockInvitation(q) ==
    /\ job[q].op = "accept"
    /\ InvitationFree(job[q].inv)
    /\ state[job[q].inv] = "pending"
    /\ ~suspended
    /\ job' = [job EXCEPT ![q] = [op |-> "admit", inv |-> job[q].inv]]
    /\ UNCHANGED <<role, state, overdue, suspended>>

\* One row per user: a member's acceptance changes nothing.
Admit(q) ==
    /\ job[q].op = "admit"
    /\ OrganizationFree
    /\ LET i == job[q].inv
       IN  IF Holds(UserOf[i], Roles \ {NoRole})
           THEN UNCHANGED <<role, state>>
           ELSE /\ role' = [role EXCEPT ![i] = Offer[i]]
                /\ state' = [state EXCEPT ![i] = "accepted"]
    /\ Finish(q)
    /\ UNCHANGED <<overdue, suspended>>

SetState(i, s) ==
    /\ InvitationFree(i)
    /\ state' = [state EXCEPT ![i] = s]
    /\ UNCHANGED <<role, overdue, suspended, job>>

Decline(i) == state[i] = "pending" /\ i \notin overdue /\ SetState(i, "declined")

\* Whoever meets a pending invitation whose time has passed.
Expire(i) == state[i] = "pending" /\ i \in overdue /\ SetState(i, "expired")

\* An invitation that ended otherwise is also marked expired by a late revoke.
Revoke(u, i) ==
    /\ CanManage(u)
    /\ \/ state[i] = "pending" /\ i \notin overdue /\ SetState(i, "revoked")
       \/ state[i] \in {"revoked", "blocked"} /\ i \in overdue /\ SetState(i, "expired")

\* Faulty variant: the invitation is blocked whatever became of it.
BlockFaulty(i) == state[i] # "new" /\ SetState(i, "blocked")

\* No access request or setup link could be had for it, or the request it is
\* linked to was rejected or rescinded.
Block(i) == state[i] = "pending" /\ SetState(i, "blocked")

-----------------------------------------------------------------------------
(* Roles and removal *)

\* The server reads the row and the caller's grant.  Updates that keep the
\* role are left out, so admin is involved in each and the owner decides.
BeginUpdate(q, u, r) ==
    /\ role[r] \in Editable
    /\ IsOwner(u)
    /\ Start(q, [op |-> "update", who |-> u, row |-> r, was |-> role[r]])
    /\ UNCHANGED <<role, state, overdue, suspended>>

\* The statement's snapshot decides about the caller.
StartUpdate(q) ==
    /\ job[q].op = "update"
    /\ role[job[q].row] = job[q].was
    /\ IsOwner(job[q].who)
    /\ job' = [job EXCEPT ![q] = [op |-> "updating", row |-> job[q].row, was |-> job[q].was]]
    /\ UNCHANGED <<role, state, overdue, suspended>>

\* Faulty variant: the row need only still exist.
StillAsSeenFaulty(r, was) == role[r] # NoRole

\* The statement compares the role it expects with the row it locks.
StillAsSeen(r, was) == role[r] = was

Update(q) ==
    /\ job[q].op = "updating"
    /\ StillAsSeen(job[q].row, job[q].was)
    /\ role' = [role EXCEPT ![job[q].row] = Other(job[q].was)]
    /\ Finish(q)
    /\ UNCHANGED <<state, overdue, suspended>>

\* Removal by a governor, or the member leaves.
BeginRemove(q, u, r) ==
    /\ role[r] \in Editable
    /\ UserOf[r] = u \/ CanManage(u)
    /\ Start(q, [op |-> "remove", row |-> r, was |-> role[r]])
    /\ UNCHANGED <<role, state, overdue, suspended>>

\* By service role: the caller's grant is not looked at again.
Remove(q) ==
    /\ job[q].op = "remove"
    /\ StillAsSeen(job[q].row, job[q].was)
    /\ role' = [role EXCEPT ![job[q].row] = NoRole]
    /\ Finish(q)
    /\ UNCHANGED <<state, overdue, suspended>>

-----------------------------------------------------------------------------
(* Ownership and suspension *)

BeginTransfer(q, u, v) ==
    /\ OrganizationFree
    /\ IsOwner(u) /\ u # v
    /\ Start(q, [op |-> "transfer", who |-> u, to |-> v])
    /\ UNCHANGED <<role, state, overdue, suspended>>

BeginPlatformTransfer(q, v) ==
    /\ OrganizationFree
    /\ Start(q, [op |-> "platform", to |-> v])
    /\ UNCHANGED <<role, state, overdue, suspended>>

\* The rows of the owner and of the target are locked, read and changed.
\* Nothing else can change them between, so this is one action.
PassOwnership(q, o, t) ==
    /\ role[o] = "owner" /\ \A s \in Rows : role[s] = "owner" => s = o
    /\ UserOf[t] = job[q].to
    /\ role[t] \in Editable
    /\ role' = [role EXCEPT ![o] = "admin", ![t] = "owner"]
    /\ Finish(q)
    /\ UNCHANGED <<state, overdue, suspended>>

Transfer(q) ==
    /\ job[q].op = "transfer"
    /\ \E o, t \in Rows : UserOf[o] = job[q].who /\ PassOwnership(q, o, t)

PlatformTransfer(q) ==
    /\ job[q].op = "platform"
    /\ \E o, t \in Rows : PassOwnership(q, o, t)

\* Faulty variant: the suspension does not lock the Organization's row.
SetSuspendedFaulty(b) ==
    /\ suspended # b
    /\ suspended' = b
    /\ UNCHANGED <<role, state, overdue, job>>

SetSuspended(b) ==
    /\ OrganizationFree
    /\ suspended # b
    /\ suspended' = b
    /\ UNCHANGED <<role, state, overdue, job>>

Next ==
    \/ \E i \in Invitations :
        \/ Lapse(i) \/ Decline(i) \/ Expire(i) \/ Block(i)
        \/ \E u \in Users : Revoke(u, i) \/ Invite(u, i)
    \/ \E b \in BOOLEAN : SetSuspended(b)
    \/ \E q \in Requests :
        \/ GiveUp(q)
        \/ \E i \in Invitations : BeginAccept(q, i)
        \/ LockInvitation(q) \/ Admit(q)
        \/ \E u \in Users, r \in Rows :
            BeginRemove(q, u, r) \/ BeginUpdate(q, u, r)
        \/ StartUpdate(q) \/ Update(q) \/ Remove(q)
        \/ \E u, v \in Users : BeginTransfer(q, u, v)
        \/ \E v \in Users : BeginPlatformTransfer(q, v)
        \/ Transfer(q) \/ PlatformTransfer(q)

Spec == Init /\ [][Next]_vars

-----------------------------------------------------------------------------
(* Properties *)

\* However removals, role changes and transfers that read the same row
\* overlap, the Organization has exactly one owner.
OneOwner == \E o \in Rows : \A r \in Rows : role[r] = "owner" <=> r = o

\* The owner's row changes only by passing ownership on: its user becomes an
\* admin in the same step in which another member becomes the owner.
OwnershipPasses ==
    [][\A o \in Rows : role[o] = "owner" /\ role'[o] # "owner" =>
        /\ role'[o] = "admin"
        /\ \E t \in Rows : role[t] \in Editable /\ role'[t] = "owner"]_vars

\* A member that came by an invitation finds it accepted for good, whatever
\* else was under way for that invitation: nothing blocks, revokes or expires
\* an invitation somebody has entered by.
MembersWereInvited ==
    \A i \in Invitations : role[i] # NoRole => state[i] = "accepted"

\* A user's role under the roles f of the rows.
Access(f) ==
    [u \in Users |->
        LET Mine(r) == UserOf[r] = u /\ f[r] # NoRole
        IN  IF \E r \in Rows : Mine(r) THEN f[CHOOSE r \in Rows : Mine(r)] ELSE NoRole]

Fate(s) ==
    CASE s = "new" -> "unsent" [] s = "pending" -> "open"
      [] s = "accepted" -> "used" [] s \in Ended -> "closed"

Promise == INSTANCE OrganizationAccess
    WITH Offers <- Invitations, OfferedTo <- UserOf, OfferedRole <- Offer,
         access <- Access(role), offer <- [i \in Invitations |-> Fate(state[i])]

\* Rows, locks and overlapping requests come to what membership promises: a
\* user enters only by an invitation open at that step and at its role, each
\* invitation admits once or ends for good, and ownership is only handed on.
ImplementsAccess == Promise!Spec

\* An invitation that was declined, revoked, blocked or found expired admits
\* nobody, also not by an acceptance that had begun before, and stays ended.
EndedInvitationStaysEnded ==
    [][\A i \in Invitations : state[i] \in Ended =>
        state'[i] \in Ended /\ role'[i] = role[i]]_vars

\* The owner's own transfer takes effect only while the Organization is not
\* suspended: a suspension waits for it or refuses it.
NoTransferWhileSuspended ==
    [][\A q \in Requests : job[q].op = "transfer" /\ role' # role /\ job'[q] = Idle
        => ~suspended]_vars

=============================================================================
