--------------------------- MODULE PasswordChange ---------------------------
(***************************************************************************)
(* One account's password changes.  A request proves itself, begins an     *)
(* attempt in the database, asks the Auth provider to write the password   *)
(* with the attempt's id as a marker, and then reconciles: a trigger in    *)
(* the provider's own transaction has confirmed the attempt by then, or    *)
(* the reconciliation fences it and a write that comes later rolls back.   *)
(* After a confirmed write the other sessions are signed out and the       *)
(* attempt is completed.  Any answer may be lost, any request may end      *)
(* early, and a later request of the same session resumes what it finds.   *)
(*                                                                         *)
(* There is one row per account and every function call holds the          *)
(* account's advisory lock, so a call is one step.  It asks for its        *)
(* session before it waits for that lock, so the session may have ended    *)
(* when the step is taken.  The proofs a request needs before it may       *)
(* begin, rate limits and MFA only refuse more.                            *)
(***************************************************************************)
EXTENDS Naturals

CONSTANTS
    Sessions,
    Requests,    \* slots for requests under way
    MaxAttempts  \* bound on the attempts ever begun

ASSUME PasswordAssumption == MaxAttempts \in Nat

Ids == 1..MaxAttempts
NoRow == [state |-> "none"]
Rows == [id : Ids, session : Sessions, flow : BOOLEAN,
         state : {"started", "pending", "complete", "failed"}, expired : BOOLEAN]
Idle == [op |-> "idle"]
Jobs ==
    {Idle}
      \cup [op : {"begin", "restart"}, session : Sessions, flow : BOOLEAN]
      \cup [op : {"reconcile", "revoke", "complete"}, session : Sessions, flow : BOOLEAN, id : Ids]

VARIABLES
    known,      \* sessions that were ever signed in
    live,       \* rows of auth.sessions
    flow,       \* sessions in a recovery or invite flow, which needs no proof
    row,        \* the account's attempt
    begun,      \* number of attempts begun so far
    calls,      \* attempts whose provider call has not run yet
    committed,  \* attempts whose password was written
    fenced,     \* attempts somebody was told have failed
    old,        \* the other sessions there were at the last write
    spent,      \* flows that wrote and whose attempt no other session retired
    job         \* the request in each slot

vars == <<known, live, flow, row, begun, calls, committed, fenced, old, spent, job>>
sessions == <<known, live, flow>>
provider == <<calls, committed, old>>

TypeOK ==
    /\ known \subseteq Sessions /\ live \subseteq known /\ flow \subseteq known
    /\ row \in Rows \cup {NoRow}
    /\ begun \in Nat
    /\ calls \subseteq Ids /\ committed \subseteq Ids /\ fenced \subseteq Ids
    /\ old \subseteq known /\ spent \subseteq flow
    /\ job \in [Requests -> Jobs]

Init ==
    /\ known = {} /\ live = {} /\ flow = {}
    /\ row = NoRow /\ begun = 0
    /\ calls = {} /\ committed = {} /\ fenced = {}
    /\ old = {} /\ spent = {}
    /\ job = [q \in Requests |-> Idle]

Go(q, j) == job' = [job EXCEPT ![q] = j]
Finish(q) == Go(q, Idle)

\* Refused, failed, or the server went away.
GiveUp(q) ==
    /\ job[q] # Idle
    /\ Finish(q)
    /\ UNCHANGED <<sessions, row, begun, provider, fenced, spent>>

-----------------------------------------------------------------------------
(* Sessions and time *)

SignIn(s, b) ==
    /\ s \notin known
    /\ known' = known \cup {s} /\ live' = live \cup {s}
    /\ flow' = IF b THEN flow \cup {s} ELSE flow
    /\ UNCHANGED <<row, begun, provider, fenced, spent, job>>

SignOut(s) ==
    /\ s \in live
    /\ live' = live \ {s}
    /\ UNCHANGED <<known, flow, row, begun, provider, fenced, spent, job>>

\* The flow's cookie goes; requests under way carry the flow they came with.
FlowEnds(s) ==
    /\ s \in flow
    /\ flow' = flow \ {s} /\ spent' = spent \ {s}
    /\ UNCHANGED <<known, live, row, begun, provider, fenced, job>>

Expire ==
    /\ row # NoRow /\ ~row.expired
    /\ row' = [row EXCEPT !.expired = TRUE]
    /\ UNCHANGED <<sessions, begun, provider, fenced, spent, job>>

-----------------------------------------------------------------------------
(* The attempt's function *)

Mine(s) == row # NoRow /\ row.session = s

\* Faulty variant: an attempt counts as stale before it has completed.
StaleFaulty(s, f) == row # NoRow /\ (row.session # s \/ (row.expired /\ ~f))

\* A completed attempt nobody is kept from replacing.
Stale(s, f) ==
    /\ row # NoRow /\ row.state = "complete"
    /\ row.session # s \/ (row.expired /\ ~f)

\* What read answers with the row, and not with expired.
Answers(s, f) ==
    /\ Mine(s) /\ ~row.expired
    /\ row.flow = f \/ (row.state = "complete" /\ ~f)

\* Faulty variant: a flow may restart what it has completed.
MayRestartFaulty(s, f) ==
    \/ Mine(s) /\ row.state \in {"failed", "complete"}
    \/ row # NoRow /\ ~Mine(s) /\ row.expired

\* A flow skips the proof of the current password, so it may not write twice.
MayRestart(s, f) ==
    \/ Mine(s) /\ (row.state = "failed" \/ (row.state = "complete" /\ ~f))
    \/ row # NoRow /\ ~Mine(s) /\ row.expired

\* the sessions whose flow stays spent when session s retires the row
StillSpent(s) == IF row = NoRow \/ Mine(s) THEN spent ELSE spent \ {row.session}

-----------------------------------------------------------------------------
(* Requests *)

Stage(state) == IF state = "started" THEN "reconcile" ELSE "revoke"

\* The request that goes on with the attempt it found.
Resume(s, f) == [op |-> Stage(row.state), session |-> s, flow |-> f, id |-> row.id]

\* The request reads the attempt and decides.  What it finds in another state
\* is only reported.
Start(q, s) ==
    /\ job[q] = Idle /\ s \in live
    /\ LET f == s \in flow
       IN  \/ /\ row = NoRow \/ Stale(s, f)
              /\ Go(q, [op |-> "begin", session |-> s, flow |-> f])
           \/ Go(q, [op |-> "restart", session |-> s, flow |-> f])
           \/ /\ Answers(s, f) /\ row.state \in {"started", "pending"}
              /\ Go(q, Resume(s, f))
    /\ UNCHANGED <<sessions, row, begun, provider, fenced, spent>>

Restart(q) ==
    /\ job[q].op = "restart"
    /\ MayRestart(job[q].session, job[q].flow) \/ Stale(job[q].session, job[q].flow)
    /\ row' = NoRow
    /\ spent' = StillSpent(job[q].session)
    /\ Finish(q)
    /\ UNCHANGED <<sessions, begun, provider, fenced>>

\* Only the request that inserts the row calls the provider.
Begin(q) ==
    /\ job[q].op = "begin"
    /\ row = NoRow \/ Stale(job[q].session, job[q].flow)
    /\ begun < MaxAttempts
    /\ begun' = begun + 1
    /\ row' = [id |-> begun', session |-> job[q].session, flow |-> job[q].flow,
               state |-> "started", expired |-> FALSE]
    /\ spent' = StillSpent(job[q].session)
    /\ calls' = calls \cup {begun'}
    /\ Go(q, [op |-> "reconcile", session |-> job[q].session, flow |-> job[q].flow, id |-> begun'])
    /\ UNCHANGED <<sessions, committed, old, fenced>>

\* Faulty variant: the trigger does not ask for the attempt's state.
WitnessAllowsFaulty(i) == row # NoRow /\ row.id = i /\ row.session \in live

\* The trigger's update finds the attempt started, unexpired, its session alive.
WitnessAllows(i) ==
    /\ row # NoRow /\ row.id = i /\ row.state = "started"
    /\ ~row.expired /\ row.session \in live

\* At any time, or never; the request does not learn which.
ProviderRuns(i) ==
    /\ i \in calls
    /\ calls' = calls \ {i}
    /\ IF WitnessAllows(i)
       THEN /\ row' = [row EXCEPT !.state = "pending"]
            /\ committed' = committed \cup {i}
            /\ old' = live \ {row.session}
            /\ spent' = IF row.flow /\ row.session \in flow THEN spent \cup {row.session} ELSE spent
       ELSE UNCHANGED <<row, committed, old, spent>>
    /\ UNCHANGED <<sessions, begun, fenced, job>>

\* The row is the one the request knows.
Current(j) == Answers(j.session, j.flow) /\ row.id = j.id

Reconcile(q) ==
    /\ job[q].op = "reconcile"
    /\ Current(job[q])
    /\ \/ /\ row.state = "started"
          /\ row' = [row EXCEPT !.state = "failed"]
          /\ fenced' = fenced \cup {row.id}
          /\ Finish(q)
       \/ /\ row.state = "pending"
          /\ job' = [job EXCEPT ![q].op = "revoke"]
          /\ UNCHANGED <<row, fenced>>
    /\ UNCHANGED <<sessions, begun, provider, spent>>

\* Faulty variant: a sign-out that fails counts as done.
AcknowledgedFaulty(s) == s \in live /\ live' \in {live, {s}}

\* signOut with scope others was acknowledged.
Acknowledged(s) == s \in live /\ live' = {s}

\* The provider may also sign the others out and the answer be lost.
Revoke(q) ==
    /\ job[q].op = "revoke"
    /\ Acknowledged(job[q].session)
    /\ \/ job' = [job EXCEPT ![q].op = "complete"]
       \/ Finish(q)
    /\ UNCHANGED <<known, flow, row, begun, provider, fenced, spent>>

Complete(q) ==
    /\ job[q].op = "complete"
    /\ Current(job[q]) /\ row.state = "pending"
    /\ row' = [row EXCEPT !.state = "complete"]
    /\ Finish(q)
    /\ UNCHANGED <<sessions, begun, provider, fenced, spent>>

Next ==
    \/ \E s \in Sessions :
        \/ SignOut(s) \/ FlowEnds(s)
        \/ \E b \in BOOLEAN : SignIn(s, b)
    \/ Expire
    \/ \E i \in Ids : ProviderRuns(i)
    \/ \E q \in Requests :
        \/ GiveUp(q) \/ Restart(q) \/ Begin(q) \/ Reconcile(q) \/ Revoke(q) \/ Complete(q)
        \/ \E s \in Sessions : Start(q, s)

Spec == Init /\ [][Next]_vars

-----------------------------------------------------------------------------
(* Properties *)

\* Nobody who was told that a change failed has their password changed by it
\* after all, however late the provider writes.
NoLateWrite == fenced \cap committed = {}

\* A completed attempt has written its password and left no other session of
\* those there were at the write.
CompleteLeavesNoOther ==
    row.state = "complete" => row.id \in committed /\ old \cap live = {}

\* A written change whose other sessions may still be signed in is not
\* forgotten: it stays pending until it completes, unless it expires and
\* another session retires it.
UnrevokedStaysPending ==
    [][row.state = "pending" /\ row' # row =>
        \/ row' = [row EXCEPT !.state = "complete"]
        \/ row' = [row EXCEPT !.expired = TRUE]
        \/ row.expired /\ row' = NoRow
            /\ \E q \in Requests : job[q] # Idle /\ job[q].session # row.session /\ job'[q] = Idle]_vars

\* As long as its cookie lives, a recovery or invite flow writes the password
\* once, unless another session retires its attempt in between.
FlowWritesOnce ==
    [][\A s \in spent : committed' # committed => row.session # s]_vars

-----------------------------------------------------------------------------
(* Password change implements PasswordHold. *)

\* An attempt may write from its begin until it is fenced or retired.
HoldOf(i) ==
    IF i > begun THEN "free"
    ELSE IF row.state = "started" /\ row.id = i THEN "open"
    ELSE IF row.state = "pending" /\ row.id = i THEN "written"
    ELSE IF i \in committed THEN "spent" ELSE "closed"

Hold == INSTANCE PasswordHold WITH
    Rights <- Ids,
    Accounts <- {"account"},
    hold <- [i \in Ids |-> HoldOf(i)],
    account <- [i \in Ids |-> "account"]

\* Whatever sessions, requests, the provider and the time do, at most one
\* attempt at a time can write the password, each at most once, and one that
\* was fenced, retired or completed never again.
ImplementsHold == Hold!Spec
=============================================================================
