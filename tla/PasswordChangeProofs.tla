------------------------ MODULE PasswordChangeProofs ------------------------
(***************************************************************************)
(* PasswordChange's safety for any number of sessions, requests and        *)
(* attempts.  The argument follows the one row: an attempt that is started *)
(* has neither been written nor fenced, one that is pending or complete    *)
(* was written in its own session, and a request that asks to complete it  *)
(* has seen the other sessions signed out since.                           *)
(***************************************************************************)
EXTENDS PasswordChange, TLAPS

\* Attempts are numbered as they begin.
Numbered ==
    /\ row # NoRow => row.id <= begun
    /\ \A i \in committed \cup fenced : i <= begun

\* The attempt's state tells what became of its password.
StateTells ==
    /\ row.state = "started" => row.id \notin committed \cup fenced
    /\ row.state \in {"pending", "complete"} => row.id \in committed /\ row.session \notin old

\* Requests sign others out for a written attempt.
JobsWritten ==
    \A q \in Requests : job[q].op \in {"revoke", "complete"} => job[q].id \in committed

\* Who asks to complete the pending attempt has left no other session.
AloneToComplete ==
    \A q \in Requests :
        job[q].op = "complete" /\ row.state = "pending" /\ row.id = job[q].id
            /\ row.session = job[q].session => old \cap live = {}

\* A request comes from a session that was signed in, and carries its flow.
FlowCarried ==
    \A q \in Requests : job[q].op # "idle" =>
        /\ job[q].session \in known
        /\ job[q].flow \/ job[q].session \notin flow

\* The attempt of a spent flow is still the account's, and written.
SpentWrote ==
    \A s \in spent : row.state \in {"pending", "complete"} /\ row.session = s

IInv ==
    /\ TypeOK
    /\ NoLateWrite
    /\ CompleteLeavesNoOther
    /\ Numbered
    /\ StateTells
    /\ JobsWritten
    /\ AloneToComplete
    /\ FlowCarried
    /\ SpentWrote

-----------------------------------------------------------------------------
(* Types *)

\* A row with a state is an attempt.
LEMMA RowShape ==
    ASSUME TypeOK
    PROVE  /\ NoRow.state = "none"
           /\ row # NoRow => row \in Rows /\ row.state \in {"started", "pending", "complete", "failed"}
           /\ row.state # "none" => row \in Rows
  BY DEF TypeOK, NoRow, Rows

\* What a request remembers is named by its stage.
LEMMA JobShape ==
    ASSUME TypeOK, NEW q \in Requests
    PROVE  /\ job[q].op # "idle" => job[q].session \in Sessions /\ job[q].flow \in BOOLEAN
           /\ job[q].op \in {"reconcile", "revoke", "complete"} =>
                /\ job[q].id \in Ids
                /\ job[q] = [op |-> job[q].op, session |-> job[q].session,
                             flow |-> job[q].flow, id |-> job[q].id]
<1>1. job[q] \in Jobs
  BY DEF TypeOK
<1>2. QED BY <1>1 DEF Jobs, Idle

\* A slot that is given a well-formed request stays well formed.
LEMMA SlotType ==
    ASSUME TypeOK, NEW q \in Requests, NEW j \in Jobs, job' = [job EXCEPT ![q] = j]
    PROVE  job' \in [Requests -> Jobs]
  BY DEF TypeOK

\* The empty slot is a job.
LEMMA IdleJob == Idle \in Jobs /\ Idle.op = "idle"
  BY DEF Jobs, Idle

\* A request that begins a stage with an attempt is a job.
LEMMA StageJob ==
    ASSUME NEW o \in {"reconcile", "revoke", "complete"}, NEW s \in Sessions,
           NEW f \in BOOLEAN, NEW i \in Ids
    PROVE  [op |-> o, session |-> s, flow |-> f, id |-> i] \in Jobs
  BY DEF Jobs

\* A request that goes on to its next stage keeps what it remembers.
LEMMA NextStage ==
    ASSUME TypeOK, NEW q \in Requests, job[q].op \in {"reconcile", "revoke"},
           NEW o \in {"revoke", "complete"}, job' = [job EXCEPT ![q].op = o]
    PROVE  \E j \in Jobs :
             /\ job' = [job EXCEPT ![q] = j]
             /\ j.op = o /\ j.session = job[q].session /\ j.flow = job[q].flow /\ j.id = job[q].id
<1> DEFINE j == [op |-> o, session |-> job[q].session, flow |-> job[q].flow, id |-> job[q].id]
<1>1. j \in Jobs
  BY JobShape, StageJob
<1>2. [job[q] EXCEPT !.op = o] = j
  <2>1. job[q] = [op |-> job[q].op, session |-> job[q].session,
                  flow |-> job[q].flow, id |-> job[q].id]
    BY JobShape
  <2>2. QED BY <2>1
<1>3. job' = [job EXCEPT ![q] = j]
  BY <1>2
<1>4. QED BY <1>1, <1>3

\* What Start leaves in the slot.
LEMMA StartShape ==
    ASSUME TypeOK, NEW q \in Requests, NEW s \in Sessions, Start(q, s)
    PROVE  \E j \in Jobs :
             /\ job' = [job EXCEPT ![q] = j]
             /\ j.session = s /\ j.flow = (s \in flow) /\ j.op # "complete" /\ j.op # "idle"
             /\ j.op = "revoke" => j.id = row.id /\ row.state = "pending"
<1> DEFINE f == s \in flow
<1>1. f \in BOOLEAN
  OBVIOUS
<1>2. \A o \in {"begin", "restart"} : [op |-> o, session |-> s, flow |-> f] \in Jobs
  BY <1>1 DEF Jobs
<1>3. ASSUME row.state \in {"started", "pending"} PROVE Resume(s, f) \in Jobs
  <2>1. row.id \in Ids
    BY <1>3, RowShape DEF Rows
  <2>2. QED BY <1>1, <2>1, StageJob DEF Resume, Stage
<1>4. CASE job' = [job EXCEPT ![q] = [op |-> "begin", session |-> s, flow |-> f]]
  BY <1>2, <1>4
<1>5. CASE job' = [job EXCEPT ![q] = [op |-> "restart", session |-> s, flow |-> f]]
  BY <1>2, <1>5
<1>6. CASE row.state \in {"started", "pending"} /\ job' = [job EXCEPT ![q] = Resume(s, f)]
  BY <1>3, <1>6 DEF Resume, Stage
<1>7. QED BY <1>4, <1>5, <1>6 DEF Start, Go

\* The initial state has the declared types.
LEMMA InitType == Init => TypeOK
  BY IdleJob DEF Init, TypeOK

\* Every step keeps the declared types.
LEMMA NextType == TypeOK /\ [Next]_vars => TypeOK'
<1> SUFFICES ASSUME TypeOK, [Next]_vars PROVE TypeOK'
  OBVIOUS
<1>1. CASE UNCHANGED vars
  BY <1>1 DEF vars, TypeOK
<1>2. ASSUME NEW s \in Sessions, NEW b \in BOOLEAN, SignOut(s) \/ FlowEnds(s) \/ SignIn(s, b)
      PROVE  TypeOK'
  BY <1>2 DEF SignOut, FlowEnds, SignIn, TypeOK, provider
<1>3. CASE Expire
  <2>1. row' \in Rows
    BY <1>3, RowShape DEF Expire, Rows
  <2>2. QED BY <1>3, <2>1 DEF Expire, TypeOK, sessions, provider
<1>4. ASSUME NEW i \in Ids, ProviderRuns(i) PROVE TypeOK'
  <2>1. CASE WitnessAllows(i)
    <3>1. row' \in Rows
      BY <1>4, <2>1, RowShape DEF ProviderRuns, WitnessAllows, Rows
    <3>2. QED BY <1>4, <2>1, <3>1 DEF ProviderRuns, TypeOK, sessions
  <2>2. CASE ~WitnessAllows(i)
    BY <1>4, <2>2 DEF ProviderRuns, TypeOK, sessions
  <2>3. QED BY <2>1, <2>2
<1>5. ASSUME NEW q \in Requests, GiveUp(q) \/ Restart(q) PROVE TypeOK'
  <2>1. job' \in [Requests -> Jobs]
    BY <1>5, SlotType, IdleJob DEF GiveUp, Restart, Finish, Go
  <2>2. QED BY <1>5, <2>1 DEF GiveUp, Restart, StillSpent, TypeOK, sessions, provider
<1>6. ASSUME NEW q \in Requests, Begin(q) PROVE TypeOK'
  <2>1. begun' \in Ids /\ begun' \in Nat
    BY <1>6, PasswordAssumption DEF Begin, Ids, TypeOK
  <2>2. job[q].session \in Sessions /\ job[q].flow \in BOOLEAN
    BY <1>6, JobShape DEF Begin
  <2>3. row' \in Rows
    BY <1>6, <2>1, <2>2 DEF Begin, Rows
  <2>4. job' \in [Requests -> Jobs]
    BY <1>6, <2>1, <2>2, StageJob, SlotType DEF Begin, Go
  <2>5. QED BY <1>6, <2>1, <2>3, <2>4 DEF Begin, StillSpent, TypeOK, sessions
<1>7. ASSUME NEW q \in Requests, Reconcile(q) PROVE TypeOK'
  <2>1. row \in Rows
    BY <1>7, RowShape DEF Reconcile, Current, Answers, Mine
  <2>2. CASE row.state = "started"
    <3>1. row' \in Rows /\ row.id \in Ids
      BY <1>7, <2>1, <2>2 DEF Reconcile, Rows
    <3>2. job' \in [Requests -> Jobs]
      BY <1>7, <2>2, SlotType, IdleJob DEF Reconcile, Finish, Go
    <3>3. QED BY <1>7, <2>2, <3>1, <3>2 DEF Reconcile, TypeOK, sessions, provider
  <2>3. CASE row.state # "started"
    <3>2. job' \in [Requests -> Jobs]
      BY <1>7, <2>3, NextStage, SlotType DEF Reconcile
    <3>3. QED BY <1>7, <2>3, <3>2 DEF Reconcile, TypeOK, sessions, provider
  <2>4. QED BY <2>2, <2>3
<1>8. ASSUME NEW q \in Requests, Revoke(q) PROVE TypeOK'
  <2>1. CASE job' = [job EXCEPT ![q].op = "complete"]
    <3>2. job' \in [Requests -> Jobs]
      BY <1>8, <2>1, NextStage, SlotType DEF Revoke
    <3>3. QED BY <1>8, <3>2 DEF Revoke, Acknowledged, TypeOK, provider
  <2>2. CASE Finish(q)
    <3>1. job' \in [Requests -> Jobs]
      BY <2>2, SlotType, IdleJob DEF Finish, Go
    <3>2. QED BY <1>8, <3>1 DEF Revoke, Acknowledged, TypeOK, provider
  <2>3. QED BY <1>8, <2>1, <2>2 DEF Revoke
<1>9. ASSUME NEW q \in Requests, Complete(q) PROVE TypeOK'
  <2>1. row' \in Rows
    BY <1>9, RowShape DEF Complete, Rows
  <2>2. job' \in [Requests -> Jobs]
    BY <1>9, SlotType, IdleJob DEF Complete, Finish, Go
  <2>3. QED BY <1>9, <2>1, <2>2 DEF Complete, TypeOK, sessions, provider
<1>10. ASSUME NEW q \in Requests, NEW s \in Sessions, Start(q, s) PROVE TypeOK'
  <2>1. job' \in [Requests -> Jobs]
    BY <1>10, StartShape, SlotType
  <2>2. QED BY <1>10, <2>1 DEF Start, TypeOK, sessions, provider
<1>11. QED
  BY <1>1, <1>2, <1>3, <1>4, <1>5, <1>6, <1>7, <1>8, <1>9, <1>10 DEF Next

-----------------------------------------------------------------------------
(* What a step can do to the attempt *)

\* Nothing happens to it but that its time may run out.
Rests ==
    /\ UNCHANGED <<begun, committed, fenced, old>>
    /\ row' = row \/ (row # NoRow /\ row' = [row EXCEPT !.expired = TRUE])

\* A request of session s removes it.
Retires(s, f) ==
    /\ MayRestart(s, f) \/ Stale(s, f)
    /\ row' = NoRow
    /\ spent' = StillSpent(s)
    /\ UNCHANGED <<begun, committed, fenced, old>>

\* A request of session s begins the next one.
Begins(s, f) ==
    /\ row = NoRow \/ Stale(s, f)
    /\ begun' = begun + 1
    /\ row' \in Rows /\ row'.id = begun' /\ row'.state = "started"
    /\ spent' = StillSpent(s)
    /\ UNCHANGED <<committed, fenced, old>>

\* It is fenced before it was written.
Fences ==
    /\ row.state = "started"
    /\ row' = [row EXCEPT !.state = "failed"]
    /\ fenced' = fenced \cup {row.id}
    /\ UNCHANGED <<begun, committed, old>>

\* Its password is written.
Writes ==
    /\ row.state = "started"
    /\ row' = [row EXCEPT !.state = "pending"]
    /\ committed' = committed \cup {row.id}
    /\ old' = live \ {row.session}
    /\ UNCHANGED <<begun, fenced, job>>

\* The request in slot q completes it.
Completes(q) ==
    /\ job[q].op = "complete"
    /\ row.state = "pending" /\ row.id = job[q].id /\ row.session = job[q].session
    /\ row' = [row EXCEPT !.state = "complete"]
    /\ UNCHANGED <<known, live, begun, committed, fenced, old>>

\* Every step is one of these; spent grows with a write only.
LEMMA RowEffect ==
    ASSUME TypeOK, [Next]_vars
    PROVE  \/ Rests /\ spent' \subseteq spent
           \/ \E q \in Requests : job[q].op # "idle" /\ Retires(job[q].session, job[q].flow)
           \/ \E q \in Requests : job[q].op # "idle" /\ Begins(job[q].session, job[q].flow)
           \/ Fences /\ UNCHANGED spent
           \/ Writes /\ spent' \subseteq spent \cup {row.session}
           \/ (\E q \in Requests : Completes(q)) /\ UNCHANGED spent
<1>1. CASE UNCHANGED vars
  BY <1>1 DEF vars, Rests
<1>2. ASSUME NEW s \in Sessions, NEW b \in BOOLEAN, SignOut(s) \/ FlowEnds(s) \/ SignIn(s, b)
      PROVE  Rests /\ spent' \subseteq spent
  BY <1>2 DEF SignOut, FlowEnds, SignIn, Rests, provider
<1>3. CASE Expire
  BY <1>3 DEF Expire, Rests, provider
<1>4. ASSUME NEW i \in Ids, ProviderRuns(i)
      PROVE  \/ Rests /\ spent' \subseteq spent
             \/ Writes /\ spent' \subseteq spent \cup {row.session}
  BY <1>4 DEF ProviderRuns, WitnessAllows, Rests, Writes
<1>5. ASSUME NEW q \in Requests, Restart(q)
      PROVE  job[q].op # "idle" /\ Retires(job[q].session, job[q].flow)
  BY <1>5 DEF Restart, Retires, provider
<1>6. ASSUME NEW q \in Requests, Begin(q)
      PROVE  job[q].op # "idle" /\ Begins(job[q].session, job[q].flow)
  <2>1. row' \in Rows
    BY <1>6, NextType, RowShape, PasswordAssumption, JobShape DEF Begin, Rows, Ids, TypeOK
  <2>2. QED BY <1>6, <2>1 DEF Begin, Begins
<1>7. ASSUME NEW q \in Requests, Reconcile(q)
      PROVE  (Fences \/ Rests) /\ UNCHANGED spent
  BY <1>7 DEF Reconcile, Fences, Rests, provider
<1>8. ASSUME NEW q \in Requests, Complete(q) PROVE Completes(q) /\ UNCHANGED spent
  BY <1>8 DEF Complete, Completes, Current, Answers, Mine, provider, sessions
<1>9. ASSUME NEW q \in Requests,
             GiveUp(q) \/ Revoke(q) \/ \E s \in Sessions : Start(q, s)
      PROVE  Rests /\ spent' \subseteq spent
  BY <1>9 DEF GiveUp, Revoke, Start, Rests, provider
<1>10. QED
  BY <1>1, <1>2, <1>3, <1>4, <1>5, <1>6, <1>7, <1>8, <1>9 DEF Next

-----------------------------------------------------------------------------
(* The invariant *)

\* It holds at the start.
LEMMA InitIInv == Init => IInv
<1> SUFFICES ASSUME Init PROVE IInv
  OBVIOUS
<1>1. TypeOK
  BY InitType
<1>2. QED
  BY <1>1, IdleJob DEF Init, IInv, NoLateWrite, CompleteLeavesNoOther, Numbered, StateTells,
        JobsWritten, AloneToComplete, FlowCarried, SpentWrote, NoRow

\* A write and a fence each find the attempt started, so it gets only one.
LEMMA TellsStep ==
    IInv /\ [Next]_vars => Numbered' /\ StateTells' /\ NoLateWrite'
<1> SUFFICES ASSUME IInv, [Next]_vars PROVE Numbered' /\ StateTells' /\ NoLateWrite'
  OBVIOUS
<1> USE DEF IInv, Numbered, StateTells, NoLateWrite
<1>0. /\ begun \in Nat /\ \A i \in committed \cup fenced : i \in Nat
      /\ NoRow.state = "none" /\ (row # NoRow => row \in Rows)
  BY RowShape DEF TypeOK, Ids
<1>1. CASE Rests
  BY <1>0, <1>1 DEF Rests, Rows
<1>2. ASSUME NEW s, NEW f, Retires(s, f) PROVE Numbered' /\ StateTells' /\ NoLateWrite'
  BY <1>0, <1>2 DEF Retires
<1>3. ASSUME NEW s, NEW f, Begins(s, f) PROVE Numbered' /\ StateTells' /\ NoLateWrite'
  <2>1. row'.id \notin committed' \cup fenced'
    BY <1>0, <1>3 DEF Begins
  <2>2. QED BY <1>0, <1>3, <2>1 DEF Begins
<1>4. CASE Fences
  <2>1. row \in Rows /\ row' = [row EXCEPT !.state = "failed"]
    BY <1>0, <1>4 DEF Fences
  <2>2. QED BY <1>0, <1>4, <2>1 DEF Fences, Rows
<1>5. CASE Writes
  <2>1. row \in Rows /\ row' = [row EXCEPT !.state = "pending"]
    BY <1>0, <1>5 DEF Writes
  <2>2. QED BY <1>0, <1>5, <2>1 DEF Writes, Rows
<1>6. ASSUME NEW q \in Requests, Completes(q) PROVE Numbered' /\ StateTells' /\ NoLateWrite'
  <2>1. row \in Rows /\ row' = [row EXCEPT !.state = "complete"]
    BY <1>0, <1>6 DEF Completes
  <2>2. QED BY <1>0, <1>6, <2>1 DEF Completes, Rows
<1>7. QED BY <1>1, <1>2, <1>3, <1>4, <1>5, <1>6, RowEffect

\* The slot a step writes holds a request of a session that was signed in; one
\* that revokes has found the attempt written, and one that completes has
\* signed the others out.
LEMMA JobEffect ==
    ASSUME TypeOK, [Next]_vars
    PROVE  \/ UNCHANGED job
           \/ \E q \in Requests, j \in Jobs :
                /\ job' = [job EXCEPT ![q] = j]
                /\ UNCHANGED <<flow, known>>
                /\ j.op # "idle" =>
                     \/ j.session \in live /\ j.flow = (j.session \in flow)
                     \/ job[q].op # "idle" /\ j.session = job[q].session /\ j.flow = job[q].flow
                /\ j.op = "revoke" => j.id = row.id /\ row.state = "pending" /\ row' = row
                /\ j.op = "complete" =>
                     /\ job[q].op = "revoke" /\ j.id = job[q].id
                     /\ row' = row /\ old' = old /\ live' = {j.session}
<1>1. ASSUME \/ UNCHANGED vars \/ Expire
             \/ \E i \in Ids : ProviderRuns(i)
             \/ \E s \in Sessions : SignOut(s) \/ FlowEnds(s) \/ \E b \in BOOLEAN : SignIn(s, b)
      PROVE  UNCHANGED job
  BY <1>1 DEF vars, Expire, ProviderRuns, SignOut, FlowEnds, SignIn
<1> DEFINE Good(q, j) ==
                /\ job' = [job EXCEPT ![q] = j]
                /\ UNCHANGED <<flow, known>>
                /\ j.op # "idle" =>
                     \/ j.session \in live /\ j.flow = (j.session \in flow)
                     \/ job[q].op # "idle" /\ j.session = job[q].session /\ j.flow = job[q].flow
                /\ j.op = "revoke" => j.id = row.id /\ row.state = "pending" /\ row' = row
                /\ j.op = "complete" =>
                     /\ job[q].op = "revoke" /\ j.id = job[q].id
                     /\ row' = row /\ old' = old /\ live' = {j.session}
<1>2. ASSUME NEW q \in Requests, Finish(q), UNCHANGED <<flow, known>>
      PROVE  \E j \in Jobs : Good(q, j)
  <2>1. Good(q, Idle)
    BY <1>2, IdleJob DEF Finish, Go
  <2>2. QED BY <2>1, IdleJob
<1>3. ASSUME NEW q \in Requests, GiveUp(q) \/ Restart(q) \/ Complete(q)
      PROVE  \E j \in Jobs : Good(q, j)
  BY <1>2, <1>3 DEF GiveUp, Restart, Complete, sessions
<1>4. ASSUME NEW q \in Requests, Begin(q) PROVE \E j \in Jobs : Good(q, j)
  <2> DEFINE j == [op |-> "reconcile", session |-> job[q].session, flow |-> job[q].flow, id |-> begun']
  <2>1. j \in Jobs
    BY <1>4, JobShape, StageJob, PasswordAssumption DEF Begin, Ids, TypeOK
  <2>2. job' = [job EXCEPT ![q] = j] /\ UNCHANGED <<flow, known>>
    BY <1>4 DEF Begin, Go, sessions
  <2>3. job[q].op # "idle"
    BY <1>4 DEF Begin
  <2>4. Good(q, j)
    BY <2>2, <2>3
  <2>5. QED BY <2>1, <2>4
<1>5. ASSUME NEW q \in Requests, Reconcile(q) PROVE \E j \in Jobs : Good(q, j)
  <2>1. CASE row.state = "started"
    BY <1>2, <1>5, <2>1 DEF Reconcile, sessions
  <2>2. CASE row.state # "started"
    <3>1. PICK j \in Jobs :
            /\ job' = [job EXCEPT ![q] = j]
            /\ j.op = "revoke" /\ j.session = job[q].session /\ j.flow = job[q].flow /\ j.id = job[q].id
      BY <1>5, <2>2, NextStage DEF Reconcile
    <3>2. /\ j.id = row.id /\ row.state = "pending" /\ row' = row
          /\ job[q].op # "idle" /\ UNCHANGED <<flow, known>>
      BY <1>5, <2>2, <3>1 DEF Reconcile, Current, sessions
    <3>3. QED BY <3>1, <3>2
  <2>3. QED BY <2>1, <2>2
<1>6. ASSUME NEW q \in Requests, Revoke(q) PROVE \E j \in Jobs : Good(q, j)
  <2>1. UNCHANGED <<flow, known, row, old>> /\ live' = {job[q].session} /\ job[q].op = "revoke"
    BY <1>6 DEF Revoke, Acknowledged, provider
  <2>2. CASE Finish(q)
    BY <1>2, <2>1, <2>2
  <2>3. CASE job' = [job EXCEPT ![q].op = "complete"]
    <3>1. PICK j \in Jobs :
            /\ job' = [job EXCEPT ![q] = j]
            /\ j.op = "complete" /\ j.session = job[q].session /\ j.flow = job[q].flow /\ j.id = job[q].id
      BY <2>1, <2>3, NextStage
    <3>2. Good(q, j)
      BY <2>1, <3>1
    <3>3. QED BY <3>2
  <2>4. QED BY <1>6, <2>2, <2>3 DEF Revoke
<1>7. ASSUME NEW q \in Requests, NEW s \in Sessions, Start(q, s) PROVE \E j \in Jobs : Good(q, j)
  <2>1. PICK j \in Jobs :
             /\ job' = [job EXCEPT ![q] = j]
             /\ j.session = s /\ j.flow = (s \in flow) /\ j.op # "complete" /\ j.op # "idle"
             /\ j.op = "revoke" => j.id = row.id /\ row.state = "pending"
    BY <1>7, StartShape
  <2>2. s \in live /\ UNCHANGED <<flow, known, row>>
    BY <1>7 DEF Start, sessions
  <2>3. Good(q, j)
    BY <2>1, <2>2
  <2>4. QED BY <2>3
<1> HIDE DEF Good
<1>8. UNCHANGED job \/ \E q \in Requests, j \in Jobs : Good(q, j)
  BY <1>1, <1>3, <1>4, <1>5, <1>6, <1>7 DEF Next
<1>9. QED BY <1>8 DEF Good

\* Sessions and flows only come from sign-ins.
LEMMA SessionEffect ==
    ASSUME TypeOK, [Next]_vars
    PROVE  /\ known \subseteq known'
           /\ \A s \in live' : s \in live \/ s \notin known
           /\ \A s \in flow' : s \in flow \/ s \notin known
<1>1. ASSUME NEW s \in Sessions, NEW b \in BOOLEAN, SignOut(s) \/ FlowEnds(s) \/ SignIn(s, b)
      PROVE  /\ known \subseteq known'
             /\ \A x \in live' : x \in live \/ x \notin known
             /\ \A x \in flow' : x \in flow \/ x \notin known
  BY <1>1 DEF SignOut, FlowEnds, SignIn
<1>2. ASSUME NEW q \in Requests, Revoke(q)
      PROVE  UNCHANGED <<known, flow>> /\ live' \subseteq live
  BY <1>2 DEF Revoke, Acknowledged
<1>3. ASSUME \/ UNCHANGED vars \/ Expire
             \/ \E i \in Ids : ProviderRuns(i)
             \/ \E q \in Requests :
                    \/ GiveUp(q) \/ Restart(q) \/ Begin(q) \/ Reconcile(q) \/ Complete(q)
                    \/ \E s \in Sessions : Start(q, s)
      PROVE  UNCHANGED sessions
  BY <1>3 DEF vars, Expire, ProviderRuns, GiveUp, Restart, Begin, Reconcile, Complete, Start, sessions
<1>4. QED BY <1>1, <1>2, <1>3 DEF Next, sessions

\* A revocation begins with the written attempt, and nothing is unwritten.
LEMMA JobsWrittenStep == IInv /\ [Next]_vars => JobsWritten'
<1> SUFFICES ASSUME IInv, [Next]_vars, NEW p \in Requests, job'[p].op \in {"revoke", "complete"}
             PROVE  job'[p].id \in committed'
  BY DEF JobsWritten
<1>1. TypeOK /\ job \in [Requests -> Jobs]
  BY DEF IInv, TypeOK
<1>2. committed \subseteq committed'
  BY <1>1, RowEffect DEF Rests, Retires, Begins, Fences, Writes, Completes
<1>3. CASE UNCHANGED job
  BY <1>2, <1>3 DEF IInv, JobsWritten
<1>4. ASSUME NEW q \in Requests, NEW j \in Jobs, job' = [job EXCEPT ![q] = j],
             j.op = "revoke" => j.id = row.id /\ row.state = "pending",
             j.op = "complete" => job[q].op = "revoke" /\ j.id = job[q].id
      PROVE  job'[p].id \in committed'
  <2>1. CASE p = q
    BY <1>1, <1>2, <1>4, <2>1 DEF IInv, JobsWritten, StateTells
  <2>2. CASE p # q
    BY <1>1, <1>2, <1>4, <2>2 DEF IInv, JobsWritten
  <2>3. QED BY <2>1, <2>2
<1>5. QED BY <1>1, <1>3, <1>4, JobEffect

\* The sign-out leaves only the session that changed the password; later
\* sign-ins are not among those there were at the write.
LEMMA AloneStep == IInv /\ [Next]_vars => AloneToComplete'
<1> SUFFICES ASSUME IInv, [Next]_vars, NEW p \in Requests,
                    job'[p].op = "complete", row'.state = "pending",
                    row'.id = job'[p].id, row'.session = job'[p].session
             PROVE  old' \cap live' = {}
  BY DEF AloneToComplete
<1>1. /\ TypeOK /\ job \in [Requests -> Jobs] /\ old \subseteq known /\ NoRow.state = "none"
      /\ row # NoRow => row \in Rows
  BY RowShape DEF IInv, TypeOK
<1>2. ASSUME job'[p] = job[p] PROVE old' \cap live' = {}
  <2>1. ASSUME Rests PROVE old' \cap live' = {}
    <3>1. row.state = "pending" /\ row.id = job[p].id /\ row.session = job[p].session
      BY <1>1, <1>2, <2>1 DEF Rests, Rows
    <3>2. old \cap live = {}
      BY <1>2, <3>1 DEF IInv, AloneToComplete
    <3>3. QED BY <1>1, <2>1, <3>2, SessionEffect DEF Rests
  <2>2. ~Writes
    BY <1>1, <1>2 DEF Writes, IInv, JobsWritten, StateTells, Rows
  <2>3. /\ ~Fences /\ \A q \in Requests : ~Completes(q)
        /\ \A s, f : ~Retires(s, f) /\ ~Begins(s, f)
    BY <1>1 DEF Fences, Completes, Retires, Begins, Rows
  <2>4. QED BY <1>1, <2>1, <2>2, <2>3, RowEffect
<1>3. ASSUME NEW q \in Requests, NEW j \in Jobs, job' = [job EXCEPT ![q] = j],
             j.op = "complete" => row' = row /\ old' = old /\ live' = {j.session}
      PROVE  old' \cap live' = {}
  <2>1. CASE p = q
    BY <1>1, <1>3, <2>1 DEF IInv, StateTells
  <2>2. CASE p # q
    BY <1>1, <1>2, <1>3, <2>2
  <2>3. QED BY <2>1, <2>2
<1>4. QED BY <1>1, <1>2, <1>3, JobEffect

\* So completing the attempt finds no other session of those.
LEMMA CompleteStep == IInv /\ [Next]_vars => CompleteLeavesNoOther'
<1> SUFFICES ASSUME IInv, [Next]_vars, row'.state = "complete"
             PROVE  row'.id \in committed' /\ old' \cap live' = {}
  BY DEF CompleteLeavesNoOther
<1>1. /\ TypeOK /\ old \subseteq known /\ NoRow.state = "none" /\ (row # NoRow => row \in Rows)
  BY RowShape DEF IInv, TypeOK
<1>2. ASSUME Rests PROVE row'.id \in committed' /\ old' \cap live' = {}
  <2>1. row.state = "complete" /\ row.id = row'.id
    BY <1>1, <1>2 DEF Rests, Rows
  <2>2. row.id \in committed /\ old \cap live = {}
    BY <2>1 DEF IInv, CompleteLeavesNoOther
  <2>3. QED BY <1>1, <1>2, <2>1, <2>2, SessionEffect DEF Rests
<1>3. ASSUME NEW q \in Requests, Completes(q) PROVE row'.id \in committed' /\ old' \cap live' = {}
  BY <1>1, <1>3 DEF Completes, IInv, AloneToComplete, StateTells, Rows
<1>4. /\ ~Fences /\ ~Writes
      /\ \A s, f : ~Retires(s, f) /\ ~Begins(s, f)
  BY <1>1 DEF Fences, Writes, Retires, Begins, Rows
<1>5. QED BY <1>1, <1>2, <1>3, <1>4, RowEffect

\* A request keeps what its session's flow was, and a flow never comes back.
LEMMA FlowStep == IInv /\ [Next]_vars => FlowCarried'
<1> SUFFICES ASSUME IInv, [Next]_vars, NEW p \in Requests, job'[p].op # "idle"
             PROVE  job'[p].session \in known' /\ (job'[p].flow \/ job'[p].session \notin flow')
  BY DEF FlowCarried
<1>1. TypeOK /\ job \in [Requests -> Jobs] /\ live \subseteq known
  BY DEF IInv, TypeOK
<1>2. ASSUME job'[p] = job[p]
      PROVE  job'[p].session \in known' /\ (job'[p].flow \/ job'[p].session \notin flow')
  <2>1. job[p].session \in known /\ (job[p].flow \/ job[p].session \notin flow)
    BY <1>2 DEF IInv, FlowCarried
  <2>2. QED BY <1>1, <1>2, <2>1, SessionEffect
<1>3. ASSUME NEW q \in Requests, NEW j \in Jobs,
             job' = [job EXCEPT ![q] = j], UNCHANGED <<flow, known>>,
             j.op # "idle" =>
                     \/ j.session \in live /\ j.flow = (j.session \in flow)
                     \/ job[q].op # "idle" /\ j.session = job[q].session /\ j.flow = job[q].flow
      PROVE  job'[p].session \in known' /\ (job'[p].flow \/ job'[p].session \notin flow')
  <2>1. CASE p = q
    <3>1. job'[p] = j
      BY <1>1, <1>3, <2>1
    <3>2. CASE j.session \in live /\ j.flow = (j.session \in flow)
      BY <1>1, <1>3, <3>1, <3>2
    <3>3. CASE job[q].op # "idle" /\ j.session = job[q].session /\ j.flow = job[q].flow
      BY <1>3, <3>1, <3>3 DEF IInv, FlowCarried
    <3>4. QED BY <1>3, <3>1, <3>2, <3>3
  <2>2. CASE p # q
    BY <1>1, <1>2, <1>3, <2>2
  <2>3. QED BY <2>1, <2>2
<1>4. QED BY <1>1, <1>2, <1>3, JobEffect

\* Nobody but another session takes the attempt of a spent flow away.
LEMMA SpentStep == IInv /\ [Next]_vars => SpentWrote'
<1> SUFFICES ASSUME IInv, [Next]_vars, NEW x \in spent'
             PROVE  row'.state \in {"pending", "complete"} /\ row'.session = x
  BY DEF SpentWrote
<1>1. /\ TypeOK /\ spent \subseteq flow /\ NoRow.state = "none" /\ (row # NoRow => row \in Rows)
  BY RowShape DEF IInv, TypeOK
<1>2. \A y \in spent : row.state \in {"pending", "complete"} /\ row.session = y
  BY DEF IInv, SpentWrote
<1>3. ASSUME NEW q \in Requests, job[q].op # "idle",
             \/ MayRestart(job[q].session, job[q].flow) \/ Stale(job[q].session, job[q].flow)
             \/ row = NoRow
      PROVE  StillSpent(job[q].session) = {}
  <2>1. job[q].flow \/ job[q].session \notin flow
    BY <1>3 DEF IInv, FlowCarried
  <2>2. CASE row = NoRow
    BY <1>1, <1>2, <2>2 DEF StillSpent
  <2>3. CASE row # NoRow /\ Mine(job[q].session)
    BY <1>1, <1>2, <1>3, <2>1, <2>3 DEF StillSpent, Mine, MayRestart, Stale
  <2>4. CASE row # NoRow /\ ~Mine(job[q].session)
    BY <1>2, <2>4 DEF StillSpent, Mine
  <2>5. QED BY <2>2, <2>3, <2>4
<1>4. CASE Rests /\ spent' \subseteq spent
  BY <1>1, <1>2, <1>4 DEF Rests, Rows
<1>5. ASSUME NEW q \in Requests, job[q].op # "idle",
             Retires(job[q].session, job[q].flow) \/ Begins(job[q].session, job[q].flow)
      PROVE  FALSE
  BY <1>3, <1>5 DEF Retires, Begins
<1>6. CASE Fences /\ UNCHANGED spent
  BY <1>2, <1>6 DEF Fences
<1>7. CASE Writes /\ spent' \subseteq spent \cup {row.session}
  BY <1>1, <1>2, <1>7 DEF Writes, Rows
<1>8. ASSUME NEW q \in Requests, Completes(q), UNCHANGED spent
      PROVE  row'.state \in {"pending", "complete"} /\ row'.session = x
  BY <1>1, <1>2, <1>8 DEF Completes, Rows
<1>9. QED BY <1>1, <1>4, <1>5, <1>6, <1>7, <1>8, RowEffect

\* The invariant is inductive.
LEMMA NextIInv == IInv /\ [Next]_vars => IInv'
  BY NextType, TellsStep, JobsWrittenStep, AloneStep, CompleteStep, FlowStep, SpentStep DEF IInv

-----------------------------------------------------------------------------
(* The theorems *)

\* The inductive invariant holds throughout.
THEOREM Invariant == Spec => []IInv
  BY InitIInv, NextIInv, PTL DEF Spec

\* Every variable keeps its type.
THEOREM TypeCorrect == Spec => []TypeOK
<1>1. IInv => TypeOK
  BY DEF IInv
<1>2. QED BY Invariant, <1>1, PTL

\* A change that was reported failed never lands.
THEOREM FencedNeverWritten == Spec => []NoLateWrite
<1>1. IInv => NoLateWrite
  BY DEF IInv
<1>2. QED BY Invariant, <1>1, PTL

\* A completed change has left none of the sessions there were.
THEOREM CompletedAlone == Spec => []CompleteLeavesNoOther
<1>1. IInv => CompleteLeavesNoOther
  BY DEF IInv
<1>2. QED BY Invariant, <1>1, PTL

\* A written change stays pending until the others are signed out, or it
\* expires and another session retires it.
THEOREM PendingStays == Spec => UnrevokedStaysPending
<1> DEFINE Stays ==
      \/ row' = [row EXCEPT !.state = "complete"]
      \/ row' = [row EXCEPT !.expired = TRUE]
      \/ row.expired /\ row' = NoRow
          /\ \E q \in Requests : job[q] # Idle /\ job[q].session # row.session /\ job'[q] = Idle
<1>1. ASSUME IInv, [Next]_vars, row.state = "pending", row' # row PROVE Stays
  <2>1. TypeOK /\ job \in [Requests -> Jobs] /\ row \in Rows
    BY <1>1, RowShape DEF IInv, TypeOK
  <2>2. ASSUME NEW q \in Requests, Restart(q) PROVE Stays
    <3>1. row.expired /\ row' = NoRow /\ job[q].session # row.session
      BY <1>1, <2>1, <2>2 DEF Restart, MayRestart, Stale, Mine
    <3>2. job'[q] = Idle /\ job[q] # Idle
      BY <2>1, <2>2, IdleJob DEF Restart, Finish, Go
    <3>3. QED BY <3>1, <3>2
  <2>3. CASE Expire
    BY <2>3 DEF Expire
  <2>4. ASSUME NEW q \in Requests, Complete(q) PROVE Stays
    BY <2>4 DEF Complete
  <2>5. ASSUME \/ UNCHANGED vars
               \/ \E s \in Sessions : SignOut(s) \/ FlowEnds(s) \/ \E b \in BOOLEAN : SignIn(s, b)
               \/ \E i \in Ids : ProviderRuns(i)
               \/ \E q \in Requests :
                    \/ GiveUp(q) \/ Begin(q) \/ Reconcile(q) \/ Revoke(q)
                    \/ \E s \in Sessions : Start(q, s)
        PROVE  FALSE
    BY <1>1, <2>1, <2>5, RowShape DEF vars, SignOut, FlowEnds, SignIn, ProviderRuns, WitnessAllows,
        GiveUp, Begin, Stale, Reconcile, Revoke, Start
  <2>6. QED BY <1>1, <2>2, <2>3, <2>4, <2>5 DEF Next
<1>2. IInv /\ [Next]_vars => [row.state = "pending" /\ row' # row => Stays]_vars
  BY <1>1
<1>3. QED BY Invariant, <1>2, PTL DEF Spec, UnrevokedStaysPending

\* A flow that was spent writes nothing again.
THEOREM SpentWritesNothing == Spec => FlowWritesOnce
<1>1. ASSUME IInv, [Next]_vars, NEW s \in spent, committed' # committed PROVE row.session # s
  <2>1. Writes
    BY <1>1, RowEffect DEF IInv, Rests, Retires, Begins, Fences, Completes
  <2>2. QED BY <1>1, <2>1 DEF Writes, IInv, SpentWrote
<1>2. IInv /\ [Next]_vars => [\A s \in spent : committed' # committed => row.session # s]_vars
  BY <1>1
<1>3. QED BY Invariant, <1>2, PTL DEF Spec, FlowWritesOnce

-----------------------------------------------------------------------------
(* Password change implements PasswordHold *)

\* Where the rights stand depends on the row, on what was written and on how
\* many attempts there were.
LEMMA HoldUndisturbed ==
    ASSUME Rests, TypeOK
    PROVE  UNCHANGED Hold!holdVars
<1>1. \A i \in Ids : HoldOf(i)' = HoldOf(i)
  BY RowShape DEF Rests, HoldOf, Rows
<1>2. QED BY <1>1 DEF Hold!holdVars

\* An attempt begins when none is started or pending: its account has no
\* other right.
LEMMA BeginAcquires ==
    ASSUME IInv, NEW s, NEW f, Begins(s, f), NEW n \in Ids, row'.id = n
    PROVE  Hold!Acquire(n)
<1>1. /\ begun \in Nat /\ n = begun + 1 /\ row'.state = "started" /\ begun' = n
      /\ committed' = committed /\ \A i \in committed : i <= begun
      /\ row.state \notin {"started", "pending"} /\ NoRow.state = "none"
  BY RowShape DEF Begins, Stale, IInv, TypeOK, Numbered
<1>2. Ids \subseteq Nat
  BY PasswordAssumption DEF Ids
<1>3. \A i \in Ids : ~Hold!Holding(i)
  BY <1>1 DEF Hold!Holding, HoldOf
<1>4. HoldOf(n) = "free" /\ HoldOf(n)' = "open"
  BY <1>1, <1>2 DEF HoldOf
<1>5. \A i \in Ids : i # n => HoldOf(i)' = HoldOf(i)
  BY <1>1, <1>2 DEF HoldOf
<1>6. QED BY <1>3, <1>4, <1>5 DEF Hold!Acquire

\* The attempt in the row ends: its right closes, or is spent if it was used.
LEMMA EndCloses ==
    ASSUME IInv, row \in Rows, NEW n \in Ids, row.id = n,
           UNCHANGED <<begun, committed>>, row'.state \notin {"started", "pending"}
    PROVE  Hold!Close({n})
<1>1. /\ n \in Nat /\ begun \in Nat
      /\ n <= begun
      /\ row.state = "started" => n \notin committed
      /\ row.state \in {"pending", "complete"} => n \in committed
  <2>1. row # NoRow
    <3>1. NoRow.state = "none" /\ row.state # "none"
      BY RowShape DEF IInv, Rows
    <3>2. QED BY <3>1
  <2>2. n \in Nat /\ begun \in Nat
    BY PasswordAssumption DEF IInv, TypeOK, Ids
  <2>3. QED BY <2>1, <2>2 DEF IInv, Numbered, StateTells
<1>2. \A i \in Ids : HoldOf(i)' = IF i > begun THEN "free"
                                  ELSE IF i \in committed THEN "spent" ELSE "closed"
  BY DEF HoldOf
<1>3. HoldOf(n)' = Hold!Ended(HoldOf(n))
  BY <1>1, <1>2 DEF HoldOf, Hold!Ended
<1>4. \A i \in Ids : i # n => HoldOf(i)' = HoldOf(i)
  BY <1>2 DEF HoldOf
<1>5. QED BY <1>3, <1>4 DEF Hold!Close

\* Every step is a step of the one-right promise or leaves it alone.
LEMMA StepHold ==
    IInv /\ [Next]_vars => [Hold!Next]_Hold!holdVars
<1> SUFFICES ASSUME IInv, [Next]_vars PROVE [Hold!Next]_Hold!holdVars
  OBVIOUS
<1>1. /\ TypeOK /\ NoRow.state = "none" /\ row' \in Rows \cup {NoRow}
      /\ row.state # "none" => row \in Rows
  BY NextType, RowShape DEF IInv, TypeOK
<1>2. CASE Rests
  BY <1>1, <1>2, HoldUndisturbed
<1>3. ASSUME NEW s, NEW f, Retires(s, f) PROVE Hold!Next
  <2>1. row \in Rows /\ row'.state = "none" /\ UNCHANGED <<begun, committed>>
    BY <1>1, <1>3 DEF Retires, MayRestart, Stale, Mine, IInv, TypeOK
  <2>2. PICK n \in Ids : row.id = n
    BY <2>1 DEF Rows
  <2>3. Hold!Close({n})
    BY <2>1, <2>2, EndCloses
  <2>4. QED BY <2>3 DEF Hold!Next
<1>4. ASSUME NEW s, NEW f, Begins(s, f) PROVE Hold!Next
  <2>1. row'.id \in Ids
    BY <1>4 DEF Begins, Rows
  <2>2. PICK n \in Ids : n = row'.id
    BY <2>1
  <2>3. Hold!Acquire(n)
    BY <1>4, <2>2, BeginAcquires
  <2>4. QED BY <2>3 DEF Hold!Next
<1>5. CASE Fences
  <2>1. row \in Rows /\ row'.state = "failed" /\ UNCHANGED <<begun, committed>>
    BY <1>1, <1>5 DEF Fences, Rows
  <2>2. PICK n \in Ids : row.id = n
    BY <2>1 DEF Rows
  <2>3. Hold!Close({n})
    BY <2>1, <2>2, EndCloses
  <2>4. QED BY <2>3 DEF Hold!Next
<1>6. CASE Writes
  <2>1. PICK n \in Ids : row.id = n
    BY <1>1, <1>6 DEF Writes, Rows
  <2>2. /\ n <= begun /\ begun' = begun /\ begun \in Nat /\ n \in Nat
        /\ row.state = "started" /\ row'.state = "pending" /\ row'.id = n
        /\ committed' = committed \cup {n}
    BY <1>1, <1>6, <2>1, PasswordAssumption DEF Writes, IInv, TypeOK, Numbered, Rows, Ids
  <2>3. HoldOf(n) = "open" /\ HoldOf(n)' = "written"
    BY <2>1, <2>2 DEF HoldOf
  <2>4. \A i \in Ids : i # n => HoldOf(i)' = HoldOf(i)
    BY <2>1, <2>2 DEF HoldOf
  <2>5. Hold!Write(n)
    BY <2>3, <2>4 DEF Hold!Write
  <2>6. QED BY <2>5 DEF Hold!Next
<1>7. ASSUME NEW q \in Requests, Completes(q) PROVE Hold!Next
  <2>1. row \in Rows /\ row'.state = "complete" /\ UNCHANGED <<begun, committed>>
    BY <1>1, <1>7 DEF Completes, Rows
  <2>2. PICK n \in Ids : row.id = n
    BY <2>1 DEF Rows
  <2>3. Hold!Close({n})
    BY <2>1, <2>2, EndCloses
  <2>4. QED BY <2>3 DEF Hold!Next
<1>8. QED BY <1>1, <1>2, <1>3, <1>4, <1>5, <1>6, <1>7, RowEffect

\* The password change attempts implement the promise that account setup
\* implements too: one right to write at a time, used once, never reopened.
THEOREM Implements == Spec => ImplementsHold
<1>1. Init => Hold!Init
  BY PasswordAssumption DEF Init, Hold!Init, HoldOf, Ids
<1>2. QED BY <1>1, Invariant, StepHold, PTL DEF Spec, ImplementsHold, Hold!Spec

=============================================================================
