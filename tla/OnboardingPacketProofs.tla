----------------------- MODULE OnboardingPacketProofs ------------------------
(***************************************************************************)
(* What OnboardingPacket keeps for any catalogue and any number of rows    *)
(* and requests.  A resync reads under the packet's lock and the rows'     *)
(* locks, so what it read is still so when it writes: Held says it.        *)
(***************************************************************************)
EXTENDS OnboardingPacket, TLAPS

ResyncJobs == [op : {"resync"}, template : Templates \cup {None}]
LockedJobs == [op : {"locked"}, template : Templates, old : Templates \cup {None}]
ReadJobs == [op : {"read"}, template : Templates, old : Templates \cup {None},
             catalogue : Catalogue, rows : [Rows -> ProgressRows \cup {None}]]
EditJobs == [op : {"edit"}, row : Rows, done : BOOLEAN, stage : Stages \cup {None}]
RemoveJobs == [op : {"remove"}, row : Rows]
ExpireJobs == [op : {"expire"}, status : Finished]

Holding == {"locked", "read"}

\* One resync at a time holds the packet.
OneHolder ==
    \A p, q \in Requests : job[p].op \in Holding /\ job[q].op \in Holding => p = q

\* The packet a resync holds is in progress and has the template it found, and
\* its rows, once held, are as they were read.
Held ==
    \A q \in Requests :
        /\ job[q].op \in Holding => packet.status = "in_progress" /\ job[q].old = packet.template
        /\ job[q].op = "read" => job[q].rows = row

\* A definition that never moved is in the template it was created in, and was
\* when it was read.
NeverMoved ==
    /\ \A d \in Definitions \ moved : definition[d] # None => definition[d].template = Home[d]
    /\ \A q \in Requests : job[q].op = "read" =>
         \A d \in Selected(job[q]) \ moved : job[q].template = Home[d]

\* Before the packet starts and after it has gone there is no row.
NoPacketNoRows ==
    packet.status \in {"none", "gone"} => \A r \in Rows : row[r] = None

Rules ==
    /\ OneRowPerDefinition
    /\ StageFitsForm
    /\ OnlySelectedActive
    /\ OneHolder
    /\ Held
    /\ NeverMoved
    /\ NoPacketNoRows

IInv == TypeOK /\ Rules

-----------------------------------------------------------------------------
(* Types *)

\* A request carries what its operation needs.
LEMMA JobShape ==
    ASSUME TypeOK, NEW q \in Requests
    PROVE  /\ job[q].op = "resync" => job[q] \in ResyncJobs
           /\ job[q].op = "locked" => job[q] \in LockedJobs
           /\ job[q].op = "read" => job[q] \in ReadJobs
           /\ job[q].op = "edit" => job[q] \in EditJobs
           /\ job[q].op = "remove" => job[q] \in RemoveJobs
           /\ job[q].op = "expire" => job[q] \in ExpireJobs
<1>1. job[q] \in Jobs
  BY DEF TypeOK
<1> QED
  BY <1>1, SMTT(30)
  DEF Jobs, ResyncJobs, LockedJobs, ReadJobs, EditJobs, RemoveJobs, ExpireJobs

\* None is neither a row, a definition, nor the name of one.
LEMMA NoneIsNothing ==
    /\ None \notin ProgressRows
    /\ None \notin [template : Templates, form : Forms]
    /\ None \notin Definitions /\ None \notin Templates /\ None \notin Stages
BY OnboardingPacketAssumption DEF ProgressRows

LEMMA FirstStage ==
    ASSUME NEW f \in Forms, HasStages(f)
    PROVE  f.stages[1] \in StagesOf(f) /\ StagesOf(f) \subseteq Stages
<1>1. f.stages \in Seq(Stages) /\ f.stages # <<>>
  BY OnboardingPacketAssumption DEF HasStages
<1>2. Len(f.stages) \in Nat /\ 1 \in 1 .. Len(f.stages)
  BY <1>1
<1> QED
  BY <1>1, <1>2 DEF StagesOf

\* New rows and refreshed rows are rows.
LEMMA MadeType ==
    ASSUME NEW d \in Definitions, NEW f \in Forms, NEW done \in BOOLEAN
    PROVE  Made(d, f, done) \in ProgressRows
<1>1. (IF HasStages(f) THEN f.stages[1] ELSE None) \in Stages \cup {None}
  BY FirstStage
<1> QED
  BY <1>1, OnboardingPacketAssumption DEF Made, ProgressRows

LEMMA RefreshedType ==
    ASSUME NEW now \in ProgressRows, NEW seen, NEW d \in Definitions, NEW f \in Forms
    PROVE  Refreshed(now, seen, d, f) \in ProgressRows
<1>1. HasStages(f) => f.stages[1] \in Stages
  BY FirstStage
<1> QED
  BY <1>1 DEF Refreshed, ProgressRows

LEMMA SetJob ==
    ASSUME TypeOK, NEW q \in Requests, NEW j \in Jobs, job' = [job EXCEPT ![q] = j]
    PROVE  job' \in [Requests -> Jobs]
BY DEF TypeOK

LEMMA FinishType ==
    ASSUME TypeOK, NEW q \in Requests, Finish(q)
    PROVE  job' \in [Requests -> Jobs]
<1>1. [op |-> "idle"] \in Jobs
  BY DEF Jobs
<1> QED
  BY <1>1, SetJob DEF Finish

LEMMA UnlinkType ==
    ASSUME TypeOK, NEW D \in SUBSET Definitions, Unlink(D)
    PROVE  definition' \in Catalogue /\ row' \in [Rows -> ProgressRows \cup {None}]
<1>1. ASSUME NEW r \in Rows, row[r] # None PROVE [row[r] EXCEPT !.definition = None] \in ProgressRows
  <2>1. row[r] \in ProgressRows
    BY <1>1 DEF TypeOK
  <2> QED
    BY <2>1 DEF ProgressRows
<1> QED
  BY <1>1 DEF TypeOK, Unlink, Catalogue

\* Every step keeps the types of what it changes.
LEMMA TypeStep ==
    ASSUME TypeOK, [Next]_vars
    PROVE  TypeOK'
<1> USE DEF TypeOK
<1>1. ASSUME NEW t \in Templates, Start(t), UNCHANGED changes PROVE TypeOK'
  <2>1. packet' \in Packets
    BY <1>1 DEF Start, Packets
  <2>2. row' \in [Rows -> ProgressRows \cup {None}]
    <3>1. PICK of \in [OfTemplate(t) -> Rows], recorded \in SUBSET OfTemplate(t) :
            row' = StartRows(t, of, recorded)
      BY <1>1 DEF Start
    <3>2. ASSUME NEW d \in OfTemplate(t) PROVE Made(d, definition[d].form, d \in recorded) \in ProgressRows
      <4>1. d \in Definitions /\ definition[d].form \in Forms
        BY DEF Catalogue, OfTemplate
      <4>2. (d \in recorded) \in BOOLEAN
        OBVIOUS
      <4> QED
        BY <4>1, <4>2, MadeType
    <3> QED
      BY <3>1, <3>2 DEF StartRows
  <2> QED
    BY <1>1, <2>1, <2>2 DEF Start
<1>2. ASSUME NEW q \in Requests, NEW t \in Templates \cup {None}, BeginResync(q, t), UNCHANGED changes
      PROVE TypeOK'
  <2>1. [op |-> "resync", template |-> t] \in Jobs
    BY DEF Jobs
  <2> QED
    BY <1>2, <2>1, SetJob DEF BeginResync, Begin
<1>3. ASSUME NEW q \in Requests, LockPacket(q), UNCHANGED changes PROVE TypeOK'
  <2> DEFINE t == IF job[q].template = None THEN packet.template ELSE job[q].template
             j == [op |-> "locked", template |-> t, old |-> packet.template]
  <2>1. packet.template \in Templates \cup {None} /\ t \in Templates
    BY <1>3 DEF LockPacket, Packets
  <2>2. j \in Jobs
    BY <2>1 DEF Jobs
  <2>3. job' = [job EXCEPT ![q] = j]
    BY <1>3 DEF LockPacket
  <2> HIDE DEF j
  <2> QED
    BY <1>3, <2>2, <2>3, SetJob DEF LockPacket
<1>4. ASSUME NEW q \in Requests, LockSteps(q), UNCHANGED changes PROVE TypeOK'
  <2> DEFINE seen == [d \in Definitions |->
               IF d \in OfTemplate(job[q].template) THEN definition[d] ELSE None]
             j == [op |-> "read", template |-> job[q].template, old |-> job[q].old,
                   catalogue |-> seen, rows |-> row]
  <2>1. job[q] \in LockedJobs
    BY <1>4, JobShape DEF LockSteps
  <2>2. seen \in Catalogue
    BY DEF Catalogue
  <2>3. j \in Jobs
    <3> HIDE DEF seen
    <3> QED
      BY <2>1, <2>2 DEF Jobs, LockedJobs
  <2>4. job' = [job EXCEPT ![q] = j]
    BY <1>4 DEF LockSteps
  <2> HIDE DEF j
  <2> QED
    BY <1>4, <2>3, <2>4, SetJob DEF LockSteps
<1>5. ASSUME NEW q \in Requests, Commit(q), UNCHANGED changes PROVE TypeOK'
  <2> DEFINE j == job[q]
  <2>1. j \in ReadJobs
    BY <1>5, JobShape DEF Commit
  <2>2. packet' \in Packets
    BY <1>5, <2>1 DEF Commit, Packets, ReadJobs
  <2>3. PICK match \in [Selected(j) -> Rows] :
          /\ \A d \in Selected(j) : j.rows[match[d]] # None => row[match[d]] # None
          /\ row' = ReconciledRows(j, match)
    BY <1>5 DEF Commit
  <2>4. ASSUME NEW d \in Selected(j) PROVE d \in Definitions /\ j.catalogue[d].form \in Forms
    BY <2>1 DEF Selected, ReadJobs, Catalogue
  <2>5. ASSUME NEW d \in Selected(j), NEW r \in Rows, match[d] = r
        PROVE  (IF j.rows[r] = None THEN Made(d, j.catalogue[d].form, FALSE)
                ELSE Refreshed(row[r], j.rows[r], d, j.catalogue[d].form)) \in ProgressRows
    <3>1. CASE j.rows[r] = None
      BY <3>1, <2>4, MadeType
    <3>2. CASE j.rows[r] # None
      <4>1. row[r] \in ProgressRows
        BY <2>3, <2>5, <3>2
      <4> QED
        BY <3>2, <4>1, <2>4, RefreshedType
    <3> QED
      BY <3>1, <3>2
  <2>6. ASSUME NEW r \in Rows PROVE Unmatched(row[r]) \in ProgressRows \cup {None}
    BY DEF Unmatched, ProgressRows
  <2>7. row' \in [Rows -> ProgressRows \cup {None}]
    <3> HIDE DEF j
    <3>1. ASSUME NEW r \in Rows PROVE row'[r] \in ProgressRows \cup {None}
      <4>1. CASE \E d \in Selected(j) : match[d] = r
        <5>1. PICK d \in Selected(j) :
                /\ match[d] = r
                /\ row'[r] = IF j.rows[r] = None THEN Made(d, j.catalogue[d].form, FALSE)
                             ELSE Refreshed(row[r], j.rows[r], d, j.catalogue[d].form)
          BY <2>3, <4>1 DEF ReconciledRows
        <5> QED
          BY <5>1, <2>5
      <4>2. CASE ~ \E d \in Selected(j) : match[d] = r
        BY <2>3, <2>6, <4>2 DEF ReconciledRows
      <4> QED
        BY <4>1, <4>2
    <3> QED
      BY <2>3, <3>1 DEF ReconciledRows
  <2> QED
    BY <1>5, <2>2, <2>7, FinishType DEF Commit
<1>6. ASSUME NEW q \in Requests, NEW r \in Rows, NEW done \in BOOLEAN, BeginToggle(q, r, done), UNCHANGED changes
      PROVE TypeOK'
  <2>1. [op |-> "edit", row |-> r, done |-> done, stage |-> None] \in Jobs
    BY DEF Jobs
  <2> QED
    BY <1>6, <2>1, SetJob DEF BeginToggle, Begin
<1>7. ASSUME NEW q \in Requests, NEW r \in Rows, NEW s \in Stages, BeginAdvance(q, r, s), UNCHANGED changes
      PROVE TypeOK'
  <2> DEFINE stages == row[r].form.stages
             last == s = stages[Len(stages)]
  <2>1. [op |-> "edit", row |-> r, done |-> last, stage |-> s] \in Jobs
    <3>1. last \in BOOLEAN
      OBVIOUS
    <3> QED
      BY <3>1, Zenon DEF Jobs
  <2>2. job' = [job EXCEPT ![q] = [op |-> "edit", row |-> r, done |-> last, stage |-> s]]
    BY <1>7 DEF BeginAdvance, Begin
  <2> QED
    BY <1>7, <2>1, <2>2, SetJob DEF BeginAdvance
<1>8. ASSUME NEW q \in Requests, SaveEdit(q), UNCHANGED changes PROVE TypeOK'
  <2>1. job[q] \in EditJobs
    BY <1>8, JobShape DEF SaveEdit
  <2>2. row[job[q].row] \in ProgressRows
    BY <1>8, <2>1 DEF SaveEdit, EditJobs
  <2>3. row' \in [Rows -> ProgressRows \cup {None}]
    BY <1>8, <2>1, <2>2 DEF SaveEdit, EditJobs, ProgressRows
  <2> QED
    BY <1>8, <2>3, FinishType DEF SaveEdit
<1>9. ASSUME NEW q \in Requests, NEW r \in Rows, BeginRemove(q, r), UNCHANGED changes PROVE TypeOK'
  <2>1. [op |-> "remove", row |-> r] \in Jobs
    BY DEF Jobs
  <2> QED
    BY <1>9, <2>1, SetJob DEF BeginRemove, Begin
<1>10. ASSUME NEW q \in Requests, Remove(q), UNCHANGED changes PROVE TypeOK'
  BY <1>10, FinishType DEF Remove
<1>11. ASSUME NEW q \in Requests, BeginExpire(q), UNCHANGED changes PROVE TypeOK'
  <2>1. [op |-> "expire", status |-> packet.status] \in Jobs
    BY <1>11 DEF Jobs, BeginExpire
  <2> QED
    BY <1>11, <2>1, SetJob DEF BeginExpire, Begin
<1>12. ASSUME NEW q \in Requests, Expire(q), UNCHANGED changes PROVE TypeOK'
  <2>1. packet' \in Packets
    BY <1>12 DEF Expire, Packets
  <2> QED
    BY <1>12, <2>1, FinishType DEF Expire
<1>13. ASSUME NEW q \in Requests, GiveUp(q), UNCHANGED changes PROVE TypeOK'
  BY <1>13, FinishType DEF GiveUp
<1>14. ASSUME NEW to \in {"in_progress"} \cup Finished, Move(to), UNCHANGED changes PROVE TypeOK'
  BY <1>14 DEF Move, Packets
<1>15. ASSUME Age, UNCHANGED changes PROVE TypeOK'
  BY <1>15 DEF Age, Packets
<1>16. ASSUME CatalogueNext, changes < MaxChanges, changes' = changes + 1 PROVE TypeOK'
  <2>0. changes' \in 0 .. MaxChanges
    BY <1>16, OnboardingPacketAssumption
  <2>1. ASSUME NEW t \in Templates, CreateTemplate(t) PROVE TypeOK'
    BY <2>0, <2>1 DEF CreateTemplate
  <2>2. ASSUME NEW t \in Templates, DeleteTemplate(t) PROVE TypeOK'
    <3>1. packet' \in Packets
      BY <2>2 DEF DeleteTemplate, Packets
    <3>2. definition' \in Catalogue /\ row' \in [Rows -> ProgressRows \cup {None}]
      BY <2>2, UnlinkType DEF DeleteTemplate, OfTemplate
    <3> QED
      BY <2>0, <2>2, <3>1, <3>2 DEF DeleteTemplate
  <2>3. ASSUME NEW d \in Definitions, NEW f \in Forms, CreateDefinition(d, f) PROVE TypeOK'
    <3>1. [template |-> Home[d], form |-> f] \in [template : Templates, form : Forms]
      BY OnboardingPacketAssumption
    <3>2. definition' \in Catalogue
      BY <2>3, <3>1 DEF CreateDefinition, Catalogue
    <3> QED
      BY <2>0, <2>3, <3>2 DEF CreateDefinition
  <2>4. ASSUME NEW d \in Definitions, NEW f \in Forms, EditDefinition(d, f) PROVE TypeOK'
    <3>1. definition[d] \in [template : Templates, form : Forms]
      BY <2>4 DEF EditDefinition, Catalogue
    <3>2. definition' \in Catalogue
      BY <2>4, <3>1 DEF EditDefinition, Catalogue
    <3> QED
      BY <2>0, <2>4, <3>2 DEF EditDefinition
  <2>5. ASSUME NEW d \in Definitions, NEW t \in Templates, MoveDefinition(d, t) PROVE TypeOK'
    <3>1. definition[d] \in [template : Templates, form : Forms]
      BY <2>5 DEF MoveDefinition, Catalogue
    <3>2. definition' \in Catalogue
      BY <2>5, <3>1 DEF MoveDefinition, Catalogue
    <3> QED
      BY <2>0, <2>5, <3>2 DEF MoveDefinition
  <2>6. ASSUME NEW d \in Definitions, DeleteDefinition(d) PROVE TypeOK'
    BY <2>0, <2>6, UnlinkType DEF DeleteDefinition
  <2>7. ASSUME ClearTemplate PROVE TypeOK'
    BY <2>0, <2>7 DEF ClearTemplate, Packets
  <2>8. ASSUME SwitchTraining PROVE TypeOK'
    BY <2>0, <2>8 DEF SwitchTraining
  <2>9. ASSUME NEW r \in Rows, AppendNote(r) PROVE TypeOK'
    <3>1. row[r] \in ProgressRows
      BY <2>9 DEF AppendNote
    <3>2. row' \in [Rows -> ProgressRows \cup {None}]
      BY <2>9, <3>1, OnboardingPacketAssumption DEF AppendNote, ProgressRows
    <3> QED
      BY <2>0, <2>9, <3>2 DEF AppendNote
  <2> QED
    BY <1>16, <2>1, <2>2, <2>3, <2>4, <2>5, <2>6, <2>7, <2>8, <2>9 DEF CatalogueNext
<1>17. CASE UNCHANGED vars
  BY <1>17 DEF vars
<1> QED
  BY <1>1, <1>2, <1>3, <1>4, <1>5, <1>6, <1>7, <1>8, <1>9, <1>10, <1>11, <1>12, <1>13,
     <1>14, <1>15, <1>16, <1>17
  DEF Next, PacketNext

-----------------------------------------------------------------------------
(* What each step keeps *)

\* Requests come and go, and the catalogue changes, with the packet and its
\* rows left alone.
LEMMA Aside ==
    ASSUME IInv, row' = row, packet' = packet, moved \subseteq moved',
           \A q \in Requests : job'[q] = job[q] \/ job'[q].op \notin Holding,
           \A d \in Definitions \ moved' :
              definition'[d] # None => definition'[d].template = Home[d]
    PROVE  Rules'
<1>1. OneRowPerDefinition' /\ StageFitsForm' /\ OnlySelectedActive' /\ NoPacketNoRows'
  BY DEF IInv, Rules, OneRowPerDefinition, StageFitsForm, OnlySelectedActive, NoPacketNoRows
<1>2. OneHolder' /\ Held'
  BY DEF IInv, Rules, OneHolder, Held, Holding
<1>3. NeverMoved'
  <2>1. ASSUME NEW q \in Requests, job'[q].op = "read", NEW d \in Selected(job'[q]) \ moved'
        PROVE  job'[q].template = Home[d]
    <3>1. job'[q] = job[q]
      BY <2>1 DEF Holding
    <3> QED
      BY <2>1, <3>1 DEF IInv, Rules, NeverMoved
  <2> QED
    BY <2>1 DEF NeverMoved
<1> QED
  BY <1>1, <1>2, <1>3 DEF Rules

\* The packet's row changes while no resync holds it.
LEMMA PacketAlone ==
    ASSUME IInv, row' = row, PacketFree, UNCHANGED <<definition, moved, job>>,
           packet'.template \in {packet.template, None},
           packet'.status \in {"none", "gone"} => packet.status \in {"none", "gone"}
    PROVE  Rules'
<1>1. OneRowPerDefinition' /\ StageFitsForm' /\ NoPacketNoRows'
  BY DEF IInv, Rules, OneRowPerDefinition, StageFitsForm, NoPacketNoRows
<1>2. OnlySelectedActive'
  BY DEF IInv, Rules, OnlySelectedActive
<1>3. OneHolder' /\ Held'
  BY DEF IInv, Rules, OneHolder, Held, Holding, PacketFree
<1>4. NeverMoved'
  BY DEF IInv, Rules, NeverMoved, Selected
<1> QED
  BY <1>1, <1>2, <1>3, <1>4 DEF Rules

\* One row that no resync holds is edited or deleted.
LEMMA RowAlone ==
    ASSUME IInv, NEW r \in Rows, row[r] # None, StepFree(r),
           NEW new, row' = [row EXCEPT ![r] = new],
           new # None =>
              /\ new.definition = row[r].definition
              /\ new.active = row[r].active /\ new.form = row[r].form
              /\ HasStages(new.form) => new.stage \in StagesOf(new.form) \cup {None},
           UNCHANGED <<packet, definition, moved>>,
           \A q \in Requests : job'[q] = job[q] \/ job'[q].op \notin Holding
    PROVE  Rules'
<1> USE DEF IInv, TypeOK
<1>1. \A s \in Rows : row'[s] = IF s = r THEN new ELSE row[s]
  OBVIOUS
<1>2. OneRowPerDefinition'
  BY <1>1 DEF Rules, OneRowPerDefinition
<1>3. StageFitsForm'
  BY <1>1 DEF Rules, StageFitsForm
<1>4. OnlySelectedActive'
  BY <1>1 DEF Rules, OnlySelectedActive
<1>5. OneHolder'
  BY DEF Rules, OneHolder, Holding
<1>6. Held'
  <2>1. ASSUME NEW q \in Requests, job'[q].op = "read" PROVE FALSE
    BY <2>1 DEF Rules, Held, StepFree, Holding
  <2> QED
    BY <2>1 DEF Rules, Held, Holding
<1>7. NeverMoved'
  <2>1. ASSUME NEW q \in Requests, job'[q].op = "read" PROVE job'[q] = job[q]
    BY <2>1 DEF Holding
  <2> QED
    BY <2>1 DEF Rules, NeverMoved, Selected
<1>8. NoPacketNoRows'
  BY <1>1 DEF Rules, NoPacketNoRows
<1> QED
  BY <1>2, <1>3, <1>4, <1>5, <1>6, <1>7, <1>8 DEF Rules

\* Rows lose their definition while no resync holds them.
LEMMA UnlinkKeeps ==
    ASSUME IInv, NEW D \in SUBSET Definitions, Unlink(D), UNCHANGED <<moved, job>>,
           \/ packet' = packet
           \/ PacketFree /\ packet' = [packet EXCEPT !.template = None]
    PROVE  Rules'
<1> USE DEF IInv, TypeOK
<1>1. \A r \in Rows : row'[r] = IF row[r] # None /\ row[r].definition \in D
                               THEN [row[r] EXCEPT !.definition = None] ELSE row[r]
  BY DEF Unlink
<1>2. ASSUME NEW r \in Rows, row'[r] # None
      PROVE  /\ row[r] # None
             /\ row'[r].form = row[r].form /\ row'[r].active = row[r].active
             /\ row'[r].stage = row[r].stage
             /\ row'[r].definition \in {row[r].definition, None}
  <2>1. row[r] # None => row[r] \in ProgressRows
    OBVIOUS
  <2> QED
    BY <1>1, <1>2, <2>1 DEF ProgressRows
<1>3. packet' \in Packets /\ packet'.status = packet.status /\ packet'.template \in {packet.template, None}
  BY DEF Packets
<1>4. OneRowPerDefinition'
  BY <1>2 DEF Rules, OneRowPerDefinition
<1>5. StageFitsForm'
  BY <1>2 DEF Rules, StageFitsForm
<1>6. OnlySelectedActive'
  BY <1>2, <1>3, NoneIsNothing DEF Rules, OnlySelectedActive
<1>7. OneHolder'
  BY DEF Rules, OneHolder
<1>8. Held'
  <2>1. ASSUME NEW q \in Requests, job[q].op \in Holding PROVE packet' = packet
    BY <2>1 DEF PacketFree, Holding
  <2>2. ASSUME NEW q \in Requests, job[q].op = "read" PROVE row' = row
    <3>1. \A r \in Rows : ~(row[r] # None /\ row[r].definition \in D)
      BY <2>2 DEF Unlink, StepFree, Rules, Held
    <3> QED
      BY <3>1 DEF Unlink
  <2> QED
    BY <2>1, <2>2 DEF Rules, Held
<1>9. NeverMoved'
  <2>1. \A d \in Definitions : definition'[d] \in {definition[d], None}
    BY DEF Unlink
  <2> QED
    BY <2>1 DEF Rules, NeverMoved, Selected
<1>10. NoPacketNoRows'
  BY <1>2, <1>3 DEF Rules, NoPacketNoRows
<1> QED
  BY <1>4, <1>5, <1>6, <1>7, <1>8, <1>9, <1>10 DEF Rules

\* A packet starts with one active row for each definition of its template.
LEMMA StartKeeps ==
    ASSUME IInv, NEW t \in Templates, Start(t)
    PROVE  Rules'
<1> USE DEF IInv, TypeOK
<1>1. PICK of \in [OfTemplate(t) -> Rows], recorded \in SUBSET OfTemplate(t) :
        row' = StartRows(t, of, recorded)
  BY DEF Start
<1>2. ASSUME NEW r \in Rows, row'[r] # None
      PROVE  \E d \in OfTemplate(t) :
               /\ of[d] = r /\ row'[r].definition = d
               /\ HasStages(row'[r].form) => row'[r].stage \in StagesOf(row'[r].form)
  <2>1. PICK d \in OfTemplate(t) : of[d] = r /\ row'[r] = Made(d, definition[d].form, d \in recorded)
    BY <1>1, <1>2 DEF StartRows
  <2>2. definition[d].form \in Forms
    BY DEF OfTemplate, Catalogue
  <2> QED
    BY <2>1, <2>2, FirstStage DEF Made
<1>4. OneRowPerDefinition'
  BY <1>2 DEF OneRowPerDefinition
<1>5. StageFitsForm'
  BY <1>2 DEF StageFitsForm
<1>6. OnlySelectedActive'
  <2>1. \A d \in OfTemplate(t) \ moved : Home[d] = t
    BY DEF OfTemplate, Rules, NeverMoved
  <2>2. packet'.template = t /\ moved' = moved
    BY DEF Start
  <2> QED
    BY <1>2, <2>1, <2>2 DEF OnlySelectedActive
<1>7. \A q \in Requests : job[q].op \notin Holding
  BY DEF Start, Rules, Held
<1>8. OneHolder' /\ Held' /\ NeverMoved'
  <2>1. UNCHANGED <<job, definition, moved>>
    BY DEF Start
  <2> QED
    BY <1>7, <2>1 DEF OneHolder, Held, NeverMoved, Rules, Holding
<1>9. NoPacketNoRows'
  BY DEF Start, NoPacketNoRows
<1> QED
  BY <1>4, <1>5, <1>6, <1>8, <1>9 DEF Rules

\* A resync takes a packet that no other holds.
LEMMA LockPacketKeeps ==
    ASSUME IInv, NEW q \in Requests, LockPacket(q)
    PROVE  Rules'
<1> USE DEF IInv, TypeOK
<1>1. UNCHANGED <<packet, templates, definition, moved, row>> /\ packet.status = "in_progress"
  BY DEF LockPacket
<1>2. \A p \in Requests : job[p].op \notin Holding
  BY DEF LockPacket, PacketFree, Holding
<1>3. job'[q].op = "locked" /\ job'[q].old = packet.template /\ \A p \in Requests \ {q} : job'[p] = job[p]
  BY DEF LockPacket
<1>4. OneRowPerDefinition' /\ StageFitsForm' /\ OnlySelectedActive' /\ NoPacketNoRows'
  BY <1>1 DEF Rules, OneRowPerDefinition, StageFitsForm, OnlySelectedActive, NoPacketNoRows
<1>5. OneHolder' /\ Held'
  BY <1>1, <1>2, <1>3 DEF OneHolder, Held, Holding
<1>6. NeverMoved'
  BY <1>1, <1>2, <1>3 DEF Rules, NeverMoved, Holding
<1> QED
  BY <1>4, <1>5, <1>6 DEF Rules

\* It reads the rows and the catalogue under that lock.
LEMMA LockStepsKeeps ==
    ASSUME IInv, NEW q \in Requests, LockSteps(q)
    PROVE  Rules'
<1> USE DEF IInv, TypeOK
<1>1. UNCHANGED <<packet, templates, definition, moved, row>> /\ job[q].op = "locked"
  BY DEF LockSteps
<1>2. /\ job'[q].op = "read" /\ job'[q].old = job[q].old /\ job'[q].rows = row
      /\ job'[q].template = job[q].template
      /\ job'[q].catalogue = [d \in Definitions |->
            IF d \in OfTemplate(job[q].template) THEN definition[d] ELSE None]
      /\ \A p \in Requests \ {q} : job'[p] = job[p]
  BY DEF LockSteps
<1>3. OneRowPerDefinition' /\ StageFitsForm' /\ OnlySelectedActive' /\ NoPacketNoRows'
  BY <1>1 DEF Rules, OneRowPerDefinition, StageFitsForm, OnlySelectedActive, NoPacketNoRows
<1>4. OneHolder'
  BY <1>1, <1>2 DEF Rules, OneHolder, Holding
<1>5. Held'
  BY <1>1, <1>2 DEF Rules, Held, Holding
<1>6. NeverMoved'
  <2>1. \A d \in Selected(job'[q]) : d \in OfTemplate(job[q].template)
    BY <1>2 DEF Selected
  <2>2. \A d \in Selected(job'[q]) \ moved : job'[q].template = Home[d]
    BY <1>2, <2>1 DEF OfTemplate, Rules, NeverMoved
  <2>3. \A p \in Requests \ {q} : job'[p].op = "read" =>
          \A d \in Selected(job'[p]) \ moved : job'[p].template = Home[d]
    BY <1>2 DEF Rules, NeverMoved
  <2> QED
    BY <1>1, <2>2, <2>3 DEF Rules, NeverMoved
<1> QED
  BY <1>3, <1>4, <1>5, <1>6 DEF Rules

\* What a resync writes: each row it leaves is the refreshed or new row of one of
\* the definitions it read, or an old row of another, no longer active.
LEMMA CommitRows ==
    ASSUME IInv, NEW q \in Requests, Commit(q), NEW r \in Rows, row'[r] # None
    PROVE  \/ \E d \in Selected(job[q]) :
                /\ row'[r].definition = d /\ row'[r].form = job[q].catalogue[d].form
                /\ HasStages(row'[r].form) => row'[r].stage \in StagesOf(row'[r].form) \cup {None}
                /\ \A s \in Rows : row[s] # None /\ row[s].definition = d => s = r
                /\ \A s \in Rows : row'[s] # None /\ row'[s].definition = d => s = r
           \/ /\ row[r] # None /\ ~row'[r].active
              /\ row'[r].definition = row[r].definition /\ row'[r].form = row[r].form
              /\ row'[r].stage = row[r].stage
              /\ row[r].definition \notin Selected(job[q])
<1> USE DEF IInv, TypeOK
<1> DEFINE j == job[q]
<1>1. j \in ReadJobs /\ j.rows = row
  BY JobShape DEF Commit, Rules, Held
<1>2. PICK match \in [Selected(j) -> Rows] : Matches(j, match) /\ row' = ReconciledRows(j, match)
  BY DEF Commit
<1>3. ASSUME NEW d \in Selected(j) PROVE d \in Definitions /\ j.catalogue[d].form \in Forms
  BY <1>1 DEF Selected, ReadJobs, Catalogue
<1> HIDE DEF j
<1>4. ASSUME NEW d \in Selected(j), NEW s \in Rows, row[s] # None, row[s].definition = d
      PROVE  match[d] = s
  <2>1. s \in Linked(j, d)
    BY <1>1, <1>4 DEF Linked
  <2>2. match[d] \in Linked(j, d)
    BY <1>2, <2>1 DEF Matches
  <2>3. row[match[d]] # None /\ row[match[d]].definition = d
    BY <1>1, <2>2 DEF Linked
  <2>4. match[d] \in Rows /\ d # None
    BY <1>3, NoneIsNothing
  <2> QED
    BY <1>4, <2>3, <2>4 DEF Rules, OneRowPerDefinition
<1>5. ASSUME NEW s \in Rows, NEW d \in Selected(j), match[d] = s
      PROVE  row'[s] = IF row[s] = None THEN Made(d, j.catalogue[d].form, FALSE)
                       ELSE Refreshed(row[s], row[s], d, j.catalogue[d].form)
  <2>1. PICK e \in Selected(j) :
          match[e] = s /\ row'[s] = IF row[s] = None THEN Made(e, j.catalogue[e].form, FALSE)
                                   ELSE Refreshed(row[s], row[s], e, j.catalogue[e].form)
    BY <1>1, <1>2, <1>5 DEF ReconciledRows
  <2>2. e = d
    BY <1>2, <1>5, <2>1 DEF Matches
  <2> QED
    BY <2>1, <2>2
<1>6. ASSUME NEW s \in Rows, NEW d \in Selected(j), match[d] = s
      PROVE  /\ row'[s].definition = d /\ row'[s].form = j.catalogue[d].form
             /\ HasStages(row'[s].form) => row'[s].stage \in StagesOf(row'[s].form) \cup {None}
  <2> DEFINE f == j.catalogue[d].form
  <2>1. f \in Forms
    BY <1>3
  <2> HIDE DEF f
  <2>2. CASE row[s] = None
    <3>1. row'[s] = Made(d, f, FALSE)
      BY <1>5, <1>6, <2>2 DEF f
    <3> QED
      BY <3>1, <2>1, FirstStage DEF Made, f
  <2>3. CASE row[s] # None
    <3>1. row'[s] = Refreshed(row[s], row[s], d, f) /\ row[s] \in ProgressRows
      BY <1>5, <1>6, <2>3 DEF f
    <3>2. /\ row'[s].definition = d /\ row'[s].form = f
          /\ HasStages(f) => row'[s].stage \in StagesOf(f) \cup {None}
      BY <3>1, <2>1, FirstStage DEF Refreshed, ProgressRows
    <3> QED
      BY <3>2 DEF f
  <2> QED
    BY <2>2, <2>3
<1>7. ASSUME NEW s \in Rows, row'[s] # None, ~ \E d \in Selected(j) : match[d] = s
      PROVE  /\ row[s] # None /\ ~row'[s].active
             /\ row'[s].definition = row[s].definition /\ row'[s].form = row[s].form
             /\ row'[s].stage = row[s].stage
  <2>1. row'[s] = Unmatched(row[s])
    BY <1>2, <1>7 DEF ReconciledRows
  <2>2. row[s] # None /\ row[s] \in ProgressRows
    BY <1>7, <2>1 DEF Unmatched
  <2> QED
    BY <2>1, <2>2 DEF Unmatched, ProgressRows
<1>8. CASE \E d \in Selected(j) : match[d] = r
  <2>1. PICK d \in Selected(j) : match[d] = r
    BY <1>8
  <2>2. ASSUME NEW s \in Rows, row'[s] # None, row'[s].definition = d PROVE s = r
    <3>1. CASE \E e \in Selected(j) : match[e] = s
      BY <3>1, <1>6, <2>1, <2>2
    <3>2. CASE ~ \E e \in Selected(j) : match[e] = s
      BY <3>2, <1>7, <1>4, <2>1, <2>2
    <3> QED
      BY <3>1, <3>2
  <2> QED
    BY <2>1, <2>2, <1>4, <1>6 DEF j
<1>9. CASE ~ \E d \in Selected(j) : match[d] = r
  BY <1>7, <1>4, <1>9 DEF j
<1> QED
  BY <1>8, <1>9

\* So it leaves one row for each definition and active ones only of its template.
LEMMA CommitKeeps ==
    ASSUME IInv, NEW q \in Requests, Commit(q)
    PROVE  Rules'
<1> USE DEF IInv, TypeOK
<1>1. /\ packet'.template = job[q].template /\ packet'.status = packet.status
      /\ packet.status = "in_progress"
  BY DEF Commit, Packets, Rules, Held, Holding
<1>2. UNCHANGED <<definition, moved>> /\ job[q].op = "read" /\ job[q] \in ReadJobs
  BY JobShape DEF Commit
<1>3. job'[q].op = "idle" /\ \A p \in Requests \ {q} : job'[p] = job[p] /\ job[p].op \notin Holding
  BY <1>2 DEF Commit, Finish, Rules, OneHolder, Holding
<1>4. OneRowPerDefinition'
  <2>1. ASSUME NEW r \in Rows, NEW s \in Rows, row'[r] # None, row'[s] # None,
               row'[r].definition # None, row'[r].definition = row'[s].definition
        PROVE  r = s
    BY <2>1, CommitRows DEF Rules, OneRowPerDefinition
  <2> QED
    BY <2>1 DEF OneRowPerDefinition
<1>5. StageFitsForm'
  <2>1. ASSUME NEW r \in Rows, row'[r] # None, HasStages(row'[r].form)
        PROVE  row'[r].stage \in StagesOf(row'[r].form) \cup {None}
    BY <2>1, CommitRows DEF Rules, StageFitsForm
  <2> QED
    BY <2>1 DEF StageFitsForm
<1>6. OnlySelectedActive'
  <2>1. ASSUME NEW r \in Rows, row'[r] # None, row'[r].active,
               row'[r].definition \in Definitions \ moved
        PROVE  job[q].template = Home[row'[r].definition]
    <3>1. row'[r].definition \in Selected(job[q]) \ moved
      BY <2>1, CommitRows
    <3> QED
      BY <3>1, <1>2 DEF Rules, NeverMoved
  <2> QED
    BY <2>1, <1>1, <1>2 DEF OnlySelectedActive
<1>7. OneHolder' /\ Held' /\ NeverMoved'
  BY <1>2, <1>3 DEF OneHolder, Held, Rules, NeverMoved, Holding
<1>8. NoPacketNoRows'
  BY <1>1 DEF NoPacketNoRows
<1> QED
  BY <1>4, <1>5, <1>6, <1>7, <1>8 DEF Rules

\* An expired packet takes all its rows with it, and no resync holds it.
LEMMA ExpireKeeps ==
    ASSUME IInv, NEW q \in Requests, Expire(q)
    PROVE  Rules'
<1> USE DEF IInv, TypeOK
<1>1. /\ \A r \in Rows : row'[r] = None
      /\ UNCHANGED <<definition, moved>> /\ \A p \in Requests : job[p].op \notin Holding
      /\ \A p \in Requests : job'[p] = job[p] \/ job'[p].op \notin Holding
  BY DEF Expire, Finish, PacketFree, Holding
<1>2. OneRowPerDefinition' /\ StageFitsForm' /\ OnlySelectedActive' /\ NoPacketNoRows'
  BY <1>1 DEF OneRowPerDefinition, StageFitsForm, OnlySelectedActive, NoPacketNoRows
<1>3. OneHolder' /\ Held' /\ NeverMoved'
  BY <1>1 DEF OneHolder, Held, Rules, NeverMoved, Holding
<1> QED
  BY <1>2, <1>3 DEF Rules

\* A request that begins or ends holds nothing afterwards.
LEMMA NotHolding ==
    ASSUME TypeOK, NEW q \in Requests, NEW j, j.op \notin Holding, job' = [job EXCEPT ![q] = j]
    PROVE  \A p \in Requests : job'[p] = job[p] \/ job'[p].op \notin Holding
BY DEF TypeOK

\* An edit that the trigger lets through fits the step it lands on.
LEMMA SaveEditKeeps ==
    ASSUME IInv, NEW q \in Requests, SaveEdit(q)
    PROVE  Rules'
<1> USE DEF IInv, TypeOK
<1> DEFINE r == job[q].row
           new == [row[r] EXCEPT !.done = job[q].done,
                                 !.stage = IF job[q].stage = None THEN @ ELSE job[q].stage]
<1>1. r \in Rows /\ row[r] # None /\ row[r] \in ProgressRows
  BY JobShape DEF SaveEdit, EditJobs
<1>2. Fits(row[r], new) /\ StepFree(r) /\ row' = [row EXCEPT ![r] = new]
  BY DEF SaveEdit
<1>3. /\ new.definition = row[r].definition
      /\ new.active = row[r].active /\ new.form = row[r].form
  BY <1>1 DEF ProgressRows
<1>4. HasStages(new.form) => new.stage \in StagesOf(new.form) \cup {None}
  <2> HIDE DEF new
  <2>1. HasStages(row[r].form) => row[r].stage \in StagesOf(row[r].form) \cup {None}
    BY <1>1 DEF Rules, StageFitsForm
  <2> QED
    BY <1>2, <1>3, <2>1 DEF Fits
<1>5. UNCHANGED <<packet, definition, moved>>
  BY DEF SaveEdit
<1>6. \A p \in Requests : job'[p] = job[p] \/ job'[p].op \notin Holding
  BY DEF SaveEdit, Finish, Holding
<1> HIDE DEF r, new
<1> QED
  BY <1>1, <1>2, <1>3, <1>4, <1>5, <1>6, RowAlone

\* Every step keeps the rules.
LEMMA RulesStep ==
    ASSUME IInv, [Next]_vars
    PROVE  Rules'
<1> USE DEF IInv
<1>1. ASSUME NEW t \in Templates, Start(t) PROVE Rules'
  BY <1>1, StartKeeps
<1>2. ASSUME NEW q \in Requests, LockPacket(q) PROVE Rules'
  BY <1>2, LockPacketKeeps
<1>3. ASSUME NEW q \in Requests, LockSteps(q) PROVE Rules'
  BY <1>3, LockStepsKeeps
<1>4. ASSUME NEW q \in Requests, Commit(q) PROVE Rules'
  BY <1>4, CommitKeeps
<1>5. ASSUME NEW q \in Requests, SaveEdit(q) PROVE Rules'
  BY <1>5, SaveEditKeeps
<1>6. ASSUME NEW q \in Requests, Expire(q) PROVE Rules'
  BY <1>6, ExpireKeeps
<1>7. ASSUME NEW q \in Requests,
             \/ \E t \in Templates \cup {None} : BeginResync(q, t)
             \/ \E r \in Rows : \/ \E done \in BOOLEAN : BeginToggle(q, r, done)
                                \/ \E s \in Stages : BeginAdvance(q, r, s)
                                \/ BeginRemove(q, r)
             \/ BeginExpire(q)
             \/ GiveUp(q)
      PROVE  Rules'
  <2>1. UNCHANGED <<packet, definition, moved, row>>
    BY <1>7 DEF BeginResync, BeginToggle, BeginAdvance, BeginRemove, BeginExpire, GiveUp
  <2>2. \E j : j.op \notin Holding /\ job' = [job EXCEPT ![q] = j]
    BY <1>7 DEF BeginResync, BeginToggle, BeginAdvance, BeginRemove, BeginExpire, GiveUp,
                Begin, Finish, Holding
  <2>3. \A p \in Requests : job'[p] = job[p] \/ job'[p].op \notin Holding
    BY <2>2, NotHolding
  <2> QED
    BY <2>1, <2>3, Aside DEF Rules, NeverMoved
<1>8. ASSUME NEW q \in Requests, Remove(q) PROVE Rules'
  <2> DEFINE r == job[q].row
  <2>1. r \in Rows /\ row[r] # None /\ StepFree(r) /\ row' = [row EXCEPT ![r] = None]
    BY <1>8, JobShape DEF Remove, RemoveJobs
  <2>2. \A p \in Requests : job'[p] = job[p] \/ job'[p].op \notin Holding
    BY <1>8, NotHolding DEF Remove, Finish, Holding
  <2>3. UNCHANGED <<packet, definition, moved>>
    BY <1>8 DEF Remove
  <2> HIDE DEF r
  <2> QED
    BY <2>1, <2>2, <2>3, RowAlone
<1>9. ASSUME NEW to \in {"in_progress"} \cup Finished, Move(to) PROVE Rules'
  <2>1. /\ packet'.template = packet.template
        /\ packet'.status \notin {"none", "gone"}
    BY <1>9 DEF Move, TypeOK, Packets, Finished
  <2> QED
    BY <1>9, <2>1, PacketAlone DEF Move
<1>10. ASSUME Age PROVE Rules'
  <2>1. packet'.template = packet.template /\ packet'.status = packet.status
    BY <1>10 DEF Age, TypeOK, Packets
  <2>2. PacketFree
    BY <1>10 DEF Age, Rules, Held, Holding, PacketFree, Finished
  <2> QED
    BY <1>10, <2>1, <2>2, PacketAlone DEF Age
<1>11. ASSUME CatalogueNext PROVE Rules'
  <2>1. ASSUME NEW t \in Templates, DeleteTemplate(t) PROVE Rules'
    <3>1. OfTemplate(t) \in SUBSET Definitions
      BY DEF OfTemplate
    <3> QED
      BY <2>1, <3>1, UnlinkKeeps DEF DeleteTemplate
  <2>2. ASSUME NEW d \in Definitions, DeleteDefinition(d) PROVE Rules'
    BY <2>2, UnlinkKeeps DEF DeleteDefinition
  <2>3. ASSUME NEW t \in Templates, CreateTemplate(t) PROVE Rules'
    BY <2>3, Aside DEF CreateTemplate, Rules, NeverMoved
  <2>4. ASSUME NEW d \in Definitions, NEW f \in Forms, CreateDefinition(d, f) PROVE Rules'
    <3>1. \A e \in Definitions \ moved' : definition'[e] # None => definition'[e].template = Home[e]
      BY <2>4 DEF CreateDefinition, Rules, NeverMoved, TypeOK, Catalogue
    <3> QED
      BY <2>4, <3>1, Aside DEF CreateDefinition
  <2>5. ASSUME NEW d \in Definitions, NEW f \in Forms, EditDefinition(d, f) PROVE Rules'
    <3>1. definition[d] \in [template : Templates, form : Forms]
      BY <2>5 DEF EditDefinition, TypeOK, Catalogue
    <3>2. \A e \in Definitions \ moved' : definition'[e] # None => definition'[e].template = Home[e]
      BY <2>5, <3>1 DEF EditDefinition, Rules, NeverMoved, TypeOK, Catalogue
    <3> QED
      BY <2>5, <3>2, Aside DEF EditDefinition
  <2>6. ASSUME NEW d \in Definitions, NEW t \in Templates, MoveDefinition(d, t) PROVE Rules'
    <3>1. \A e \in Definitions \ moved' : definition'[e] # None => definition'[e].template = Home[e]
      BY <2>6 DEF MoveDefinition, Rules, NeverMoved, TypeOK, Catalogue
    <3> QED
      BY <2>6, <3>1, Aside DEF MoveDefinition
  <2>7. ASSUME ClearTemplate PROVE Rules'
    <3>1. packet'.template = None /\ packet'.status = packet.status
      BY <2>7 DEF ClearTemplate, TypeOK, Packets
    <3> QED
      BY <2>7, <3>1, PacketAlone DEF ClearTemplate
  <2>8. ASSUME SwitchTraining PROVE Rules'
    BY <2>8, Aside DEF SwitchTraining, Rules, NeverMoved
  <2>9. ASSUME NEW r \in Rows, AppendNote(r) PROVE Rules'
    <3> DEFINE new == [row[r] EXCEPT !.notes = @ + 1]
    <3>1. row[r] \in ProgressRows /\ row[r] # None /\ StepFree(r) /\ row' = [row EXCEPT ![r] = new]
      BY <2>9 DEF AppendNote, TypeOK
    <3>2. /\ new.definition = row[r].definition /\ new.stage = row[r].stage
          /\ new.active = row[r].active /\ new.form = row[r].form
      BY <3>1 DEF ProgressRows
    <3> HIDE DEF new
    <3>3. HasStages(new.form) => new.stage \in StagesOf(new.form) \cup {None}
      BY <3>1, <3>2 DEF Rules, StageFitsForm
    <3>4. UNCHANGED <<packet, definition, moved, job>>
      BY <2>9 DEF AppendNote
    <3> QED
      BY <3>1, <3>2, <3>3, <3>4, RowAlone
  <2> QED
    BY <1>11, <2>1, <2>2, <2>3, <2>4, <2>5, <2>6, <2>7, <2>8, <2>9 DEF CatalogueNext
<1>12. CASE UNCHANGED vars
  BY <1>12, Aside DEF vars, Rules, NeverMoved
<1> QED
  BY <1>1, <1>2, <1>3, <1>4, <1>5, <1>6, <1>7, <1>8, <1>9, <1>10, <1>11, <1>12
  DEF Next, PacketNext

-----------------------------------------------------------------------------
(* Theorems *)

LEMMA InitRules ==
    ASSUME Init
    PROVE  IInv
<1>1. TypeOK
  <2>1. packet \in Packets
    BY DEF Init, Packets
  <2>2. definition \in Catalogue
    BY OnboardingPacketAssumption DEF Init, Catalogue
  <2>3. job \in [Requests -> Jobs]
    BY DEF Init, Jobs
  <2>4. changes \in 0 .. MaxChanges
    BY OnboardingPacketAssumption DEF Init
  <2> QED
    BY <2>1, <2>2, <2>3, <2>4 DEF Init, TypeOK
<1>2. OneRowPerDefinition /\ StageFitsForm /\ OnlySelectedActive /\ NoPacketNoRows
  BY DEF Init, OneRowPerDefinition, StageFitsForm, OnlySelectedActive, NoPacketNoRows
<1>3. OneHolder /\ Held
  BY DEF Init, OneHolder, Held, Holding
<1>4. NeverMoved
  BY DEF Init, NeverMoved
<1> QED
  BY <1>1, <1>2, <1>3, <1>4 DEF IInv, Rules

\* TypeOK and the rules are inductive.
THEOREM Invariance == Spec => []IInv
<1>1. Init => IInv
  BY InitRules
<1>2. IInv /\ [Next]_vars => IInv'
  BY TypeStep, RulesStep DEF IInv
<1> QED
  BY <1>1, <1>2, PTL DEF Spec

\* The state is always of its types: a row keeps its shape whatever resync,
\* edit or deletion was last.
THEOREM TypeCorrect == Spec => []TypeOK
<1>1. IInv => TypeOK
  BY DEF IInv
<1> QED
  BY <1>1, Invariance, PTL

\* However many resyncs and switches overlap, no definition has two rows.
THEOREM RowsAreUnique == Spec => []OneRowPerDefinition
<1>1. IInv => OneRowPerDefinition
  BY DEF IInv, Rules
<1> QED
  BY <1>1, Invariance, PTL

\* Paperwork is never at a stage that its step does not have.
THEOREM StagesFit == Spec => []StageFitsForm
<1>1. IInv => StageFitsForm
  BY DEF IInv, Rules
<1> QED
  BY <1>1, Invariance, PTL

\* The active steps are of the packet's template.
THEOREM SelectedOnly == Spec => []OnlySelectedActive
<1>1. IInv => OnlySelectedActive
  BY DEF IInv, Rules
<1> QED
  BY <1>1, Invariance, PTL

\* A row that was there when a resync writes stays, with its notes, and with its
\* progress unless its stage is gone.
LEMMA CommitKeepsWork ==
    ASSUME IInv, NEW q \in Requests, Commit(q), NEW r \in Rows, row[r] # None
    PROVE  /\ row'[r] # None /\ row'[r].notes = row[r].notes
           /\ \/ row'[r].done = row[r].done /\ row'[r].stage = row[r].stage
              \/ /\ row[r].stage \notin StagesOf(row'[r].form) /\ ~row'[r].done
                 /\ row'[r].form.type # "training"
<1> USE DEF IInv, TypeOK
<1> DEFINE j == job[q]
<1>1. j \in ReadJobs /\ j.rows = row
  BY JobShape DEF Commit, Rules, Held
<1>2. PICK match \in [Selected(j) -> Rows] : row' = ReconciledRows(j, match)
  BY DEF Commit
<1> HIDE DEF j
<1>3. row[r] \in ProgressRows
  OBVIOUS
<1>4. CASE \E d \in Selected(j) : match[d] = r
  <2>1. PICK d \in Selected(j) : row'[r] = Refreshed(row[r], row[r], d, j.catalogue[d].form)
    BY <1>1, <1>2, <1>4 DEF ReconciledRows
  <2>2. d \in Definitions /\ j.catalogue[d].form \in Forms
    BY <1>1 DEF Selected, ReadJobs, Catalogue
  <2>3. row'[r] # None
    BY <2>1, <2>2, <1>3, RefreshedType, NoneIsNothing
  <2> QED
    BY <2>1, <2>3, <1>3 DEF Refreshed, ProgressRows, HasStages
<1>5. CASE ~ \E d \in Selected(j) : match[d] = r
  <2>1. row'[r] = [row[r] EXCEPT !.active = FALSE]
    BY <1>2, <1>5 DEF ReconciledRows, Unmatched
  <2>2. row'[r] \in ProgressRows
    BY <2>1, <1>3 DEF ProgressRows
  <2> QED
    BY <2>1, <2>2, <1>3, NoneIsNothing DEF ProgressRows
<1> QED
  BY <1>4, <1>5

\* What the steps that are not a resync do to a row that is there.
LEMMA OtherSteps ==
    ASSUME IInv, [Next]_vars, ~ \E q \in Requests : Commit(q), NEW r \in Rows, row[r] # None
    PROVE  \/ /\ row'[r] # None /\ row'[r].notes >= row[r].notes
              /\ row'[r].form = row[r].form /\ row'[r].active = row[r].active
              /\ row'[r].done # row[r].done /\ row[r].form.type = "training" => trainingOff
           \/ row'[r] = None /\ ~row[r].active
           \/ /\ row'[r] = None
              /\ packet.status \in Finished /\ packet.old /\ packet'.status = "gone"
<1> USE DEF IInv, TypeOK
<1>1. row[r] \in ProgressRows /\ row[r].notes \in Nat /\ row[r].notes >= row[r].notes
  BY OnboardingPacketAssumption DEF ProgressRows
<1>2. CASE row'[r] = row[r]
  BY <1>1, <1>2
<1>3. ASSUME NEW t \in Templates, Start(t) PROVE FALSE
  BY <1>3 DEF Start, Rules, NoPacketNoRows
<1>4. ASSUME NEW q \in Requests, SaveEdit(q), row'[r] # row[r]
      PROVE  /\ row'[r] # None /\ row'[r].notes = row[r].notes
             /\ row'[r].form = row[r].form /\ row'[r].active = row[r].active
             /\ row'[r].done # row[r].done /\ row[r].form.type = "training" => trainingOff
  <2> DEFINE edited == [row[r] EXCEPT !.done = job[q].done,
                          !.stage = IF job[q].stage = None THEN @ ELSE job[q].stage]
  <2>1. job[q] \in EditJobs /\ job[q].row = r
    BY <1>4, JobShape DEF SaveEdit, EditJobs
  <2>2. row'[r] = edited /\ Fits(row[r], edited)
    BY <1>4, <2>1 DEF SaveEdit, EditJobs
  <2>3. edited \in ProgressRows /\ edited.notes = row[r].notes
        /\ edited.form = row[r].form /\ edited.active = row[r].active
    BY <1>1, <2>1 DEF ProgressRows, EditJobs
  <2> HIDE DEF edited
  <2> QED
    BY <2>2, <2>3, NoneIsNothing DEF Fits, Toggles, HasStages
<1>5. ASSUME NEW q \in Requests, Remove(q), row'[r] # row[r] PROVE row'[r] = None /\ ~row[r].active
  <2>1. job[q] \in RemoveJobs /\ job[q].row = r
    BY <1>5, JobShape DEF Remove, RemoveJobs
  <2> QED
    BY <1>5, <2>1 DEF Remove, StillInactive, RemoveJobs
<1>6. ASSUME NEW q \in Requests, Expire(q)
      PROVE  row'[r] = None /\ packet.status \in Finished /\ packet.old /\ packet'.status = "gone"
  BY <1>6, JobShape DEF Expire, StillExpired, ExpireJobs
<1>7. ASSUME NEW s \in Rows, AppendNote(s), row'[r] # row[r]
      PROVE  /\ row'[r] # None /\ row'[r].notes = row[r].notes + 1
             /\ row'[r].form = row[r].form /\ row'[r].active = row[r].active
             /\ row'[r].done = row[r].done
  <2>1. s = r /\ row'[r] = [row[r] EXCEPT !.notes = @ + 1] /\ row[r].notes < MaxChanges
    BY <1>7 DEF AppendNote
  <2>2. row'[r] \in ProgressRows
    BY <2>1, <1>1, OnboardingPacketAssumption DEF ProgressRows
  <2> QED
    BY <2>1, <2>2, <1>1, NoneIsNothing DEF ProgressRows
<1>8. ASSUME NEW D \in SUBSET Definitions, Unlink(D)
      PROVE  /\ row'[r] # None /\ row'[r].notes = row[r].notes
             /\ row'[r].form = row[r].form /\ row'[r].active = row[r].active
             /\ row'[r].done = row[r].done
  <2>1. row'[r] \in {row[r], [row[r] EXCEPT !.definition = None]}
    BY <1>8 DEF Unlink
  <2>2. row'[r] \in ProgressRows
    BY <2>1, <1>1 DEF ProgressRows
  <2> QED
    BY <2>1, <2>2, <1>1, NoneIsNothing DEF ProgressRows
<1>9. \A t \in Templates : DeleteTemplate(t) => \E D \in SUBSET Definitions : Unlink(D)
  BY DEF DeleteTemplate, OfTemplate
<1>10. \A d \in Definitions : DeleteDefinition(d) => \E D \in SUBSET Definitions : Unlink(D)
  BY DEF DeleteDefinition
<1>11. \/ row' = row
       \/ \E t \in Templates : Start(t)
       \/ \E q \in Requests : SaveEdit(q) \/ Remove(q) \/ Expire(q)
       \/ \E s \in Rows : AppendNote(s)
       \/ \E D \in SUBSET Definitions : Unlink(D)
  <2>1. ASSUME PacketNext, ~ \E t \in Templates : Start(t),
               ~ \E q \in Requests : Commit(q) \/ SaveEdit(q) \/ Remove(q) \/ Expire(q)
        PROVE  row' = row
    BY <2>1 DEF PacketNext, BeginResync, LockPacket, LockSteps, BeginToggle, BeginAdvance,
                BeginRemove, BeginExpire, Move, Age, GiveUp
  <2>2. ASSUME CatalogueNext, ~ \E s \in Rows : AppendNote(s),
               ~ \E D \in SUBSET Definitions : Unlink(D)
        PROVE  row' = row
    BY <2>2, <1>9, <1>10
    DEF CatalogueNext, CreateTemplate, CreateDefinition, EditDefinition, MoveDefinition,
        ClearTemplate, SwitchTraining
  <2> QED
    BY <2>1, <2>2 DEF Next, vars
<1> QED
  BY <1>1, <1>2, <1>3, <1>4, <1>5, <1>6, <1>7, <1>8, <1>11

\* A resync that was read ends by committing, or with nothing changed.
LEMMA ReadEnds ==
    ASSUME IInv, [Next]_vars, NEW q \in Requests, job[q].op = "read", job'[q].op = "idle"
    PROVE  Commit(q) \/ row' = row
<1> USE DEF IInv, TypeOK
<1>1. ASSUME NEW p \in Requests, NEW j, job' = [job EXCEPT ![p] = j], p # q PROVE FALSE
  <2>1. job'[q] = job[q]
    BY <1>1
  <2> QED
    BY <2>1
<1>2. ASSUME NEW p \in Requests, Finish(p) PROVE p = q
  BY <1>2, <1>1 DEF Finish
<1>3. ASSUME NEW p \in Requests, SaveEdit(p) \/ Remove(p) \/ Expire(p) PROVE FALSE
  BY <1>2, <1>3 DEF SaveEdit, Remove, Expire
<1>4. job' # job
  OBVIOUS
<1>5. ASSUME PacketNext PROVE Commit(q) \/ row' = row
  <2>1. ASSUME NEW t \in Templates, Start(t) PROVE FALSE
    BY <2>1, <1>4 DEF Start
  <2>2. ASSUME NEW p \in Requests, Commit(p) PROVE Commit(q)
    BY <2>2, <1>2 DEF Commit
  <2> QED
    BY <1>3, <1>5, <2>1, <2>2
    DEF PacketNext, BeginResync, LockPacket, LockSteps, BeginToggle, BeginAdvance,
        BeginRemove, BeginExpire, Move, Age, GiveUp
<1>6. ASSUME CatalogueNext PROVE FALSE
  BY <1>4, <1>6
  DEF CatalogueNext, CreateTemplate, DeleteTemplate, CreateDefinition, EditDefinition,
      MoveDefinition, DeleteDefinition, ClearTemplate, SwitchTraining, AppendNote
<1> QED
  BY <1>4, <1>5, <1>6 DEF Next, vars

\* No resync, late toggle or note written at the same time loses the work on a
\* step, and a Training step is never ticked by hand while Training is on.
THEOREM ProgressKept == Spec => ProgressIsKept
<1> DEFINE Kept(r) ==
      /\ \A q \in Requests : job[q].op = "read" /\ job'[q].op = "idle" =>
           /\ row'[r].notes = row[r].notes
           /\ \/ row'[r].done = row[r].done /\ row'[r].stage = row[r].stage
              \/ row[r].stage \notin StagesOf(row'[r].form) /\ ~row'[r].done
      /\ row[r].form.type = "training" /\ row'[r].form = row[r].form /\ row'[r].done # row[r].done
           => trainingOff
<1>1. ASSUME IInv, [Next]_vars, NEW r \in Rows, row[r] # None, row'[r] # None PROVE Kept(r)
  <2>1. ASSUME NEW q \in Requests, job[q].op = "read", job'[q].op = "idle"
        PROVE  /\ row'[r].notes = row[r].notes
               /\ \/ row'[r].done = row[r].done /\ row'[r].stage = row[r].stage
                  \/ row[r].stage \notin StagesOf(row'[r].form) /\ ~row'[r].done
    BY <1>1, <2>1, ReadEnds, CommitKeepsWork
  <2>2. ASSUME row[r].form.type = "training", row'[r].form = row[r].form, row'[r].done # row[r].done
        PROVE  trainingOff
    <3>1. CASE \E q \in Requests : Commit(q)
      BY <1>1, <2>2, <3>1, CommitKeepsWork
    <3>2. CASE ~ \E q \in Requests : Commit(q)
      BY <1>1, <2>2, <3>2, OtherSteps
    <3> QED
      BY <3>1, <3>2
  <2> QED
    BY <2>1, <2>2
<1>2. IInv /\ [Next]_vars => [\A r \in Rows : row[r] # None /\ row'[r] # None => Kept(r)]_vars
  BY <1>1
<1> QED
  BY Invariance, <1>2, PTL DEF Spec, ProgressIsKept

\* Neither a removal that a resync overtook nor a retention run that a reopening
\* overtook deletes work that is still wanted.
THEOREM WorkSurvives == Spec => WorkGoesOnlyWhenDone
<1> DEFINE Survives(r) ==
      \/ row'[r] # None /\ row'[r].notes >= row[r].notes
      \/ row'[r] = None /\ ~row[r].active
      \/ packet.status \in Finished /\ packet.old /\ packet'.status = "gone"
<1>1. ASSUME IInv, [Next]_vars, NEW r \in Rows, row[r] # None PROVE Survives(r)
  <2>1. CASE \E q \in Requests : Commit(q)
    <3>1. row'[r] # None /\ row'[r].notes = row[r].notes
      BY <1>1, <2>1, CommitKeepsWork
    <3>2. row[r].notes \in Nat
      BY <1>1, OnboardingPacketAssumption DEF IInv, TypeOK, ProgressRows
    <3> QED
      BY <3>1, <3>2
  <2>2. CASE ~ \E q \in Requests : Commit(q)
    BY <1>1, <2>2, OtherSteps
  <2> QED
    BY <2>1, <2>2
<1>2. IInv /\ [Next]_vars => [\A r \in Rows : row[r] # None => Survives(r)]_vars
  BY <1>1
<1> QED
  BY Invariance, <1>2, PTL DEF Spec, WorkGoesOnlyWhenDone

\* A resync that was on its way when the packet was completed or cancelled
\* changes none of its steps.
THEOREM FinishedStays == Spec => FinishedPacketStays
<1> DEFINE Stays ==
      /\ packet'.template \in {packet.template, None}
      /\ \A r \in Rows : row[r] # None /\ row'[r] # None =>
           row'[r].form = row[r].form /\ row'[r].active = row[r].active
<1>1. ASSUME IInv, [Next]_vars, packet.status \in Finished PROVE Stays
  <2> USE DEF IInv, TypeOK
  <2>1. ~ \E q \in Requests : Commit(q)
    BY <1>1 DEF Rules, Held, Holding, Commit, Finished
  <2>2. \A t \in Templates : ~Start(t)
    BY <1>1 DEF Start, Finished
  <2>3. packet'.template \in {packet.template, None}
    <3>1. packet \in Packets
      BY <1>1
    <3> HIDE DEF IInv, TypeOK
    <3>2. ASSUME NEW to \in {"in_progress"} \cup Finished, Move(to)
          PROVE  packet'.template = packet.template
      BY <3>1, <3>2 DEF Move, Packets
    <3>3. ASSUME Age PROVE packet'.template = packet.template
      BY <3>1, <3>3 DEF Age, Packets
    <3>4. ASSUME NEW q \in Requests, Expire(q) PROVE packet'.template = None
      BY <3>4 DEF Expire
    <3>5. ASSUME ClearTemplate PROVE packet'.template = None
      BY <3>1, <3>5 DEF ClearTemplate, Packets
    <3>6. ASSUME NEW t \in Templates, DeleteTemplate(t) PROVE packet'.template \in {packet.template, None}
      BY <3>1, <3>6 DEF DeleteTemplate, Packets
    <3>7. ASSUME PacketNext, packet' # packet
          PROVE  \/ \E to \in {"in_progress"} \cup Finished : Move(to)
                 \/ Age
                 \/ \E q \in Requests : Expire(q)
      BY <2>1, <2>2, <3>7
      DEF PacketNext, BeginResync, LockPacket, LockSteps, BeginToggle, BeginAdvance,
          BeginRemove, BeginExpire, GiveUp, SaveEdit, Remove
    <3>8. ASSUME CatalogueNext, packet' # packet
          PROVE  ClearTemplate \/ \E t \in Templates : DeleteTemplate(t)
      BY <3>8
      DEF CatalogueNext, CreateTemplate, CreateDefinition, EditDefinition, MoveDefinition,
          DeleteDefinition, SwitchTraining, AppendNote
    <3> QED
      BY <1>1, <3>2, <3>3, <3>4, <3>5, <3>6, <3>7, <3>8 DEF Next, vars
  <2>4. ASSUME NEW r \in Rows, row[r] # None, row'[r] # None
        PROVE  row'[r].form = row[r].form /\ row'[r].active = row[r].active
    BY <1>1, <2>1, <2>4, OtherSteps
  <2> QED
    BY <2>3, <2>4
<1>2. IInv /\ [Next]_vars => [packet.status \in Finished => Stays]_vars
  BY <1>1
<1> QED
  BY Invariance, <1>2, PTL DEF Spec, FinishedPacketStays

-----------------------------------------------------------------------------
(* The refinement of PacketRecord *)

\* Every row is a step of the record.
LEMMA RowsAreSteps == ProgressRows \subseteq Record!Records
BY OnboardingPacketAssumption DEF ProgressRows, Record!Records

\* A new row is a step that has not begun.
LEMMA MadeBegins ==
    ASSUME NEW d, NEW f, NEW done
    PROVE  LET s == Made(d, f, done)
           IN  s.definition = d /\ s.form = f /\ s.active /\ s.done = done /\ Record!Begun(s)
<1> DEFINE s == Made(d, f, done)
<1>1. /\ s.definition = d /\ s.form = f /\ s.active /\ s.done = done /\ s.notes = 0
      /\ s.stage = IF HasStages(f) THEN f.stages[1] ELSE None
  BY DEF Made
<1> HIDE DEF s
<1>2. HasStages(f) <=> Record!Staged(f)
  BY DEF HasStages, Record!Staged
<1>3. Record!Begun(s)
  BY <1>1, <1>2 DEF Record!Begun
<1> QED
  BY <1>1, <1>3 DEF s

\* A packet starts with steps that are its own and not begun, but for training on
\* record.
LEMMA StartStarts ==
    ASSUME TypeOK, TypeOK', NEW t \in Templates, Start(t)
    PROVE  Record!Start(t)
<1>1. PICK of \in [OfTemplate(t) -> Rows], recorded \in SUBSET OfTemplate(t) :
        /\ \A d, e \in OfTemplate(t) : of[d] = of[e] => d = e
        /\ \A d \in recorded : definition[d].form.type = "training" /\ ~trainingOff
        /\ row' = StartRows(t, of, recorded)
  BY DEF Start
<1>2. ASSUME NEW r \in Rows, row'[r] # None
      PROVE  \E d \in OfTemplate(t) :
               of[d] = r /\ row'[r] = Made(d, definition[d].form, d \in recorded)
  BY <1>1, <1>2 DEF StartRows
<1>3. ASSUME NEW r \in Rows, row'[r] # None
      PROVE  /\ row'[r].definition \in OfTemplate(t) /\ of[row'[r].definition] = r
             /\ row'[r].active /\ Record!Begun(row'[r])
             /\ row'[r].done => row'[r].form.type = "training" /\ ~trainingOff
  <2>1. PICK d \in OfTemplate(t) : of[d] = r /\ row'[r] = Made(d, definition[d].form, d \in recorded)
    BY <1>2, <1>3
  <2> DEFINE done == d \in recorded
  <2>2. row'[r] = Made(d, definition[d].form, done)
    BY <2>1
  <2>3. done => definition[d].form.type = "training" /\ ~trainingOff
    BY <1>1
  <2> HIDE DEF done
  <2>4. /\ row'[r].definition = d /\ row'[r].form = definition[d].form
        /\ row'[r].active /\ row'[r].done = done /\ Record!Begun(row'[r])
    BY <2>2, MadeBegins
  <2> QED
    BY <2>1, <2>3, <2>4
<1>4. Record!Apart'
  <2>1. \A r \in Record!Active' : r \in Rows /\ row'[r] # None
    BY DEF Record!Active
  <2>2. \A r \in Record!Active' :
          row'[r].definition \in Definitions /\ of[row'[r].definition] = r
    BY <1>3, <2>1 DEF OfTemplate
  <2> QED
    BY <2>2 DEF Record!Apart
<1>5. Record!StepsType'
  BY RowsAreSteps DEF TypeOK, Record!StepsType
<1> QED
  BY <1>3, <1>4, <1>5 DEF Start, Record!Start

\* What was done on a step is kept when its definition is read again.
LEMMA RefreshedContinues ==
    ASSUME NEW s \in ProgressRows, NEW d \in Definitions, NEW f \in Forms
    PROVE  /\ Record!Continues(s, Refreshed(s, s, d, f))
           /\ Refreshed(s, s, d, f).definition = d /\ Refreshed(s, s, d, f).form = f
           /\ Refreshed(s, s, d, f).active
<1>1. HasStages(f) <=> Record!Staged(f)
  BY DEF HasStages, Record!Staged
<1>2. StagesOf(f) = Record!StagesOf(f)
  BY DEF StagesOf, Record!StagesOf
<1> HIDE DEF HasStages
<1> QED
  BY <1>1, <1>2 DEF Refreshed, ProgressRows, Record!Continues

\* A resync commits what it makes of the steps as they are then: it has read them
\* under the locks it still holds.
LEMMA CommitResyncs ==
    ASSUME IInv, TypeOK', NEW q \in Requests, Commit(q)
    PROVE  Record!Resync(job[q].template)
<1> USE DEF IInv, TypeOK
<1> DEFINE j == job[q]
<1>1. /\ j \in ReadJobs /\ j.rows = row /\ j.old = packet.template
      /\ packet.status = "in_progress"
  BY JobShape DEF Commit, Rules, Held, Holding
<1>2. PICK match \in [Selected(j) -> Rows] : Matches(j, match) /\ row' = ReconciledRows(j, match)
  BY DEF Commit
<1>3. ASSUME NEW d \in Selected(j) PROVE d \in Definitions /\ j.catalogue[d].form \in Forms
  BY <1>1 DEF Selected, ReadJobs, Catalogue
<1> HIDE DEF j
<1>4. \A d, e \in Selected(j) : match[d] = match[e] => d = e
  BY <1>2 DEF Matches
<1>5. ASSUME NEW d \in Selected(j), NEW r \in Rows, match[d] = r
      PROVE  row'[r] = IF row[r] = None THEN Made(d, j.catalogue[d].form, FALSE)
                       ELSE Refreshed(row[r], row[r], d, j.catalogue[d].form)
  <2>1. PICK e \in Selected(j) :
          match[e] = r /\ row'[r] = IF row[r] = None THEN Made(e, j.catalogue[e].form, FALSE)
                                   ELSE Refreshed(row[r], row[r], e, j.catalogue[e].form)
    BY <1>1, <1>2, <1>5 DEF ReconciledRows
  <2> QED
    BY <1>4, <1>5, <2>1
<1>6. ASSUME NEW d \in Selected(j), NEW r \in Rows, match[d] = r
      PROVE  /\ row'[r] # None /\ row'[r].active
             /\ row'[r].definition = d /\ row'[r].form = j.catalogue[d].form
             /\ row[r] # None => Record!Continues(row[r], row'[r])
             /\ row[r] = None => Record!Begun(row'[r]) /\ ~row'[r].done
  <2> DEFINE f == j.catalogue[d].form
  <2>1. d \in Definitions /\ f \in Forms
    BY <1>3
  <2>2. row'[r] = IF row[r] = None THEN Made(d, f, FALSE) ELSE Refreshed(row[r], row[r], d, f)
    BY <1>5, <1>6
  <2> HIDE DEF f
  <2>3. CASE row[r] = None
    <3>1. row'[r] = Made(d, f, FALSE) /\ row'[r] \in ProgressRows
      BY <2>1, <2>2, <2>3, MadeType
    <3>2. /\ row'[r].definition = d /\ row'[r].form = f
          /\ row'[r].active /\ row'[r].done = FALSE /\ Record!Begun(row'[r])
      <4>1. LET s == Made(d, f, FALSE)
            IN  s.definition = d /\ s.form = f /\ s.active /\ s.done = FALSE /\ Record!Begun(s)
        BY MadeBegins, Zenon
      <4> QED
        BY <3>1, <4>1, Zenon
    <3>3. row'[r] # None
      BY <3>1, NoneIsNothing
    <3>4. ~row'[r].done
      BY <3>2
    <3>5. row'[r].form = j.catalogue[d].form
      BY <3>2 DEF f
    <3> QED
      BY <2>3, <3>2, <3>3, <3>4, <3>5
  <2>4. CASE row[r] # None
    <3>1. row[r] \in ProgressRows /\ row'[r] = Refreshed(row[r], row[r], d, f)
      BY <2>2, <2>4
    <3>2. row'[r] \in ProgressRows
      BY <2>1, <3>1, RefreshedType
    <3> QED
      BY <2>1, <2>4, <3>1, <3>2, RefreshedContinues, NoneIsNothing DEF f
  <2> QED
    BY <2>3, <2>4
<1>7. ASSUME NEW r \in Rows, ~ \E d \in Selected(j) : match[d] = r
      PROVE  /\ row'[r] = Record!Laid(row[r])
             /\ row'[r] = None \/ ~row'[r].active
  <2>1. row'[r] = Unmatched(row[r])
    BY <1>2, <1>7 DEF ReconciledRows
  <2>2. row[r] # None => row[r] \in ProgressRows
    OBVIOUS
  <2> QED
    BY <2>1, <2>2 DEF Unmatched, Record!Laid, ProgressRows
<1>8. \A r \in Rows : r \in Record!Active' <=> \E d \in Selected(j) : match[d] = r
  BY <1>6, <1>7 DEF Record!Active
<1>9. ASSUME NEW d \in Selected(j), NEW r \in Rows, match[d] = r
      PROVE  Record!TakenUp(row[r], row'[r])
  <2>1. /\ row'[r].definition = d /\ row'[r].form = j.catalogue[d].form
        /\ row[r] # None => Record!Continues(row[r], row'[r])
        /\ row[r] = None => Record!Begun(row'[r]) /\ ~row'[r].done
    BY <1>6, <1>9
  <2>2. CASE row[r] # None /\ row[r].definition = d
    BY <2>1, <2>2 DEF Record!TakenUp
  <2>3. CASE ~(row[r] # None /\ row[r].definition = d)
    <3>1. match[d] \notin Linked(j, d)
      BY <1>1, <1>9, <2>3 DEF Linked
    <3>2. Linked(j, d) = {}
      BY <1>2, <3>1 DEF Matches
    <3>3. ~Record!Has(d)
      BY <1>1, <3>2 DEF Linked, Record!Has
    <3>4. \A s \in Rows : s \in Adoptable(j, d) <=> Record!Adoptable(row[s], row'[r].form)
      BY <1>1, <2>1 DEF Adoptable, Record!Adoptable
    <3>5. CASE match[d] \in Adoptable(j, d)
      <4>1. row[r] # None /\ Record!Adoptable(row[r], row'[r].form)
        BY <1>1, <1>9, <3>4, <3>5 DEF Adoptable
      <4> QED
        BY <2>1, <2>3, <3>3, <4>1 DEF Record!TakenUp
    <3>6. CASE match[d] \notin Adoptable(j, d)
      <4>1. /\ Adoptable(j, d) \subseteq {match[e] : e \in Selected(j)}
            /\ row[r] = None
        BY <1>1, <1>2, <1>9, <3>1, <3>6 DEF Matches
      <4>2. \A s \in Rows : Record!Adoptable(row[s], row'[r].form) => row'[s].active
        BY <1>6, <3>4, <4>1
      <4> QED
        BY <2>1, <2>3, <3>3, <4>1, <4>2 DEF Record!TakenUp
    <3> QED
      BY <3>5, <3>6
  <2> QED
    BY <2>2, <2>3
<1>10. Record!Apart'
  <2>1. ASSUME NEW r \in Record!Active'
        PROVE  row'[r].definition \in Selected(j) /\ match[row'[r].definition] = r
    <3>1. r \in Rows
      BY DEF Record!Active
    <3> QED
      BY <1>6, <1>8, <3>1
  <2>2. \A r \in Record!Active' : row'[r].definition \in Definitions
    BY <1>3, <2>1
  <2> QED
    BY <2>1, <2>2 DEF Record!Apart
<1>11. Record!StepsType'
  BY RowsAreSteps DEF TypeOK, Record!StepsType
<1>12. packet' = [packet EXCEPT !.template = job[q].template] /\ UNCHANGED trainingOff
  BY DEF Commit
<1>13. \A r \in Rows : IF r \in Record!Active' THEN Record!TakenUp(row[r], row'[r])
                                              ELSE row'[r] = Record!Laid(row[r])
  BY <1>7, <1>8, <1>9
<1> QED
  BY <1>1, <1>10, <1>11, <1>12, <1>13 DEF Record!Resync

\* An edit that lands is one made to the step as it is then.
LEMMA EditWorks ==
    ASSUME TypeOK, NEW q \in Requests, SaveEdit(q)
    PROVE  (\E r \in Rows : Record!Work(r)) \/ UNCHANGED <<packet, row, trainingOff>>
<1> DEFINE r == job[q].row
           done == job[q].done
           stage == IF job[q].stage = None THEN row[r].stage ELSE job[q].stage
           new == [row[r] EXCEPT !.done = done, !.stage = stage]
<1>1. /\ r \in Rows /\ row[r] # None /\ row[r] \in ProgressRows
      /\ done \in BOOLEAN /\ job[q].stage \in Stages \cup {None}
  BY JobShape DEF SaveEdit, EditJobs, TypeOK
<1>2. stage \in Stages \cup {None}
  BY <1>1 DEF ProgressRows
<1>3. new = [row[r] EXCEPT !.done = job[q].done,
                           !.stage = IF job[q].stage = None THEN @ ELSE job[q].stage]
  OBVIOUS
<1>4. Fits(row[r], new) /\ row' = [row EXCEPT ![r] = new] /\ UNCHANGED <<packet, trainingOff>>
  BY <1>3 DEF SaveEdit
<1> HIDE DEF r, done, stage
<1>5. CASE new = row[r]
  BY <1>1, <1>4, <1>5 DEF TypeOK
<1>6. CASE new # row[r]
  <2>1. Record!Fits(row[r], new)
    <3> HIDE DEF new
    <3> QED
      BY <1>4, <1>6 DEF Fits, Toggles, HasStages, StagesOf,
                        Record!Fits, Record!Staged, Record!StagesOf
  <2>2. Record!Work(r)
    BY <1>1, <1>2, <1>4, <2>1 DEF Record!Work
  <2> QED
    BY <1>1, <2>2
<1> QED
  BY <1>5, <1>6

\* Every step is one of the record or leaves it alone.
LEMMA StepRecord ==
    ASSUME IInv, TypeOK', [Next]_vars
    PROVE  [Record!Next]_<<packet, row, trainingOff>>
<1> DEFINE Recorded == Record!Next \/ UNCHANGED <<packet, row, trainingOff>>
<1>a. TypeOK
  BY DEF IInv
<1>1. ASSUME NEW t \in Templates, Start(t) PROVE Recorded
  BY <1>a, <1>1, StartStarts DEF Record!Next
<1>2. ASSUME NEW q \in Requests, Commit(q) PROVE Recorded
  <2>1. job[q].template \in Templates
    BY <1>a, <1>2, JobShape DEF Commit, ReadJobs
  <2> QED
    BY <1>2, <2>1, CommitResyncs DEF Record!Next
<1>3. ASSUME NEW q \in Requests, SaveEdit(q) PROVE Recorded
  BY <1>a, <1>3, EditWorks DEF Record!Next
<1>4. ASSUME NEW q \in Requests, Remove(q) PROVE Recorded
  <2>1. job[q].row \in Rows
    BY <1>a, <1>4, JobShape DEF Remove, RemoveJobs
  <2>2. Record!Remove(job[q].row)
    BY <1>4 DEF Remove, StillInactive, Record!Remove
  <2> QED
    BY <2>1, <2>2 DEF Record!Next
<1>5. ASSUME NEW q \in Requests, Expire(q) PROVE Recorded
  <2>1. job[q].status \in Finished
    BY <1>a, <1>5, JobShape DEF Expire, ExpireJobs
  <2>2. Record!Expire
    BY <1>5, <2>1 DEF Expire, StillExpired, Finished, Record!Expire, Record!Finished
  <2> QED
    BY <2>2 DEF Record!Next
<1>6. ASSUME NEW to \in {"in_progress"} \cup Finished, Move(to) PROVE Recorded
  <2>1. Record!Move(to)
    BY <1>6 DEF Move, From, Record!Move
  <2> QED
    BY <2>1 DEF Finished, Record!Finished, Record!Next
<1>7. CASE Age
  BY <1>7 DEF Age, Finished, Record!Age, Record!Finished, Record!Next
<1>8. ASSUME NEW D \in SUBSET Definitions, Unlink(D), UNCHANGED trainingOff,
             packet' \in {packet, [packet EXCEPT !.template = None]}
      PROVE  Recorded
  <2>1. Record!Forget(D)
    BY <1>8 DEF Unlink, Record!Forget
  <2> QED
    BY <2>1 DEF Record!Next
<1>9. CASE ClearTemplate
  <2>1. row' = [r \in Rows |-> IF row[r] # None /\ row[r].definition \in {}
                               THEN [row[r] EXCEPT !.definition = None] ELSE row[r]]
    BY <1>a, <1>9 DEF ClearTemplate, TypeOK
  <2>2. Record!Forget({})
    BY <1>9, <2>1 DEF ClearTemplate, Record!Forget
  <2>3. {} \in SUBSET Definitions
    OBVIOUS
  <2> QED
    BY <2>2, <2>3 DEF Record!Next
<1>10. ASSUME NEW r \in Rows, AppendNote(r) PROVE Recorded
  <2>1. Record!Note(r)
    BY <1>10 DEF AppendNote, Record!Note
  <2> QED
    BY <2>1 DEF Record!Next
<1>11. CASE SwitchTraining
  BY <1>11 DEF SwitchTraining, Record!Switch, Record!Next
<1>12. CASE PacketNext
  BY <1>1, <1>2, <1>3, <1>4, <1>5, <1>6, <1>7, <1>12
  DEF PacketNext, BeginResync, LockPacket, LockSteps, BeginToggle, BeginAdvance,
      BeginRemove, BeginExpire, GiveUp
<1>13. CASE CatalogueNext
  <2>1. ASSUME NEW t \in Templates, DeleteTemplate(t) PROVE Recorded
    <3>1. OfTemplate(t) \in SUBSET Definitions
      BY DEF OfTemplate
    <3> QED
      BY <1>8, <2>1, <3>1 DEF DeleteTemplate
  <2>2. ASSUME NEW d \in Definitions, DeleteDefinition(d) PROVE Recorded
    BY <1>8, <2>2 DEF DeleteDefinition
  <2> QED
    BY <1>9, <1>10, <1>11, <1>13, <2>1, <2>2
    DEF CatalogueNext, CreateTemplate, CreateDefinition, EditDefinition, MoveDefinition
<1>14. CASE UNCHANGED vars
  BY <1>14 DEF vars
<1> QED
  BY <1>12, <1>13, <1>14 DEF Next

\* An onboarding packet implements the promise of PacketRecord, for any catalogue
\* and any number of steps and requests: each resync is one step that takes up
\* the steps as they are, and each edit fits the step it lands on, whatever was
\* changed since the request read it.
THEOREM Implements == Spec => ImplementsRecord
<1>1. Init => Record!Init
  BY DEF Init, Record!Init
<1>2. IInv /\ IInv' /\ [Next]_vars => [Record!Next]_<<packet, row, trainingOff>>
  BY StepRecord DEF IInv
<1> QED
  BY <1>1, <1>2, Invariance, PTL DEF Spec, ImplementsRecord, Record!Spec

=============================================================================
