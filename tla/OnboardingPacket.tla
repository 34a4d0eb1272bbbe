--------------------------- MODULE OnboardingPacket --------------------------
(***************************************************************************)
(* One onboarding packet of a Person: its progress rows, the template they *)
(* were made from, and the requests that change them.  A resync (which may *)
(* switch the template) locks the packet's row (op "locked"), then its     *)
(* progress rows, which it reads with the template's definitions (op       *)
(* "read"), and writes.  Members meanwhile edit steps and the catalogue.   *)
(* An edit of a step reads the row in the server process and writes later. *)
(*                                                                         *)
(* Left out: who may do what, the order of the steps, the rows of training *)
(* types, and the removal of the Person.                                   *)
(***************************************************************************)
EXTENDS Naturals, Sequences

CONSTANTS
    Definitions,  \* step definitions
    Templates,    \* templates
    Home,         \* the template each definition is created in
    Forms,        \* what a definition says: [label, type, stages]
    FirstForm,    \* what each definition says at first; None: not yet created
    Stages,       \* names of the stages of paperwork
    Rows,         \* ids of progress rows
    Requests,     \* slots for requests in flight
    MaxChanges,   \* bound: changes of the catalogue, and notes
    None          \* no template, no definition, no row

ASSUME OnboardingPacketAssumption ==
    /\ Home \in [Definitions -> Templates]
    /\ \A f \in Forms : /\ f.type \in {"checkbox", "training", "paperwork"}
                        /\ f.stages \in Seq(Stages)
    /\ FirstForm \in [Definitions -> Forms \cup {None}]
    /\ None \notin Forms
    /\ MaxChanges \in Nat
    /\ None \notin Definitions \cup Templates \cup Stages
    /\ \A x \in [template : Templates, form : Forms]
             \cup [definition : Definitions \cup {None}, form : Forms, active : BOOLEAN,
                   done : BOOLEAN, stage : Stages \cup {None}, notes : 0 .. MaxChanges] : x # None

VARIABLES
    packet,       \* [status, template, old]; old: finished before the cutoff
    templates,    \* templates that exist
    definition,   \* [template, form] of each definition
    moved,        \* history: definitions that were ever moved to another template
    row,          \* the packet's progress rows
    trainingOff,  \* the Organization has switched Training off
    changes,      \* changes of the catalogue and notes so far
    job           \* what each request is about to do

vars == <<packet, templates, definition, moved, row, trainingOff, changes, job>>

Finished == {"completed", "cancelled"}

Packets ==
    [status : {"none", "gone", "in_progress"} \cup Finished,
     template : Templates \cup {None}, old : BOOLEAN]

ProgressRows ==
    [definition : Definitions \cup {None}, form : Forms, active : BOOLEAN,
     done : BOOLEAN, stage : Stages \cup {None}, notes : 0 .. MaxChanges]

Catalogue == [Definitions -> [template : Templates, form : Forms] \cup {None}]

Jobs ==
    {[op |-> "idle"]}
      \cup [op : {"resync"}, template : Templates \cup {None}]
      \cup [op : {"locked"}, template : Templates, old : Templates \cup {None}]
      \cup [op : {"read"}, template : Templates, old : Templates \cup {None},
            catalogue : Catalogue, rows : [Rows -> ProgressRows \cup {None}]]
      \cup [op : {"edit"}, row : Rows, done : BOOLEAN, stage : Stages \cup {None}]
      \cup [op : {"remove"}, row : Rows]
      \cup [op : {"expire"}, status : Finished]

TypeOK ==
    /\ packet \in Packets
    /\ templates \subseteq Templates
    /\ definition \in Catalogue
    /\ moved \subseteq Definitions
    /\ row \in [Rows -> ProgressRows \cup {None}]
    /\ trainingOff \in BOOLEAN
    /\ changes \in 0 .. MaxChanges
    /\ job \in [Requests -> Jobs]

\* No packet yet.  Training is off; switching it on is a change.
Init ==
    /\ packet = [status |-> "none", template |-> None, old |-> FALSE]
    /\ templates = Templates
    /\ definition = [d \in Definitions |->
         IF FirstForm[d] = None THEN None ELSE [template |-> Home[d], form |-> FirstForm[d]]]
    /\ moved = {}
    /\ row = [r \in Rows |-> None]
    /\ trainingOff = TRUE
    /\ changes = 0
    /\ job = [q \in Requests |-> [op |-> "idle"]]

-----------------------------------------------------------------------------
(* Locks and requests *)

\* Faulty variants: statements do not wait for the lock.
PacketFreeFaulty == TRUE
StepFreeFaulty(r) == TRUE

\* A resync holds the packet's row, and then the progress rows there are, until
\* it commits.
PacketFree == \A q \in Requests : job[q].op \notin {"locked", "read"}
StepFree(r) == \A q \in Requests : job[q].op = "read" => job[q].rows[r] = None

Begin(q, j) == job[q].op = "idle" /\ job' = [job EXCEPT ![q] = j]
Finish(q) == job' = [job EXCEPT ![q] = [op |-> "idle"]]

\* Refused, failed or answered with nothing changed: the transaction rolls back.
GiveUp(q) ==
    /\ job[q].op # "idle"
    /\ Finish(q)
    /\ UNCHANGED <<packet, templates, definition, moved, row, trainingOff>>

-----------------------------------------------------------------------------
(* Progress rows *)

StagesOf(f) == {f.stages[i] : i \in 1 .. Len(f.stages)}
HasStages(f) == f.type = "paperwork" /\ f.stages # <<>>

Made(d, f, done) ==
    [definition |-> d, form |-> f, active |-> TRUE, done |-> done,
     stage |-> IF HasStages(f) THEN f.stages[1] ELSE None, notes |-> 0]

\* Ids of new rows are new: no request names them.
Fresh(r) ==
    /\ row[r] = None
    /\ \A q \in Requests : job[q].op \in {"edit", "remove"} => job[q].row # r

OfTemplate(t) == {d \in Definitions : definition[d] # None /\ definition[d].template = t}

\* A row for each definition of the template; a Training step whose record is
\* there already is done.
StartRows(t, of, recorded) ==
    [r \in Rows |->
       IF \E d \in OfTemplate(t) : of[d] = r
         THEN LET d == CHOOSE d \in OfTemplate(t) : of[d] = r
              IN  Made(d, definition[d].form, d \in recorded)
         ELSE None]

Start(t) ==
    /\ packet.status = "none" /\ t \in templates
    /\ \E of \in [OfTemplate(t) -> Rows], recorded \in SUBSET OfTemplate(t) :
         /\ \A d, e \in OfTemplate(t) : of[d] = of[e] => d = e
         /\ \A d \in recorded : definition[d].form.type = "training" /\ ~trainingOff
         /\ row' = StartRows(t, of, recorded)
    /\ packet' = [status |-> "in_progress", template |-> t, old |-> FALSE]
    /\ UNCHANGED <<templates, definition, moved, trainingOff, job>>

-----------------------------------------------------------------------------
(* Resync and switch of the template *)

BeginResync(q, t) ==
    /\ packet.status \notin {"none", "gone"}
    /\ Begin(q, [op |-> "resync", template |-> t])
    /\ UNCHANGED <<packet, templates, definition, moved, row, trainingOff>>

\* What the packet says is read under its lock; a resync keeps its template.
LockPacket(q) ==
    /\ job[q].op = "resync"
    /\ PacketFree /\ packet.status = "in_progress"
    /\ LET t == IF job[q].template = None THEN packet.template ELSE job[q].template
       IN  /\ t \in templates
           /\ job' = [job EXCEPT ![q] = [op |-> "locked", template |-> t, old |-> packet.template]]
    /\ UNCHANGED <<packet, templates, definition, moved, row, trainingOff>>

LockSteps(q) ==
    /\ job[q].op = "locked" /\ \A r \in Rows : row[r] # None => StepFree(r)
    /\ job' = [job EXCEPT ![q] =
         [op |-> "read", template |-> @.template, old |-> @.old,
          catalogue |-> [d \in Definitions |->
             IF d \in OfTemplate(@.template) THEN definition[d] ELSE None],
          rows |-> row]]
    /\ UNCHANGED <<packet, templates, definition, moved, row, trainingOff>>

Selected(j) == {d \in Definitions : j.catalogue[d] # None}

Linked(j, d) == {r \in Rows : j.rows[r] # None /\ j.rows[r].definition = d}

\* Only a packet without a template adopts rows that lost their definition.
Adoptable(j, d) ==
    {r \in Rows : /\ j.old = None /\ j.rows[r] # None
                  /\ j.rows[r].definition = None /\ j.rows[r].active
                  /\ j.rows[r].form.label = j.catalogue[d].form.label
                  /\ j.rows[r].form.type = j.catalogue[d].form.type}

\* One row for each definition: its own, else one it adopts, else a new one.
Matches(j, match) ==
    \A d \in Selected(j) :
      /\ \A e \in Selected(j) : match[d] = match[e] => d = e
      /\ \/ match[d] \in Linked(j, d)
         \/ Linked(j, d) = {} /\ match[d] \in Adoptable(j, d)
         \/ /\ Linked(j, d) = {} /\ Adoptable(j, d) \subseteq {match[e] : e \in Selected(j)}
            /\ match[d] \notin Adoptable(j, d)
            /\ j.rows[match[d]] = None /\ Fresh(match[d])

\* A stage the definition no longer has starts again; all else is kept.
Refreshed(now, seen, d, f) ==
    LET reset == HasStages(f) /\ seen.stage # None /\ seen.stage \notin StagesOf(f)
    IN  [now EXCEPT !.definition = d, !.form = f, !.active = TRUE,
                    !.stage = IF reset THEN f.stages[1] ELSE @,
                    !.done = IF reset THEN FALSE ELSE @]

\* Faulty variant: rows of other definitions stay active.
UnmatchedFaulty(now) == now

Unmatched(now) == IF now = None THEN None ELSE [now EXCEPT !.active = FALSE]

ReconciledRows(j, match) ==
    [r \in Rows |->
       IF \E d \in Selected(j) : match[d] = r
         THEN LET d == CHOOSE d \in Selected(j) : match[d] = r
                  f == j.catalogue[d].form
              IN  IF j.rows[r] = None THEN Made(d, f, FALSE)
                  ELSE Refreshed(row[r], j.rows[r], d, f)
         ELSE Unmatched(row[r])]

\* The template and the definitions must still be there to refer to.
Commit(q) ==
    /\ job[q].op = "read" /\ job[q].template \in templates
    /\ LET j == job[q]
       IN  \E match \in [Selected(j) -> Rows] :
             /\ Matches(j, match)
             /\ \A d \in Selected(j) : /\ definition[d] # None
                                       /\ j.rows[match[d]] # None => row[match[d]] # None
             /\ row' = ReconciledRows(j, match)
    /\ packet' = [packet EXCEPT !.template = job[q].template]
    /\ Finish(q)
    /\ UNCHANGED <<templates, definition, moved, trainingOff>>

-----------------------------------------------------------------------------
(* Work on the steps *)

Toggles(f) == f.type = "checkbox" \/ (f.type = "training" /\ trainingOff)

BeginToggle(q, r, done) ==
    /\ row[r] # None /\ Toggles(row[r].form)
    /\ Begin(q, [op |-> "edit", row |-> r, done |-> done, stage |-> None])
    /\ UNCHANGED <<packet, templates, definition, moved, row, trainingOff>>

BeginAdvance(q, r, s) ==
    /\ row[r] # None /\ row[r].form.type = "paperwork" /\ s \in StagesOf(row[r].form)
    /\ LET stages == row[r].form.stages
       IN  Begin(q, [op |-> "edit", row |-> r, done |-> s = stages[Len(stages)], stage |-> s])
    /\ UNCHANGED <<packet, templates, definition, moved, row, trainingOff>>

\* Faulty variant: the stage is checked against the step, the tick that goes with it is not.
FitsFaulty(now, edited) ==
    \/ Toggles(now.form) /\ edited.stage = now.stage
    \/ edited.stage \in StagesOf(now.form) \cup {now.stage}

\* The trigger looks at the step as it is when the write lands.
Fits(now, edited) ==
    \/ edited = now
    \/ Toggles(now.form) /\ edited.stage = now.stage
    \/ /\ HasStages(now.form) /\ edited.stage \in StagesOf(now.form)
       /\ edited.done = (edited.stage = now.form.stages[Len(now.form.stages)])

\* A toggle keeps the stage; neither looks at the packet's status.
SaveEdit(q) ==
    /\ job[q].op = "edit" /\ StepFree(job[q].row)
    /\ LET r == job[q].row
           edited == [row[r] EXCEPT !.done = job[q].done,
                                    !.stage = IF job[q].stage = None THEN @ ELSE job[q].stage]
       IN  /\ row[r] # None /\ Fits(row[r], edited)
           /\ row' = [row EXCEPT ![r] = edited]
    /\ Finish(q)
    /\ UNCHANGED <<packet, templates, definition, moved, trainingOff>>

AppendNote(r) ==
    /\ StepFree(r) /\ row[r] # None /\ row[r].notes < MaxChanges
    /\ row' = [row EXCEPT ![r].notes = @ + 1]
    /\ UNCHANGED <<packet, templates, definition, moved, trainingOff, job>>

BeginRemove(q, r) ==
    /\ row[r] # None /\ ~row[r].active
    /\ Begin(q, [op |-> "remove", row |-> r])
    /\ UNCHANGED <<packet, templates, definition, moved, row, trainingOff>>

\* Faulty variant: the delete does not ask for an inactive row.
StillInactiveFaulty(now) == TRUE

StillInactive(now) == ~now.active

Remove(q) ==
    /\ job[q].op = "remove" /\ StepFree(job[q].row)
    /\ row[job[q].row] # None /\ StillInactive(row[job[q].row])
    /\ row' = [row EXCEPT ![job[q].row] = None]
    /\ Finish(q)
    /\ UNCHANGED <<packet, templates, definition, moved, trainingOff>>

-----------------------------------------------------------------------------
(* The packet's own life *)

\* Complete, cancel or reopen: one update of the row while it has the status.
\* The check in the server process before it asks for the same status.
From(to) == IF to = "in_progress" THEN "cancelled" ELSE "in_progress"

Move(to) ==
    /\ PacketFree /\ packet.status = From(to)
    /\ packet' = [packet EXCEPT !.status = to, !.old = FALSE]
    /\ UNCHANGED <<templates, definition, moved, row, trainingOff, job>>

\* A configurer takes the template away by a direct update.
ClearTemplate ==
    /\ PacketFree /\ packet.template # None
    /\ packet' = [packet EXCEPT !.template = None]
    /\ UNCHANGED <<templates, definition, moved, row, trainingOff, job>>

\* The day of completion or cancellation falls behind the cutoff.
Age ==
    /\ packet.status \in Finished /\ ~packet.old
    /\ packet' = [packet EXCEPT !.old = TRUE]
    /\ UNCHANGED <<templates, definition, moved, row, trainingOff, job>>

BeginExpire(q) ==
    /\ packet.status \in Finished /\ packet.old
    /\ Begin(q, [op |-> "expire", status |-> packet.status])
    /\ UNCHANGED <<packet, templates, definition, moved, row, trainingOff>>

StillExpired(status) == packet.status = status /\ packet.old

\* The rows go with their packet.
Expire(q) ==
    /\ job[q].op = "expire" /\ PacketFree /\ StillExpired(job[q].status)
    /\ \A r \in Rows : row[r] # None => StepFree(r)
    /\ packet' = [status |-> "gone", template |-> None, old |-> FALSE]
    /\ row' = [r \in Rows |-> None]
    /\ Finish(q)
    /\ UNCHANGED <<templates, definition, moved, trainingOff>>

-----------------------------------------------------------------------------
(* The catalogue *)

CreateTemplate(t) ==
    /\ t \notin templates
    /\ \A q \in Requests : job[q].op \in {"resync", "locked", "read"} => job[q].template # t
    /\ templates' = templates \cup {t}
    /\ UNCHANGED <<packet, definition, moved, row, trainingOff, job>>

\* Deleting definitions leaves their rows as history, and waits for held ones.
Unlink(D) ==
    /\ \A r \in Rows : row[r] # None /\ row[r].definition \in D => StepFree(r)
    /\ definition' = [d \in Definitions |-> IF d \in D THEN None ELSE definition[d]]
    /\ row' = [r \in Rows |-> IF row[r] # None /\ row[r].definition \in D
                              THEN [row[r] EXCEPT !.definition = None] ELSE row[r]]

DeleteTemplate(t) ==
    /\ t \in templates
    /\ packet.template = t => PacketFree
    /\ Unlink(OfTemplate(t))
    /\ templates' = templates \ {t}
    /\ packet' = IF packet.template = t THEN [packet EXCEPT !.template = None] ELSE packet
    /\ UNCHANGED <<moved, trainingOff, job>>

\* The id is new, or made from the template and the name by a starter pack.
CreateDefinition(d, f) ==
    /\ definition[d] = None /\ Home[d] \in templates
    /\ definition' = [definition EXCEPT ![d] = [template |-> Home[d], form |-> f]]
    /\ UNCHANGED <<packet, templates, moved, row, trainingOff, job>>

EditDefinition(d, f) ==
    /\ definition[d] # None
    /\ definition' = [definition EXCEPT ![d].form = f]
    /\ UNCHANGED <<packet, templates, moved, row, trainingOff, job>>

MoveDefinition(d, t) ==
    /\ definition[d] # None /\ t \in templates \ {definition[d].template}
    /\ definition' = [definition EXCEPT ![d].template = t]
    /\ moved' = moved \cup {d}
    /\ UNCHANGED <<packet, templates, row, trainingOff, job>>

DeleteDefinition(d) ==
    /\ definition[d] # None
    /\ Unlink({d})
    /\ UNCHANGED <<packet, templates, moved, trainingOff, job>>

SwitchTraining ==
    /\ trainingOff' = ~trainingOff
    /\ UNCHANGED <<packet, templates, definition, moved, row, job>>

PacketNext ==
    \/ \E to \in {"in_progress"} \cup Finished : Move(to)
    \/ \E t \in Templates : Start(t)
    \/ Age
    \/ \E q \in Requests :
        \/ \E t \in Templates \cup {None} : BeginResync(q, t)
        \/ LockPacket(q) \/ LockSteps(q) \/ Commit(q)
        \/ \E r \in Rows :
            \/ \E done \in BOOLEAN : BeginToggle(q, r, done)
            \/ \E s \in Stages : BeginAdvance(q, r, s)
            \/ BeginRemove(q, r)
        \/ SaveEdit(q) \/ Remove(q)
        \/ BeginExpire(q) \/ Expire(q)
        \/ GiveUp(q)

CatalogueNext ==
    \/ \E t \in Templates : CreateTemplate(t) \/ DeleteTemplate(t)
    \/ \E d \in Definitions :
        \/ \E f \in Forms : CreateDefinition(d, f) \/ EditDefinition(d, f)
        \/ \E t \in Templates : MoveDefinition(d, t)
        \/ DeleteDefinition(d)
    \/ ClearTemplate \/ SwitchTraining
    \/ \E r \in Rows : AppendNote(r)

Next ==
    \/ PacketNext /\ UNCHANGED changes
    \/ CatalogueNext /\ changes < MaxChanges /\ changes' = changes + 1

Spec == Init /\ [][Next]_vars

-----------------------------------------------------------------------------
(* Properties *)

\* Resyncs and switches of one packet that overlap never make two rows for one
\* definition.
OneRowPerDefinition ==
    \A r, s \in Rows :
        row[r] # None /\ row[s] # None /\ row[r].definition # None
          /\ row[r].definition = row[s].definition => r = s

\* However edits, resyncs and changes of the catalogue overlap, paperwork with
\* stages is never left at a stage it does not have: a late edit is held against
\* the step as it is now, a resync starts again what lost its stage.
StageFitsForm ==
    \A r \in Rows :
        row[r] # None /\ HasStages(row[r].form) => row[r].stage \in StagesOf(row[r].form) \cup {None}

\* The active steps of a packet come from the template it says it has, whichever
\* resync, switch or deletion was last.  A definition that was moved keeps its
\* active row until the next resync.
OnlySelectedActive ==
    \A r \in Rows :
        row[r] # None /\ row[r].active /\ row[r].definition \in Definitions \ moved
          /\ packet.template # None => packet.template = Home[row[r].definition]

\* A resync that commits beside notes and edits loses none of them: it resets
\* only a stage its definition does not have.  And with Training on nobody ticks
\* a Training step, not even by a toggle that began while it was off.
ProgressIsKept ==
    [][\A r \in Rows : row[r] # None /\ row'[r] # None =>
        /\ \A q \in Requests : job[q].op = "read" /\ job'[q].op = "idle" =>
             /\ row'[r].notes = row[r].notes
             /\ \/ row'[r].done = row[r].done /\ row'[r].stage = row[r].stage
                \/ row[r].stage \notin StagesOf(row'[r].form) /\ ~row'[r].done
        /\ row[r].form.type = "training" /\ row'[r].form = row[r].form /\ row'[r].done # row[r].done
             => trainingOff]_vars

\* Work is deleted only from an inactive step, or with a packet that is finished
\* and past its retention: not by a removal that a resync overtook, and not by a
\* retention run that a reopening overtook.
WorkGoesOnlyWhenDone ==
    [][\A r \in Rows : row[r] # None =>
        \/ row'[r] # None /\ row'[r].notes >= row[r].notes
        \/ row'[r] = None /\ ~row[r].active
        \/ packet.status \in Finished /\ packet.old /\ packet'.status = "gone"]_vars

\* A packet that is completed or cancelled while a resync is on its way keeps its
\* steps as they are; its template only goes when it is deleted or cleared.
FinishedPacketStays ==
    [][packet.status \in Finished =>
        /\ packet'.template \in {packet.template, None}
        /\ \A r \in Rows : row[r] # None /\ row'[r] # None =>
             row'[r].form = row[r].form /\ row'[r].active = row[r].active]_vars

-----------------------------------------------------------------------------
(* It implements PacketRecord. *)

Record == INSTANCE PacketRecord WITH steps <- row, byHand <- trainingOff

\* A resync reads the packet, its template, its steps and the catalogue one
\* after the other and writes them later, and an edit is decided on a step that
\* was read before; yet each is as if made in one step to what is there then.
ImplementsRecord == Record!Spec
=============================================================================
