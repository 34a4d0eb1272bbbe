----------------------------- MODULE PacketRecord ----------------------------
(***************************************************************************)
(* What an onboarding packet promises to those who work on it, with no     *)
(* locks, requests or catalogue.  Each change is one step and is made to   *)
(* the steps as they are: a resync takes up every step that goes on with   *)
(* what was done on it, and an edit fits the step it is made to.           *)
(***************************************************************************)
EXTENDS Naturals, Sequences

CONSTANTS
    Definitions, Templates, Forms, Stages, Rows,
    None

VARIABLES
    packet,   \* [status, template, old]
    steps,    \* the packet's steps: None, or a record, for each row
    byHand    \* whether training is ticked off by hand

Finished == {"completed", "cancelled"}

Records ==
    [definition : Definitions \cup {None}, form : Forms, active : BOOLEAN,
     done : BOOLEAN, stage : Stages \cup {None}, notes : Nat]

StepsType == steps \in [Rows -> Records \cup {None}]

Init ==
    /\ packet = [status |-> "none", template |-> None, old |-> FALSE]
    /\ steps = [r \in Rows |-> None]
    /\ byHand \in BOOLEAN

Staged(f) == f.type = "paperwork" /\ f.stages # <<>>
StagesOf(f) == {f.stages[i] : i \in 1 .. Len(f.stages)}

Has(d) == \E r \in Rows : steps[r] # None /\ steps[r].definition = d

Active == {r \in Rows : steps[r] # None /\ steps[r].active}

\* Active steps are of definitions, each of another one.
Apart ==
    /\ \A r \in Active : steps[r].definition \in Definitions
    /\ \A r, s \in Active : steps[r].definition = steps[s].definition => r = s

Begun(s) == s.notes = 0 /\ s.stage = IF Staged(s.form) THEN s.form.stages[1] ELSE None

\* Only training that is on record is done from the start.
Start(t) ==
    /\ packet.status = "none"
    /\ packet' = [status |-> "in_progress", template |-> t, old |-> FALSE]
    /\ StepsType' /\ Apart'
    /\ \A r \in Rows : steps'[r] # None =>
         /\ steps'[r].active /\ Begun(steps'[r])
         /\ steps'[r].done => steps'[r].form.type = "training" /\ ~byHand
    /\ UNCHANGED byHand

\* Work done on a step stays, but for a stage its new form does not have.
Continues(s, new) ==
    /\ new.notes = s.notes
    /\ IF Staged(new.form) /\ s.stage \notin StagesOf(new.form) \cup {None}
         THEN new.stage = new.form.stages[1] /\ ~new.done
         ELSE new.stage = s.stage /\ new.done = s.done

\* A step that lost its definition, in a packet without a template.
Adoptable(s, f) ==
    /\ packet.template = None
    /\ s # None /\ s.definition = None /\ s.active
    /\ s.form.label = f.label /\ s.form.type = f.type

\* A step goes on for its definition, is adopted by one that has none, or begins.
TakenUp(s, new) ==
    IF s # None /\ s.definition = new.definition
      THEN Continues(s, new)
      ELSE /\ ~Has(new.definition)
           /\ \/ Adoptable(s, new.form) /\ Continues(s, new)
              \/ /\ s = None /\ Begun(new) /\ ~new.done
                 /\ \A r \in Rows : Adoptable(steps[r], new.form) => steps'[r].active

Laid(s) == IF s = None THEN None ELSE [s EXCEPT !.active = FALSE]

Resync(t) ==
    /\ packet.status = "in_progress"
    /\ packet' = [packet EXCEPT !.template = t]
    /\ StepsType' /\ Apart'
    /\ \A r \in Rows : IF r \in Active' THEN TakenUp(steps[r], steps'[r])
                                        ELSE steps'[r] = Laid(steps[r])
    /\ UNCHANGED byHand

\* A tick, or a stage of paperwork, whose last one is the end of it.
Fits(s, new) ==
    \/ /\ s.form.type = "checkbox" \/ (s.form.type = "training" /\ byHand)
       /\ new.stage = s.stage
    \/ /\ Staged(s.form) /\ new.stage \in StagesOf(s.form)
       /\ new.done = (new.stage = s.form.stages[Len(s.form.stages)])

Work(r) ==
    /\ steps[r] # None
    /\ \E done \in BOOLEAN, stage \in Stages \cup {None} :
         LET new == [steps[r] EXCEPT !.done = done, !.stage = stage]
         IN  Fits(steps[r], new) /\ steps' = [steps EXCEPT ![r] = new]
    /\ UNCHANGED <<packet, byHand>>

Note(r) ==
    /\ steps[r] # None
    /\ steps' = [steps EXCEPT ![r].notes = @ + 1]
    /\ UNCHANGED <<packet, byHand>>

Remove(r) ==
    /\ steps[r] # None /\ ~steps[r].active
    /\ steps' = [steps EXCEPT ![r] = None]
    /\ UNCHANGED <<packet, byHand>>

\* Definitions are deleted, and perhaps the packet's template.
Forget(D) ==
    /\ packet' \in {packet, [packet EXCEPT !.template = None]}
    /\ steps' = [r \in Rows |-> IF steps[r] # None /\ steps[r].definition \in D
                                THEN [steps[r] EXCEPT !.definition = None] ELSE steps[r]]
    /\ UNCHANGED byHand

Move(to) ==
    /\ packet.status = IF to = "in_progress" THEN "cancelled" ELSE "in_progress"
    /\ packet' = [packet EXCEPT !.status = to, !.old = FALSE]
    /\ UNCHANGED <<steps, byHand>>

Age ==
    /\ packet.status \in Finished
    /\ packet' = [packet EXCEPT !.old = TRUE]
    /\ UNCHANGED <<steps, byHand>>

Expire ==
    /\ packet.status \in Finished /\ packet.old
    /\ packet' = [status |-> "gone", template |-> None, old |-> FALSE]
    /\ steps' = [r \in Rows |-> None]
    /\ UNCHANGED byHand

Switch == byHand' = ~byHand /\ UNCHANGED <<packet, steps>>

Next ==
    \/ \E t \in Templates : Start(t) \/ Resync(t)
    \/ \E r \in Rows : Work(r) \/ Note(r) \/ Remove(r)
    \/ \E D \in SUBSET Definitions : Forget(D)
    \/ \E to \in {"in_progress"} \cup Finished : Move(to)
    \/ Age \/ Expire \/ Switch

Spec == Init /\ [][Next]_<<packet, steps, byHand>>
=============================================================================
