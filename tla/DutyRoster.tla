----------------------------- MODULE DutyRoster -----------------------------
(***************************************************************************)
(* The days of one duty, which planners of an Organization fill, replace,  *)
(* swap and clear at the same time, and the DA 6 forms that count them.    *)
(*                                                                         *)
(* A request reads the roster, shows or computes a plan ("asked"), and     *)
(* calls one database function.  The function takes the advisory lock of   *)
(* each of its days, earliest first ("locking"), checks the rows against   *)
(* the plan ("checked") and writes.  A save of starting numbers holds the  *)
(* form's lock and the type's row as well; a swap shares the type's row.   *)
(*                                                                         *)
(* Days are numbers.  The date of a planner's device may be a day off the  *)
(* server's.  A starting number is there or not, whatever its count, and a *)
(* form is of one track.  Who may plan, excusals and the choice of people  *)
(* (the engine's) are left out: any Person may be picked.                  *)
(***************************************************************************)
EXTENDS Naturals, FiniteSets, FiniteSetsExt

CONSTANTS
    Planners,  \* requests that may run at the same time
    People,
    NoOne,
    MaxDay,    \* bound: assigned days are 1 .. MaxDay
    MaxForms,  \* bound: forms ever opened
    HandDays,  \* bound: days of one assignment by hand
    MaxCalls   \* bound: calls made

Days == 1 .. MaxDay
Sources == {"manual", "roster"}
NoForm == [id |-> 0, start |-> 0]
Idle == [op |-> "idle"]

ASSUME DutyRosterAssumption ==
    /\ NoOne \notin People \cup Planners
    /\ MaxDay \in Nat /\ MaxForms \in Nat /\ HandDays \in Nat /\ MaxCalls \in Nat

VARIABLES
    today,     \* the server's date
    holder,    \* who has the duty each day
    source,    \* whether the roster picked that Person
    swaps,     \* the swaps that can be undone: what both days held
    form,      \* the open DA 6 form
    carried,   \* its starting numbers were carried from the form before
    numbered,  \* People with a starting number on it
    closed,    \* the closed forms
    call,      \* what each planner asked for
    step,      \* how far the call is
    dayLock,   \* the planner who holds each day's advisory lock
    formLock,  \* the one who holds the form's
    made,      \* history: swaps made
    opened,    \* history: forms opened
    changedBy, \* history: the swap that put each day's holder there, or 0
    picked,    \* history: the Person the roster last picked for each day
    left       \* calls left of the bound

roster == <<holder, source, swaps, made, changedBy, picked>>
forms == <<form, carried, numbered, closed, opened>>
locks == <<dayLock, formLock>>
vars == <<today, roster, forms, call, step, locks, left>>

Slot == [by : People \cup {NoOne}, was : People \cup {NoOne}, src : Sources]

Init ==
    /\ today = 1
    /\ holder \in [Days -> People \cup {NoOne}]
    /\ source = [d \in Days |-> "manual"]
    /\ swaps = {} /\ made = 0
    /\ changedBy = [d \in Days |-> 0] /\ picked = [d \in Days |-> NoOne]
    /\ form = [id |-> 1, start |-> 1] /\ opened = 1
    /\ carried = FALSE /\ numbered = {} /\ closed = {}
    /\ call = [p \in Planners |-> Idle]
    /\ step = [p \in Planners |-> "idle"]
    /\ dayLock = [d \in Days |-> NoOne] /\ formLock = NoOne
    /\ left = MaxCalls

OnRoster == form # NoForm

\* The server takes a device's date that is at most a day off its own.
DeviceDate(t) == t + 1 >= today /\ t <= today + 1
DeviceDates == {t \in 0 .. MaxDay + 1 : DeviceDate(t)}

\* The first form of a duty starts with the earliest assigned day.
EffectiveStart ==
    IF closed # {} \/ carried THEN form.start
    ELSE Min({form.start} \cup {d \in Days : holder[d] # NoOne})

\* Faulty variant: the save looks for pulled duty only.
NumbersLockedFaulty(t) == \E d \in Days : EffectiveStart <= d /\ d <= t /\ holder[d] # NoOne

\* Starting numbers are part of the record once carried or once duty is pulled.
NumbersLocked(t) ==
    \/ carried
    \/ \E d \in Days : EffectiveStart <= d /\ d <= t /\ holder[d] # NoOne

-----------------------------------------------------------------------------
(* What a planner asks for, from what the request reads. *)

Ask(p, c) ==
    /\ step[p] = "idle"
    /\ left > 0 /\ left' = left - 1
    /\ call' = [call EXCEPT ![p] = c]
    /\ step' = [step EXCEPT ![p] = "asked"]
    /\ UNCHANGED <<today, roster, forms, locks>>

\* Plans that give each day of S to another Person than holds it.
SlotsOn(S) ==
    {[d \in S |-> [by |-> by[d], was |-> holder[d], src |-> src[d]]] :
        by \in {f \in [S -> People] : \A d \in S : f[d] # holder[d]},
        src \in [S -> Sources]}

\* A hand assignment, a clearing, or a batch of them.
AskReplace(p) ==
    \E S \in {D \in SUBSET Days : Cardinality(D) \in 1 .. HandDays} :
      \E by \in [S -> People \cup {NoOne}] :
        Ask(p, [op |-> "replace",
                slots |-> [d \in S |-> [by |-> by[d], was |-> NoOne, src |-> "manual"]]])

\* Fill from roster: picks for open days.
FillSlots == {s \in UNION {SlotsOn(S) : S \in SUBSET Days} :
    \A d \in DOMAIN s : /\ s[d].was = NoOne /\ s[d].src = "roster"
                        /\ d + 1 >= today}

\* The roster's picks of later days that a change makes it pick again.
Repicks(s, D) ==
    \A d \in D : source[d] = "roster" /\ s[d].src = "roster"

\* Find replacement: another Person for one day, and the repicks after it
\* and after the device's date.
ReplacementSlots == {s \in UNION {SlotsOn(S) : S \in SUBSET Days \ {{}}} :
    LET first == Min(DOMAIN s)
        rest == DOMAIN s \ {first}
    IN /\ holder[first] # NoOne
       /\ Repicks(s, rest)
       /\ \A d \in rest : d >= today}

AskRoster(p) ==
    /\ OnRoster
    /\ \E s \in FillSlots \cup ReplacementSlots :
          /\ DOMAIN s # {}
          /\ Ask(p, [op |-> "roster", slots |-> s])

Swapped(d) == \E w \in swaps : d \in DOMAIN w.held

\* A preview offers days that two different People hold and no swap has.
AskSwap(p) ==
    /\ OnRoster
    /\ \E S \in SUBSET Days :
          /\ Cardinality(S) = 2
          /\ \A d \in S : holder[d] # NoOne /\ ~Swapped(d) /\ d + 1 >= today
          /\ \A d, e \in S : d # e => holder[d] # holder[e]
          /\ Ask(p, [op |-> "swap",
                     slots |-> [d \in S |-> [by |-> holder[CHOOSE e \in S : e # d],
                                             was |-> holder[d], src |-> "manual"]]])

AskUndo(p) ==
    \E w \in swaps :
        Ask(p, [op |-> "undo", swap |-> w,
                slots |-> [d \in DOMAIN w.held |->
                    [by |-> w.held[d].by, was |-> NoOne, src |-> w.held[d].src]]])

\* The numbers read, with the submitted Person's set or cleared.
Merged(box) == IF box \in numbered THEN numbered \ {box} ELSE numbered \cup {box}

AskNumbers(p) ==
    /\ OnRoster
    /\ \E t \in DeviceDates, box \in People :
          /\ ~NumbersLocked(t)
          /\ \E S \in SUBSET {d \in Days : d > t} : \E s \in SlotsOn(S) :
                /\ Repicks(s, S)
                /\ Ask(p, [op |-> "numbers", slots |-> s, form |-> form.id, date |-> t,
                           box |-> box, numbered |-> Merged(box)])

\* New rules close the form, and so does the end of the roster.
AskClose(p) ==
    /\ OnRoster
    /\ \E t \in DeviceDates, ending \in BOOLEAN :
          Ask(p, [op |-> "close", form |-> form.id, date |-> t, ending |-> ending,
                  started |-> EffectiveStart <= t,
                  carry |-> IF EffectiveStart <= t THEN People ELSE numbered])

-----------------------------------------------------------------------------
(* The database functions. *)

\* Faulty variant: a replacement takes no day locks.
DaysToLockFaulty(p) == IF call[p].op = "replace" THEN {} ELSE DOMAIN call[p].slots

DaysToLock(p) == DOMAIN call[p].slots

Release(p) ==
    /\ call' = [call EXCEPT ![p] = Idle]
    /\ step' = [step EXCEPT ![p] = "idle"]
    /\ dayLock' = [d \in Days |-> IF dayLock[d] = p THEN NoOne ELSE dayLock[d]]
    /\ formLock' = IF formLock = p THEN NoOne ELSE formLock

Refuse(p) == Release(p) /\ UNCHANGED <<today, roster, forms, left>>

\* A swap reads the type's row FOR SHARE until it ends.
SharesType(p) == call[p].op = "swap" /\ step[p] \in {"locking", "checked"}
FormFree == formLock = NoOne /\ \A p \in Planners : ~SharesType(p)

MayBegin(p) ==
    /\ call[p].op = "swap" => formLock = NoOne
    /\ call[p].op = "numbers" => FormFree

\* What a function verifies before its first day lock.
Admitted(p) ==
    LET c == call[p] IN
    CASE c.op = "replace" -> (\E d \in DOMAIN c.slots : c.slots[d].by # NoOne) => OnRoster
      [] c.op = "roster"  -> TRUE
      [] c.op = "swap"    -> OnRoster /\ Min(DOMAIN c.slots) + 1 >= today
      [] c.op = "undo"    -> c.swap \in swaps /\ Min(DOMAIN c.slots) + 1 >= today
      [] c.op = "numbers" -> DeviceDate(c.date) /\ form.id = c.form /\ ~NumbersLocked(c.date)

Begin(p) ==
    /\ step[p] = "asked" /\ call[p].op # "close"
    /\ MayBegin(p)
    /\ \/ /\ Admitted(p)
          /\ step' = [step EXCEPT ![p] = "locking"]
          /\ formLock' = IF call[p].op = "numbers" THEN p ELSE formLock
          /\ UNCHANGED <<today, roster, forms, call, dayLock, left>>
       \/ ~Admitted(p) /\ Refuse(p)

Unlocked(p) == {d \in DaysToLock(p) : dayLock[d] # p}

LockDay(p) ==
    /\ step[p] = "locking" /\ Unlocked(p) # {}
    /\ LET d == Min(Unlocked(p)) IN
         /\ dayLock[d] = NoOne
         /\ dayLock' = [dayLock EXCEPT ![d] = p]
    /\ UNCHANGED <<today, roster, forms, call, step, formLock, left>>

AsReviewed(p) == \A d \in DOMAIN call[p].slots : holder[d] = call[p].slots[d].was

\* The plan still fits the rows.
Fits(p) ==
    LET c == call[p]
        S == DOMAIN c.slots
    IN CASE c.op = "replace" -> (\E d \in S : holder[d] # NoOne) => OnRoster
         [] c.op = "roster"  -> AsReviewed(p) /\ OnRoster
         [] c.op = "swap"    -> AsReviewed(p) /\ \A d \in S : ~Swapped(d)
         [] c.op = "undo"    -> c.swap \in swaps
         [] c.op = "numbers" -> AsReviewed(p) /\ \A d \in S : source[d] = "roster"

Check(p) ==
    /\ step[p] = "locking" /\ Unlocked(p) = {}
    /\ \/ Fits(p) /\ step' = [step EXCEPT ![p] = "checked"]
             /\ UNCHANGED <<today, roster, forms, call, locks, left>>
       \/ ~Fits(p) /\ Refuse(p)

\* Faulty variant: the stamp trigger leaves the source as it was.
SourceAfterFaulty(d, s) == IF s.by = NoOne THEN "manual" ELSE IF s.src = "roster" THEN "roster" ELSE source[d]

\* Every write of another Person is stamped manual unless the roster makes it.
SourceAfter(d, s) ==
    IF s.by = NoOne THEN "manual"
    ELSE IF s.src = "roster" THEN "roster"
    ELSE IF s.by # holder[d] THEN "manual" ELSE source[d]

\* Faulty variant: only a change of the earlier day ends a swap.
EndedFaulty(C) == {w \in swaps : Min(DOMAIN w.held) \in C}

\* The swaps that a change of the days C ends.
Ended(C) == {w \in swaps : DOMAIN w.held \cap C # {}}

Write(p) ==
    LET c == call[p]
        S == DOMAIN c.slots
        changed == {d \in S : c.slots[d].by # holder[d]}
        standing == swaps \ Ended({d \in changed : holder[d] # NoOne})
        swap == [id |-> made + 1,
                 held |-> [d \in S |-> [by |-> holder[d], src |-> source[d]]]]
    IN
    /\ step[p] = "checked"
    /\ holder' = [d \in Days |-> IF d \in S THEN c.slots[d].by ELSE holder[d]]
    /\ source' = [d \in Days |-> IF d \in S THEN SourceAfter(d, c.slots[d]) ELSE source[d]]
    /\ swaps' = CASE c.op = "swap" -> standing \cup {swap}
                  [] c.op = "undo" -> standing \ {c.swap}
                  [] OTHER         -> standing
    /\ made' = IF c.op = "swap" THEN made + 1 ELSE made
    /\ changedBy' = [d \in Days |-> IF d \notin changed THEN changedBy[d]
                                    ELSE IF c.op = "swap" THEN made + 1 ELSE 0]
    /\ picked' = IF c.op = "undo" THEN picked
                 ELSE [d \in Days |-> IF d \in S /\ c.slots[d].src = "roster"
                                      THEN c.slots[d].by ELSE picked[d]]
    /\ numbered' = IF c.op = "numbers" THEN c.numbered ELSE numbered
    /\ Release(p)
    /\ UNCHANGED <<today, form, carried, closed, opened, left>>

NextStart(t) == t + 1

\* close_roster_form: a form that has not started takes the rules in place.
Close(p) ==
    LET c == call[p] IN
    /\ step[p] = "asked" /\ c.op = "close"
    /\ FormFree
    /\ \/ /\ DeviceDate(c.date) /\ OnRoster /\ form.id = c.form
          /\ c.started = (EffectiveStart <= c.date)
          /\ c.started /\ ~c.ending => opened < MaxForms
          /\ closed' = IF c.started
                       THEN closed \cup {[id |-> form.id, start |-> EffectiveStart,
                                          end |-> c.date, numbered |-> numbered]}
                       ELSE closed
          /\ form' = IF c.ending THEN NoForm
                     ELSE IF c.started THEN [id |-> opened + 1, start |-> NextStart(c.date)]
                     ELSE form
          /\ opened' = IF c.started /\ ~c.ending THEN opened + 1 ELSE opened
          /\ numbered' = IF c.ending THEN {} ELSE c.carry
          /\ carried' = (~c.ending /\ c.carry # {})
          /\ Release(p)
          /\ UNCHANGED <<today, roster, left>>
       \/ /\ ~(DeviceDate(c.date) /\ OnRoster /\ form.id = c.form
               /\ c.started = (EffectiveStart <= c.date))
          /\ Refuse(p)

\* The duty is given to People again: the trigger opens a form.
Reopen ==
    /\ ~OnRoster /\ opened < MaxForms
    /\ opened' = opened + 1
    /\ form' = [id |-> opened + 1,
                start |-> IF closed = {} THEN today ELSE Max({f.end : f \in closed}) + 1]
    /\ UNCHANGED <<today, roster, carried, numbered, closed, call, step, locks, left>>

NextDay == today < MaxDay /\ today' = today + 1 /\ UNCHANGED <<roster, forms, call, step, locks, left>>

Next ==
    \/ \E p \in Planners :
          \/ AskReplace(p) \/ AskRoster(p) \/ AskSwap(p) \/ AskUndo(p)
          \/ AskNumbers(p) \/ AskClose(p)
          \/ Begin(p) \/ LockDay(p) \/ Check(p) \/ Write(p) \/ Close(p)
    \/ Reopen
    \/ NextDay

Spec == Init /\ [][Next]_vars

-----------------------------------------------------------------------------
(* A swap can be undone only while it is what put both of its holders on    *)
(* their days: whoever assigned, cleared or repicked a day since, by        *)
(* whatever function, ended it, so an undo never takes back a later         *)
(* planner's choice.                                                        *)
SwapsStand ==
    \A w \in swaps : \A d, e \in DOMAIN w.held :
        /\ changedBy[d] = w.id
        /\ d # e => holder[d] = w.held[e].by

(* What a roster write, swap, undo or save of starting numbers verified     *)
(* about its days and its form holds until it writes, whatever other        *)
(* planners save meanwhile.                                                 *)
CheckHoldsThroughWrite ==
    \A p \in Planners : step[p] = "checked" =>
        LET c == call[p] IN
        /\ c.op \in {"roster", "swap", "numbers"} => AsReviewed(p)
        /\ c.op = "swap" => OnRoster /\ \A d \in DOMAIN c.slots : ~Swapped(d)
        /\ c.op = "undo" => c.swap \in swaps
        /\ c.op = "numbers" => /\ form.id = c.form /\ ~carried
                               /\ \A d \in DOMAIN c.slots : source[d] = "roster"

Book == INSTANCE DutyBook
    WITH book <- [d \in Days |-> [by |-> holder[d], src |-> source[d]]],
         exchanges <- {w.held : w \in swaps}

(* Though every plan is made from rows read long before it is written, the  *)
(* planners together work on one book: each assignment, roster write, swap  *)
(* and undo is made to what the rows say in that step, a swap exchanges     *)
(* those two holders, and an undo gives both days exactly what they had.    *)
ImplementsBook == Book!Spec

(* A day marked as the roster's pick is held by a Person the roster picked  *)
(* for that very day: neither a hand assignment nor a swap keeps the mark,  *)
(* which would let a later repick replace it.                               *)
RosterMarkIsEarned ==
    \A d \in Days : source[d] = "roster" => holder[d] = picked[d]

FormsInOrder ==
    /\ \A f \in closed : f.start <= f.end
    /\ \A f, g \in closed : f.id < g.id => f.end < g.start
    /\ \A f \in closed : OnRoster => f.id < form.id /\ f.end < form.start

(* The record of a duty: its DA 6 forms cover different days in the order   *)
(* they were opened, though the devices that close them disagree on the     *)
(* date, a closed form stays, and no save or close changes the numbers      *)
(* carried into a form that has started.                                    *)
RecordStays ==
    /\ []FormsInOrder
    /\ [][/\ closed \subseteq closed'
          /\ carried /\ form.start < today /\ form' = form => numbered' = numbered]_vars

(* A save of starting numbers "leaves every person or track not submitted   *)
(* as saved".                                                               *)
OtherBoxesStay ==
    [][\A p \in Planners : step[p] = "checked" /\ call[p].op = "numbers" /\ step'[p] = "idle" =>
          \A q \in People \ {call[p].box} : q \in numbered' <=> q \in numbered]_vars
=============================================================================
