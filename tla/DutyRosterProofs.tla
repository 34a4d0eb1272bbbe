-------------------------- MODULE DutyRosterProofs --------------------------
(***************************************************************************)
(* What DutyRoster keeps for any planners, People, days and bounds.  The   *)
(* day locks make what a call has checked hold until it writes; the rest   *)
(* follows from what every write does to the swaps, the marks and the      *)
(* forms.                                                                  *)
(***************************************************************************)
EXTENDS DutyRoster, TLAPS, FiniteSetTheorems

DayOps == {"replace", "roster", "swap", "undo", "numbers"}

\* What a planner can have asked for.
Planned(c) ==
    /\ c.op \in DayOps
    /\ \A d \in DOMAIN c.slots : d \in Days /\ c.slots[d] \in Slot
    /\ c.op = "replace" => \A d \in DOMAIN c.slots : c.slots[d].src = "manual"
    /\ c.op \in {"roster", "swap", "numbers"} =>
          \A d \in DOMAIN c.slots : c.slots[d].by \in People /\ c.slots[d].by # c.slots[d].was
    /\ c.op = "swap" =>
          /\ DOMAIN c.slots # {} /\ \E a, b : DOMAIN c.slots = {a, b} /\ a # b
          /\ \A d \in DOMAIN c.slots : c.slots[d].src = "manual" /\ c.slots[d].was \in People
          /\ \A d, e \in DOMAIN c.slots : d # e => c.slots[d].by = c.slots[e].was
    /\ c.op = "undo" =>
          /\ DOMAIN c.slots # {} /\ DOMAIN c.slots = DOMAIN c.swap.held
          /\ \A d \in DOMAIN c.slots : /\ c.slots[d].by = c.swap.held[d].by
                                       /\ c.slots[d].src = c.swap.held[d].src
    /\ c.op = "numbers" => c.form # 0

Closing(c) == c.op = "close" /\ c.date \in Nat

Calls ==
    \A p \in Planners :
        /\ step[p] = "idle" \/ step[p] = "asked" \/ step[p] = "locking" \/ step[p] = "checked"
        /\ step[p] = "asked" => Planned(call[p]) \/ Closing(call[p])
        /\ step[p] \in {"locking", "checked"} => Planned(call[p])

Shapes ==
    /\ today \in Nat
    /\ holder \in [Days -> People \cup {NoOne}]
    /\ source \in [Days -> Sources]
    /\ picked \in [Days -> People \cup {NoOne}]
    /\ changedBy \in [Days -> Nat]
    /\ made \in Nat /\ opened \in Nat
    /\ call = [p \in Planners |-> call[p]]
    /\ step = [p \in Planners |-> step[p]]
    /\ dayLock \in [Days -> Planners \cup {NoOne}]

\* A checked call holds the lock of each of its days.
HoldsDays == \A p \in Planners : step[p] = "checked" => \A d \in DOMAIN call[p].slots : dayLock[d] = p

\* A save of starting numbers holds the form, a swap the type.
HoldsForm ==
    \A p \in Planners : step[p] \in {"locking", "checked"} =>
        /\ call[p].op = "numbers" => formLock = p /\ form.id = call[p].form /\ ~carried
        /\ call[p].op = "swap" => OnRoster

\* A swap that stands is on days that People hold, and what the roster
\* picked of what it held is what the roster picked last.
SwapsKnown ==
    \A w \in swaps :
        /\ w.id \in Nat /\ w.id <= made
        /\ \A d \in DOMAIN w.held : /\ d \in Days /\ holder[d] # NoOne
                                    /\ w.held[d] \in [by : People, src : Sources]
                                    /\ w.held[d].src = "roster" => picked[d] = w.held[d].by
        /\ DOMAIN w.held # {}

Forms ==
    /\ OnRoster => form.id \in Nat /\ form.id # 0 /\ form.id <= opened /\ form.start \in Nat
    /\ \A f \in closed : f.id \in Nat /\ f.id <= opened /\ f.end \in Nat
    /\ closed # {} => \E f \in closed : \A g \in closed : g.end <= f.end
    /\ ~OnRoster => ~carried

IInv ==
    /\ Shapes
    /\ Calls
    /\ HoldsDays
    /\ HoldsForm
    /\ SwapsKnown
    /\ Forms
    /\ SwapsStand
    /\ CheckHoldsThroughWrite
    /\ RosterMarkIsEarned
    /\ FormsInOrder

-----------------------------------------------------------------------------
(* Calls. *)

LEMMA TwoDays ==
    ASSUME NEW S \in SUBSET Days, Cardinality(S) = 2
    PROVE  \E a, b : S = {a, b} /\ a # b
<1>1. IsFiniteSet(S)
  <2>1. IsFiniteSet(1 .. MaxDay)
    BY FS_Interval, DutyRosterAssumption
  <2> QED
    BY <2>1, FS_Subset DEF Days
<1>2. S # {}
  BY FS_EmptySet
<1>3. PICK a \in S : TRUE
  BY <1>2
<1>4. IsFiniteSet(S \ {a}) /\ Cardinality(S \ {a}) = 1
  BY <1>1, <1>3, FS_RemoveElement
<1>5. PICK b : S \ {a} = {b}
  BY <1>4, FS_Singleton
<1> QED
  BY <1>3, <1>5

\* Every request asks for something that fits what it read.
LEMMA AskedIsPlanned ==
    ASSUME IInv, NEW p \in Planners,
           \/ AskReplace(p) \/ AskRoster(p) \/ AskSwap(p) \/ AskUndo(p)
           \/ AskNumbers(p) \/ AskClose(p)
    PROVE  \E c : Ask(p, c) /\ (Planned(c) \/ Closing(c))
<1> USE DutyRosterAssumption DEF Days, Sources, Slot
<1>1. CASE AskReplace(p)
  <2>1. PICK S \in SUBSET Days : \E by \in [S -> People \cup {NoOne}] :
            Ask(p, [op |-> "replace",
                    slots |-> [d \in S |-> [by |-> by[d], was |-> NoOne, src |-> "manual"]]])
    BY <1>1 DEF AskReplace
  <2>2. PICK by \in [S -> People \cup {NoOne}] :
            Ask(p, [op |-> "replace",
                    slots |-> [d \in S |-> [by |-> by[d], was |-> NoOne, src |-> "manual"]]])
    BY <2>1
  <2> QED
    BY <2>2 DEF Planned, DayOps
<1>2. CASE AskRoster(p)
  <2>1. PICK s \in FillSlots \cup ReplacementSlots : Ask(p, [op |-> "roster", slots |-> s])
    BY <1>2 DEF AskRoster
  <2>2. PICK S \in SUBSET Days : s \in SlotsOn(S)
    BY <2>1 DEF FillSlots, ReplacementSlots
  <2>3. \A d \in DOMAIN s : d \in Days /\ s[d] \in Slot /\ s[d].by \in People /\ s[d].by # s[d].was
    BY <2>2 DEF SlotsOn, IInv, Shapes
  <2> QED
    BY <2>1, <2>3 DEF Planned, DayOps
<1>3. CASE AskSwap(p)
  <2>1. PICK S \in SUBSET Days :
          /\ Cardinality(S) = 2
          /\ \A d \in S : holder[d] # NoOne
          /\ \A d, e \in S : d # e => holder[d] # holder[e]
          /\ Ask(p, [op |-> "swap",
                     slots |-> [d \in S |-> [by |-> holder[CHOOSE e \in S : e # d],
                                             was |-> holder[d], src |-> "manual"]]])
    BY <1>3 DEF AskSwap
  <2>2. PICK a, b : S = {a, b} /\ a # b
    BY <2>1, TwoDays
  <2>3. (CHOOSE e \in S : e # a) = b /\ (CHOOSE e \in S : e # b) = a
    BY <2>2
  <2> DEFINE c == [op |-> "swap",
                   slots |-> [d \in S |-> [by |-> holder[CHOOSE e \in S : e # d],
                                           was |-> holder[d], src |-> "manual"]]]
  <2>4. \A d \in S : holder[d] \in People
    BY <2>1 DEF IInv, Shapes
  <2>5. DOMAIN c.slots = S /\ c.op = "swap"
    OBVIOUS
  <2>6. \A d \in S : /\ c.slots[d].was = holder[d] /\ c.slots[d].src = "manual"
                     /\ c.slots[d].by = holder[CHOOSE e \in S : e # d]
                     /\ c.slots[d] = [by |-> c.slots[d].by, was |-> c.slots[d].was, src |-> "manual"]
    OBVIOUS
  <2>7. c.slots[a].by = holder[b] /\ c.slots[b].by = holder[a]
    BY <2>2, <2>3, <2>6
  <2> HIDE DEF c
  <2>8. \A d, e \in S : d # e => c.slots[d].by = c.slots[e].was
    BY <2>2, <2>6, <2>7
  <2>9. \A d \in S : c.slots[d].by \in People /\ c.slots[d].by # c.slots[d].was
    BY <2>1, <2>2, <2>4, <2>6, <2>7
  <2>10. \A d \in S : c.slots[d] \in Slot /\ d \in Days
    <3>1. \A x, y \in People : [by |-> x, was |-> y, src |-> "manual"] \in Slot
      OBVIOUS
    <3>2. \A d \in S : c.slots[d].by \in People /\ c.slots[d].was \in People
      BY <2>4, <2>6, <2>9
    <3> HIDE DEF Slot
    <3> QED
      BY <2>6, <3>1, <3>2
  <2>11. S # {}
    BY <2>2
  <2>12. Planned(c)
    <3>1. \A d \in DOMAIN c.slots : c.slots[d].src = "manual" /\ c.slots[d].was \in People
      BY <2>4, <2>5, <2>6
    <3>2. \E x, y : DOMAIN c.slots = {x, y} /\ x # y
      BY <2>2, <2>5
    <3>3. DOMAIN c.slots # {} /\ \A d \in DOMAIN c.slots : d \in Days /\ c.slots[d] \in Slot
      BY <2>5, <2>10, <2>11
    <3>4. \A d, e \in DOMAIN c.slots : d # e => c.slots[d].by = c.slots[e].was
      BY <2>5, <2>8
    <3>5. \A d \in DOMAIN c.slots : c.slots[d].by \in People /\ c.slots[d].by # c.slots[d].was
      BY <2>5, <2>9
    <3> HIDE DEF Slot, Days
    <3> QED
      BY <2>5, <3>1, <3>2, <3>3, <3>4, <3>5 DEF Planned, DayOps
  <2> QED
    BY <2>1, <2>12 DEF c
<1>4. CASE AskUndo(p)
  <2>1. PICK w \in swaps :
          Ask(p, [op |-> "undo", swap |-> w,
                  slots |-> [d \in DOMAIN w.held |->
                      [by |-> w.held[d].by, was |-> NoOne, src |-> w.held[d].src]]])
    BY <1>4 DEF AskUndo
  <2>2. DOMAIN w.held # {} /\ \A d \in DOMAIN w.held : d \in Days /\ w.held[d].by \in People /\ w.held[d].src \in Sources
    BY DEF IInv, SwapsKnown
  <2> QED
    BY <2>1, <2>2 DEF Planned, DayOps
<1>5. CASE AskNumbers(p)
  <2> DEFINE Save(t, box, s) == [op |-> "numbers", slots |-> s, form |-> form.id, date |-> t,
                                 box |-> box, numbered |-> Merged(box)]
  <2>5. PICK t \in DeviceDates, box \in People :
            \E S \in SUBSET {d \in Days : d > t} : \E s \in SlotsOn(S) : Ask(p, Save(t, box, s))
    BY <1>5 DEF AskNumbers
  <2>4. PICK S \in SUBSET {d \in Days : d > t} : \E s \in SlotsOn(S) : Ask(p, Save(t, box, s))
    BY <2>5
  <2>1. PICK s \in SlotsOn(S) : Ask(p, Save(t, box, s))
    BY <2>4
  <2>2. form.id # 0
    BY <1>5 DEF AskNumbers, IInv, Forms
  <2>3. \A d \in DOMAIN s : d \in Days /\ s[d] \in Slot /\ s[d].by \in People /\ s[d].by # s[d].was
    BY DEF SlotsOn, IInv, Shapes
  <2> QED
    BY <2>1, <2>2, <2>3 DEF Planned, DayOps
<1>6. CASE AskClose(p)
  <2>1. PICK t \in DeviceDates, ending \in BOOLEAN :
          Ask(p, [op |-> "close", form |-> form.id, date |-> t, ending |-> ending,
                  started |-> EffectiveStart <= t,
                  carry |-> IF EffectiveStart <= t THEN People ELSE numbered])
    BY <1>6 DEF AskClose
  <2>2. t \in Nat
    BY DEF DeviceDates
  <2> QED
    BY <2>1, <2>2 DEF Closing
<1> QED
  BY <1>1, <1>2, <1>3, <1>4, <1>5, <1>6

\* A step that leaves the rows and the forms alone keeps what is said of them.
LEMMA RowsStand ==
    ASSUME IInv, UNCHANGED <<roster, forms>>, today' \in Nat, today <= today'
    PROVE  /\ SwapsKnown' /\ SwapsStand' /\ RosterMarkIsEarned' /\ FormsInOrder' /\ Forms'
           /\ holder' \in [Days -> People \cup {NoOne}]
           /\ source' \in [Days -> Sources]
           /\ picked' \in [Days -> People \cup {NoOne}]
           /\ changedBy' \in [Days -> Nat]
           /\ made' \in Nat /\ opened' \in Nat
<1> USE DEF roster, forms, IInv
<1>1. SwapsKnown' /\ SwapsStand'
  BY DEF SwapsKnown, SwapsStand
<1>2. RosterMarkIsEarned' /\ FormsInOrder'
  BY DEF RosterMarkIsEarned, FormsInOrder, OnRoster
<1>3. Forms'
  <2>1. today \in Nat /\ OnRoster' = OnRoster
    BY DEF Shapes, OnRoster
  <2> QED
    BY <2>1 DEF Forms
<1> QED
  BY <1>1, <1>2, <1>3 DEF Shapes

\* A planner's call and step alone move.
LEMMA OneCall ==
    ASSUME IInv, NEW p \in Planners, NEW c, NEW s,
           call' = [call EXCEPT ![p] = c] /\ step' = [step EXCEPT ![p] = s]
    PROVE  /\ call' = [q \in Planners |-> call'[q]] /\ step' = [q \in Planners |-> step'[q]]
           /\ call'[p] = c /\ step'[p] = s
           /\ \A q \in Planners \ {p} : call'[q] = call[q] /\ step'[q] = step[q]
BY DEF IInv, Shapes

LEMMA AskKeeps ==
    ASSUME IInv, NEW p \in Planners, NEW c, Ask(p, c), Planned(c) \/ Closing(c)
    PROVE  IInv'
<1>1. /\ call' = [q \in Planners |-> call'[q]] /\ step' = [q \in Planners |-> step'[q]]
      /\ call'[p] = c /\ step'[p] = "asked"
      /\ \A q \in Planners \ {p} : call'[q] = call[q] /\ step'[q] = step[q]
  BY OneCall DEF Ask
<1>2. UNCHANGED <<roster, forms, today, locks>> /\ today' \in Nat /\ today <= today'
  BY DEF Ask, IInv, Shapes
<1>3. Calls'
  BY <1>1 DEF IInv, Calls
<1>4. HoldsDays' /\ HoldsForm'
  BY <1>1, <1>2 DEF IInv, HoldsDays, HoldsForm, locks, forms, OnRoster
<1>5. CheckHoldsThroughWrite'
  BY <1>1, <1>2 DEF IInv, CheckHoldsThroughWrite, AsReviewed, Swapped, roster, forms, OnRoster
<1>6. Shapes'
  BY <1>1, <1>2, RowsStand DEF IInv, Shapes, locks
<1> QED
  BY <1>2, <1>3, <1>4, <1>5, <1>6, RowsStand DEF IInv

\* A call that ends without writing gives back its locks and nothing else.
LEMMA ReleaseKeeps ==
    ASSUME IInv, NEW p \in Planners, Release(p)
    PROVE  /\ Calls' /\ HoldsDays'
           /\ call' = [q \in Planners |-> call'[q]] /\ step' = [q \in Planners |-> step'[q]]
           /\ dayLock' \in [Days -> Planners \cup {NoOne}]
           /\ step'[p] = "idle"
           /\ \A q \in Planners \ {p} : call'[q] = call[q] /\ step'[q] = step[q]
           /\ \A q \in Planners \ {p} : formLock = q => formLock' = q
<1>1. /\ call' = [q \in Planners |-> call'[q]] /\ step' = [q \in Planners |-> step'[q]]
      /\ call'[p] = Idle /\ step'[p] = "idle"
      /\ \A q \in Planners \ {p} : call'[q] = call[q] /\ step'[q] = step[q]
  BY OneCall DEF Release
<1>2. dayLock' \in [Days -> Planners \cup {NoOne}]
  BY DEF Release, IInv, Shapes
<1>3. \A q \in Planners \ {p}, d \in Days : dayLock[d] = q => dayLock'[d] = q
  BY DEF Release, IInv, Shapes
<1>4. Calls'
  BY <1>1 DEF IInv, Calls
<1>5. HoldsDays'
  <2> SUFFICES ASSUME NEW q \in Planners, (step[q] = "checked")',
                      NEW d \in (DOMAIN call[q].slots)'
               PROVE  (dayLock[d] = q)'
    BY DEF HoldsDays
  <2>1. q # p /\ call'[q] = call[q] /\ step[q] = "checked"
    BY <1>1
  <2>2. d \in Days /\ dayLock[d] = q
    BY <2>1 DEF IInv, HoldsDays, Calls, Planned
  <2> QED
    BY <1>3, <2>1, <2>2
<1>6. \A q \in Planners \ {p} : formLock = q => formLock' = q
  BY DEF Release
<1> QED
  BY <1>1, <1>2, <1>4, <1>5, <1>6

LEMMA RefuseKeeps ==
    ASSUME IInv, NEW p \in Planners, Refuse(p)
    PROVE  IInv'
<1>1. Release(p) /\ UNCHANGED <<today, roster, forms>> /\ today' \in Nat /\ today <= today'
  BY DEF Refuse, IInv, Shapes
<1>2. /\ step'[p] = "idle"
      /\ \A q \in Planners \ {p} : call'[q] = call[q] /\ step'[q] = step[q]
      /\ \A q \in Planners \ {p} : formLock = q => formLock' = q
  BY <1>1, ReleaseKeeps
<1>3. HoldsForm'
  BY <1>1, <1>2 DEF IInv, HoldsForm, forms, OnRoster
<1>4. CheckHoldsThroughWrite'
  BY <1>1, <1>2 DEF IInv, CheckHoldsThroughWrite, AsReviewed, Swapped, roster, forms, OnRoster
<1>5. Shapes'
  BY <1>1, RowsStand, ReleaseKeeps DEF IInv, Shapes
<1> QED
  BY <1>1, <1>3, <1>4, <1>5, RowsStand, ReleaseKeeps DEF IInv

LEMMA BeginKeeps ==
    ASSUME IInv, NEW p \in Planners, Begin(p)
    PROVE  IInv'
<1>1. CASE Refuse(p)
  BY <1>1, RefuseKeeps
<1>2. CASE /\ Admitted(p) /\ MayBegin(p)
           /\ step' = [step EXCEPT ![p] = "locking"]
           /\ formLock' = IF call[p].op = "numbers" THEN p ELSE formLock
           /\ UNCHANGED <<today, roster, forms, call, dayLock, left>>
  <2>1. step[p] = "asked" /\ call[p].op # "close" /\ Planned(call[p])
    BY DEF Begin, IInv, Calls, Closing
  <2>2. /\ step' = [q \in Planners |-> step'[q]] /\ step'[p] = "locking"
        /\ call' = call /\ dayLock' = dayLock
        /\ \A q \in Planners \ {p} : step'[q] = step[q]
    BY <1>2 DEF IInv, Shapes
  <2>3. UNCHANGED <<roster, forms>> /\ today' \in Nat /\ today <= today'
    BY <1>2 DEF IInv, Shapes
  <2>4. Calls' /\ HoldsDays'
    BY <2>1, <2>2 DEF IInv, Calls, HoldsDays
  <2>5. call[p].op = "numbers" => /\ formLock = NoOne
                                  /\ form.id = call[p].form /\ ~carried
    BY <1>2 DEF Admitted, MayBegin, FormFree, NumbersLocked
  <2>6. call[p].op = "swap" => OnRoster
    BY <1>2 DEF Admitted
  <2>7. HoldsForm'
    <3>1. \A q \in Planners \ {p} : formLock = q => formLock' = q
      BY <1>2, <2>5, DutyRosterAssumption
    <3> QED
      BY <1>2, <2>2, <2>3, <2>5, <2>6, <3>1 DEF IInv, HoldsForm, forms, OnRoster
  <2>8. CheckHoldsThroughWrite'
    BY <2>2, <2>3 DEF IInv, CheckHoldsThroughWrite, AsReviewed, Swapped, roster, forms, OnRoster
  <2>9. Shapes'
    BY <2>2, <2>3, RowsStand DEF IInv, Shapes
  <2> QED
    BY <2>3, <2>4, <2>7, <2>8, <2>9, RowsStand DEF IInv
<1> QED
  BY <1>1, <1>2 DEF Begin

\* A day that another planner holds is not taken.
LEMMA LockDayKeeps ==
    ASSUME IInv, NEW p \in Planners, LockDay(p)
    PROVE  IInv'
<1> DEFINE d == Min(Unlocked(p))
<1>1. dayLock[d] = NoOne /\ dayLock' = [dayLock EXCEPT ![d] = p]
  BY DEF LockDay
<1>2. /\ UNCHANGED <<today, roster, forms, call, step, formLock>>
      /\ today' \in Nat /\ today <= today'
  BY DEF LockDay, IInv, Shapes
<1> HIDE DEF d
<1>3. /\ dayLock' \in [Days -> Planners \cup {NoOne}]
      /\ \A e \in Days : dayLock[e] # NoOne => dayLock'[e] = dayLock[e]
  BY <1>1 DEF IInv, Shapes
<1>4. Calls' /\ HoldsForm'
  BY <1>2 DEF IInv, Calls, HoldsForm, forms, OnRoster
<1>5. HoldsDays'
  BY <1>2, <1>3, DutyRosterAssumption DEF IInv, HoldsDays, Calls, Planned
<1>6. CheckHoldsThroughWrite'
  BY <1>2 DEF IInv, CheckHoldsThroughWrite, AsReviewed, Swapped, roster, forms, OnRoster
<1>7. Shapes'
  BY <1>2, <1>3, RowsStand DEF IInv, Shapes
<1> QED
  BY <1>2, <1>4, <1>5, <1>6, <1>7, RowsStand DEF IInv

\* What a call checks is checked under the locks of all its days.
LEMMA CheckKeeps ==
    ASSUME IInv, NEW p \in Planners, Check(p)
    PROVE  IInv'
<1>1. CASE Refuse(p)
  BY <1>1, RefuseKeeps
<1>2. CASE /\ Fits(p) /\ step' = [step EXCEPT ![p] = "checked"]
           /\ UNCHANGED <<today, roster, forms, call, locks, left>>
  <2>1. step[p] = "locking" /\ Unlocked(p) = {} /\ Planned(call[p])
    BY DEF Check, IInv, Calls
  <2>2. /\ step' = [q \in Planners |-> step'[q]] /\ step'[p] = "checked"
        /\ call' = call
        /\ \A q \in Planners \ {p} : step'[q] = step[q]
    BY <1>2 DEF IInv, Shapes
  <2>3. UNCHANGED <<roster, forms, locks>> /\ today' \in Nat /\ today <= today'
    BY <1>2 DEF IInv, Shapes
  <2>4. Calls'
    BY <2>1, <2>2 DEF IInv, Calls
  <2>5. HoldsDays'
    BY <2>1, <2>2, <2>3 DEF IInv, HoldsDays, Unlocked, DaysToLock, locks
  <2>6. HoldsForm'
    BY <2>1, <2>2, <2>3 DEF IInv, HoldsForm, forms, OnRoster, locks
  <2>7. LET c == call[p] IN
          /\ c.op \in {"roster", "swap", "numbers"} => AsReviewed(p)
          /\ c.op = "swap" => OnRoster /\ \A d \in DOMAIN c.slots : ~Swapped(d)
          /\ c.op = "undo" => c.swap \in swaps
          /\ c.op = "numbers" => /\ form.id = c.form /\ ~carried
                                 /\ \A d \in DOMAIN c.slots : source[d] = "roster"
    BY <1>2, <2>1 DEF Fits, IInv, HoldsForm
  <2>8. CheckHoldsThroughWrite'
    BY <2>2, <2>3, <2>7 DEF IInv, CheckHoldsThroughWrite, AsReviewed, Swapped, roster, forms, OnRoster
  <2>9. Shapes'
    BY <2>2, <2>3, RowsStand DEF IInv, Shapes, locks
  <2> QED
    BY <2>3, <2>4, <2>5, <2>6, <2>8, <2>9, RowsStand DEF IInv
<1> QED
  BY <1>1, <1>2 DEF Check

LEMMA NextDayKeeps ==
    ASSUME IInv, NextDay
    PROVE  IInv'
<1>1. /\ UNCHANGED <<roster, forms, call, step, locks>>
      /\ today' \in Nat /\ today <= today'
  BY DEF NextDay, IInv, Shapes
<1>2. Calls' /\ HoldsForm' /\ HoldsDays'
  BY <1>1 DEF IInv, Calls, HoldsForm, HoldsDays, forms, locks, OnRoster
<1>3. CheckHoldsThroughWrite'
  BY <1>1 DEF IInv, CheckHoldsThroughWrite, AsReviewed, Swapped, roster, forms, OnRoster
<1>4. Shapes'
  BY <1>1, RowsStand DEF IInv, Shapes, locks
<1> QED
  BY <1>1, <1>2, <1>3, <1>4, RowsStand DEF IInv

-----------------------------------------------------------------------------
(* Forms. *)

\* A form that follows another starts on its own date, whatever is assigned.
LEMMA StartAfterFirst == closed # {} \/ carried => EffectiveStart = form.start
BY DEF EffectiveStart

\* The form that opens when the roster comes back starts after every closed
\* one; no call that names a form waits for it.
LEMMA ReopenKeeps ==
    ASSUME IInv, Reopen
    PROVE  IInv'
<1>1. /\ ~OnRoster /\ opened' = opened + 1
      /\ UNCHANGED <<today, roster, carried, numbered, closed, call, step, locks, left>>
  BY DEF Reopen
<1>2. /\ form'.id = opened + 1 /\ form'.start \in Nat
      /\ \A f \in closed : f.end < form'.start
  <2>1. CASE closed = {}
    BY <2>1 DEF Reopen, IInv, Shapes
  <2>2. CASE closed # {}
    <3> DEFINE ends == {f.end : f \in closed}
    <3>1. \A x \in ends : x \in Nat
      BY DEF IInv, Forms
    <3>2. \E x \in ends : \A y \in ends : x >= y
      BY <2>2 DEF IInv, Forms
    <3>3. form' = [id |-> opened + 1, start |-> Max(ends) + 1]
      BY <2>2 DEF Reopen
    <3>4. \A f \in closed : f.end \in ends
      OBVIOUS
    <3> HIDE DEF ends
    <3>5. Max(ends) \in ends /\ \A y \in ends : Max(ends) >= y
      BY <3>2 DEF Max
    <3> QED
      BY <3>1, <3>3, <3>4, <3>5
  <2> QED
    BY <2>1, <2>2
<1>3. opened \in Nat /\ OnRoster' /\ ~carried
  BY <1>1, <1>2 DEF IInv, Shapes, Forms, OnRoster, NoForm
<1>4. Forms'
  BY <1>1, <1>2, <1>3 DEF IInv, Forms
<1>5. FormsInOrder'
  <2>1. \A f \in closed : f.id < form'.id
    BY <1>2, <1>3 DEF IInv, Forms
  <2> QED
    BY <1>1, <1>2, <2>1 DEF IInv, FormsInOrder
<1>6. \A p \in Planners : step[p] \in {"locking", "checked"} => call[p].op \notin {"numbers", "swap"}
  BY <1>1 DEF IInv, HoldsForm, Calls, Planned, OnRoster, NoForm
<1>7. HoldsForm' /\ CheckHoldsThroughWrite'
  BY <1>1, <1>6 DEF IInv, HoldsForm, CheckHoldsThroughWrite, AsReviewed, Swapped, roster
<1>8. Calls' /\ HoldsDays' /\ SwapsKnown' /\ SwapsStand' /\ RosterMarkIsEarned'
  BY <1>1 DEF IInv, Calls, HoldsDays, SwapsKnown, SwapsStand, RosterMarkIsEarned, roster, locks
<1>9. Shapes'
  BY <1>1, <1>3 DEF IInv, Shapes, roster, locks
<1> QED
  BY <1>4, <1>5, <1>7, <1>8, <1>9 DEF IInv

\* The form a close leaves open starts after the one it closes.
LEMMA CloseKeeps ==
    ASSUME IInv, NEW p \in Planners, Close(p)
    PROVE  IInv'
<1>1. CASE Refuse(p)
  BY <1>1, RefuseKeeps
<1>2. CASE /\ DeviceDate(call[p].date) /\ OnRoster
           /\ call[p].started = (EffectiveStart <= call[p].date)
           /\ closed' = IF call[p].started
                        THEN closed \cup {[id |-> form.id, start |-> EffectiveStart,
                                           end |-> call[p].date, numbered |-> numbered]}
                        ELSE closed
           /\ form' = IF call[p].ending THEN NoForm
                      ELSE IF call[p].started
                           THEN [id |-> opened + 1, start |-> NextStart(call[p].date)]
                      ELSE form
           /\ opened' = IF call[p].started /\ ~call[p].ending THEN opened + 1 ELSE opened
           /\ carried' = (~call[p].ending /\ call[p].carry # {})
           /\ Release(p)
           /\ UNCHANGED <<today, roster, left>>
  <2> DEFINE c == call[p]
             old == [id |-> form.id, start |-> EffectiveStart,
                     end |-> c.date, numbered |-> numbered]
  <2>1. c.date \in Nat /\ c.date <= today + 1 /\ today \in Nat /\ opened \in Nat
    BY <1>2 DEF Close, IInv, Calls, Closing, Planned, DayOps, Shapes, DeviceDate
  <2>2. form.id \in Nat /\ form.id # 0 /\ form.id <= opened /\ form.start \in Nat
    BY <1>2 DEF IInv, Forms
  <2>3. /\ call' = [q \in Planners |-> call'[q]] /\ step' = [q \in Planners |-> step'[q]]
        /\ step'[p] = "idle"
        /\ \A q \in Planners \ {p} : call'[q] = call[q] /\ step'[q] = step[q]
        /\ \A q \in Planners \ {p} : formLock = q => formLock' = q
        /\ Calls' /\ HoldsDays'
        /\ dayLock' \in [Days -> Planners \cup {NoOne}]
    BY <1>2, ReleaseKeeps
  <2>4. \A q \in Planners : step[q] \in {"locking", "checked"} => call[q].op \notin {"numbers", "swap"}
    BY DutyRosterAssumption DEF Close, FormFree, SharesType, IInv, HoldsForm
  <2>5. HoldsForm' /\ CheckHoldsThroughWrite'
    BY <1>2, <2>3, <2>4 DEF IInv, HoldsForm, CheckHoldsThroughWrite, AsReviewed, Swapped, roster
  <2>6. SwapsKnown' /\ SwapsStand' /\ RosterMarkIsEarned'
    BY <1>2 DEF IInv, SwapsKnown, SwapsStand, RosterMarkIsEarned, roster
  <2>7. opened' \in Nat /\ opened <= opened'
    BY <1>2, <2>1
  <2>8. Shapes'
    BY <1>2, <2>3, <2>7 DEF IInv, Shapes, roster
  <2>9. CASE ~c.started
    <3>1. closed' = closed /\ opened' = opened /\ (form' = NoForm \/ form' = form)
      BY <1>2, <2>9
    <3>2. form' = NoForm => ~carried'
      <4>1. CASE c.ending
        BY <1>2, <4>1
      <4>2. CASE ~c.ending
        BY <1>2, <2>2, <2>9, <4>2 DEF NoForm
      <4> QED
        BY <4>1, <4>2
    <3>3. Forms'
      BY <1>2, <3>1, <3>2 DEF IInv, Forms, OnRoster
    <3>4. FormsInOrder'
      BY <1>2, <3>1 DEF IInv, FormsInOrder, OnRoster
    <3> QED
      BY <2>3, <2>5, <2>6, <2>8, <3>3, <3>4 DEF IInv
  <2>10. CASE c.started
    <3>1. closed' = closed \cup {old} /\ EffectiveStart <= c.date
      BY <1>2, <2>10
    <3>2. \/ form' = NoForm /\ opened' = opened /\ ~carried'
          \/ form' = [id |-> opened + 1, start |-> c.date + 1] /\ opened' = opened + 1
      BY <1>2, <2>10 DEF NextStart
    <3>3. Forms'
      <4>1. \A f \in closed' : f.id \in Nat /\ f.id <= opened' /\ f.end \in Nat
        BY <2>1, <2>2, <2>7, <3>1 DEF IInv, Forms
      <4>2. OnRoster' => form'.id \in Nat /\ form'.id # 0 /\ form'.id <= opened' /\ form'.start \in Nat
        BY <2>1, <3>2 DEF OnRoster
      <4>3. ~OnRoster' => ~carried'
        BY <2>1, <3>2 DEF OnRoster, NoForm
      <4>4. \E f \in closed' : \A g \in closed' : g.end <= f.end
        <5>1. \A g \in closed : g.end <= c.date
          <6> SUFFICES ASSUME NEW g \in closed PROVE g.end <= c.date
            OBVIOUS
          <6>1. g.end \in Nat /\ g.end < form.start
            BY <1>2 DEF IInv, Forms, FormsInOrder
          <6>2. form.start <= c.date
            BY <3>1, StartAfterFirst
          <6> QED
            BY <2>1, <2>2, <6>1, <6>2
        <5>2. old \in closed' /\ old.end = c.date
          BY <3>1
        <5>3. \A g \in closed' : g.end <= c.date
          BY <2>1, <3>1, <5>1, <5>2
        <5> QED
          BY <5>2, <5>3
      <4> QED
        BY <4>1, <4>2, <4>3, <4>4 DEF Forms
    <3>4. \A f \in closed : f.id < form.id /\ f.end < EffectiveStart
      BY <1>2, StartAfterFirst DEF IInv, FormsInOrder
    <3>5. \A f, g \in closed' : f.id < g.id => f.end < g.start
      <4> SUFFICES ASSUME NEW f \in closed', NEW g \in closed', f.id < g.id PROVE f.end < g.start
        OBVIOUS
      <4>1. CASE f \in closed /\ g \in closed
        BY <4>1 DEF IInv, FormsInOrder
      <4>2. CASE f \in closed /\ g = old
        BY <3>4, <4>2
      <4>3. CASE f = old
        <5>1. g.id <= form.id /\ g.id \in Nat
          BY <2>2, <3>1, <3>4 DEF IInv, Forms
        <5> QED
          BY <2>2, <4>3, <5>1
      <4> QED
        BY <3>1, <4>1, <4>2, <4>3
    <3>6. \A f \in closed' : f.start <= f.end
      BY <3>1 DEF IInv, FormsInOrder
    <3>7. ASSUME OnRoster', NEW f \in closed' PROVE f.id < form'.id /\ f.end < form'.start
      <4>1. form'.id = opened + 1 /\ form'.start = c.date + 1
        BY <3>2, <3>7 DEF OnRoster
      <4>2. CASE f = old
        BY <2>1, <2>2, <4>1, <4>2
      <4>3. CASE f \in closed
        <5>1. f.id \in Nat /\ f.id <= opened /\ f.end \in Nat /\ f.end < form.start /\ f.id < form.id
          BY <1>2, <4>3 DEF IInv, Forms, FormsInOrder
        <5>2. form.start <= c.date
          BY <3>1, <4>3, StartAfterFirst
        <5> QED
          BY <2>1, <2>2, <4>1, <5>1, <5>2
      <4> QED
        BY <3>1, <4>2, <4>3
    <3> QED
      BY <2>3, <2>5, <2>6, <2>8, <3>3, <3>5, <3>6, <3>7 DEF IInv, FormsInOrder
  <2> QED
    BY <2>9, <2>10
<1> QED
  BY <1>1, <1>2 DEF Close

-----------------------------------------------------------------------------
(* Writes. *)

Plan(p) == call[p].slots
Changed(p) == {d \in DOMAIN Plan(p) : Plan(p)[d].by # holder[d]}

\* What a write of a call that was checked does, row by row.
LEMMA Written ==
    ASSUME IInv, NEW p \in Planners, Write(p)
    PROVE  /\ step[p] = "checked" /\ Planned(call[p])
           /\ \A d \in Days : holder'[d] = IF d \in DOMAIN Plan(p) THEN Plan(p)[d].by ELSE holder[d]
           /\ \A d \in Days : source'[d] = IF d \in DOMAIN Plan(p)
                                           THEN SourceAfter(d, Plan(p)[d]) ELSE source[d]
           /\ \A d \in Days : changedBy'[d] = IF d \notin Changed(p) THEN changedBy[d]
                                              ELSE IF call[p].op = "swap" THEN made + 1 ELSE 0
           /\ \A d \in Days : picked'[d] =
                  IF call[p].op # "undo" /\ d \in DOMAIN Plan(p) /\ Plan(p)[d].src = "roster"
                  THEN Plan(p)[d].by ELSE picked[d]
           /\ made' = IF call[p].op = "swap" THEN made + 1 ELSE made
           /\ made \in Nat /\ made' \in Nat
           /\ Release(p)
           /\ UNCHANGED <<today, form, carried, closed, opened, left>>
           /\ holder' \in [Days -> People \cup {NoOne}]
           /\ source' \in [Days -> Sources]
           /\ picked' \in [Days -> People \cup {NoOne}]
           /\ changedBy' \in [Days -> Nat]
<1>1. step[p] = "checked" /\ Planned(call[p])
  BY DEF Write, IInv, Calls
<1>2. \A d \in DOMAIN Plan(p) : d \in Days /\ Plan(p)[d] \in Slot
  BY <1>1 DEF Planned, Plan
<1>3. \A d \in DOMAIN Plan(p) : Plan(p)[d].by \in People \cup {NoOne} /\ Plan(p)[d].src \in Sources
  BY <1>2 DEF Slot
<1>4. made \in Nat
  BY DEF IInv, Shapes
<1>5. /\ holder' = [d \in Days |-> IF d \in DOMAIN Plan(p) THEN Plan(p)[d].by ELSE holder[d]]
      /\ holder \in [Days -> People \cup {NoOne}]
  BY DEF Write, Plan, IInv, Shapes
<1>6. /\ source' = [d \in Days |-> IF d \in DOMAIN Plan(p)
                                   THEN SourceAfter(d, Plan(p)[d]) ELSE source[d]]
      /\ source \in [Days -> Sources]
  BY DEF Write, Plan, IInv, Shapes
<1>7. \A d \in DOMAIN Plan(p) : SourceAfter(d, Plan(p)[d]) \in Sources
  BY <1>2, <1>6 DEF SourceAfter, Sources
<1>8. /\ changedBy' = [d \in Days |-> IF d \notin Changed(p) THEN changedBy[d]
                                      ELSE IF call[p].op = "swap" THEN made + 1 ELSE 0]
      /\ changedBy \in [Days -> Nat]
  BY DEF Write, Plan, Changed, IInv, Shapes
<1>9. /\ picked' = [d \in Days |->
            IF call[p].op # "undo" /\ d \in DOMAIN Plan(p) /\ Plan(p)[d].src = "roster"
            THEN Plan(p)[d].by ELSE picked[d]]
      /\ picked \in [Days -> People \cup {NoOne}]
  BY DEF Write, Plan, IInv, Shapes
<1>10. /\ made' = IF call[p].op = "swap" THEN made + 1 ELSE made
       /\ Release(p) /\ UNCHANGED <<today, form, carried, closed, opened, left>>
  BY DEF Write
<1>11. made' \in Nat
  BY <1>4, <1>10
<1>12. holder' \in [Days -> People \cup {NoOne}] /\ picked' \in [Days -> People \cup {NoOne}]
  BY <1>3, <1>5, <1>9
<1>13. source' \in [Days -> Sources] /\ changedBy' \in [Days -> Nat]
  BY <1>4, <1>6, <1>7, <1>8
<1> QED
  BY <1>1, <1>4, <1>5, <1>6, <1>8, <1>9, <1>10, <1>11, <1>12, <1>13

\* The swaps that stand after a write: those none of whose days it changes,
\* and the one it makes.
LEMMA WrittenSwaps ==
    ASSUME IInv, NEW p \in Planners, Write(p), NEW w \in swaps'
    PROVE  \/ /\ w \in swaps
              /\ \A d \in DOMAIN w.held : d \in Days /\ d \notin Changed(p) /\ holder'[d] = holder[d]
           \/ /\ call[p].op = "swap" /\ DOMAIN w.held = DOMAIN Plan(p) /\ w.id = made + 1
              /\ \A d \in DOMAIN w.held : w.held[d] = [by |-> holder[d], src |-> source[d]]
<1> DEFINE changed == {d \in DOMAIN call[p].slots : call[p].slots[d].by # holder[d]}
           standing == swaps \ Ended({d \in changed : holder[d] # NoOne})
           swap == [id |-> made + 1,
                    held |-> [d \in DOMAIN call[p].slots |-> [by |-> holder[d], src |-> source[d]]]]
<1>1. swaps' = CASE call[p].op = "swap" -> standing \cup {swap}
                 [] call[p].op = "undo" -> standing \ {call[p].swap}
                 [] OTHER               -> standing
  BY DEF Write
<1>2. w \in standing \/ (call[p].op = "swap" /\ w = swap)
  BY <1>1
<1>3. CASE w \in standing
  <2>1. w \in swaps /\ \A d \in DOMAIN w.held : d \in Days /\ holder[d] # NoOne
    BY <1>3 DEF IInv, SwapsKnown
  <2>2. \A d \in DOMAIN w.held : d \notin Changed(p)
    BY <1>3, <2>1 DEF Ended, Changed, Plan
  <2>3. \A d \in DOMAIN w.held : holder'[d] = holder[d]
    BY <2>1, <2>2, Written DEF Changed
  <2> QED
    BY <2>1, <2>2, <2>3
<1>4. CASE call[p].op = "swap" /\ w = swap
  BY <1>4 DEF Plan
<1> QED
  BY <1>2, <1>3, <1>4

\* The days of a swap as its checked plan has them.
LEMMA SwapPlan ==
    ASSUME IInv, NEW p \in Planners, Write(p), call[p].op = "swap"
    PROVE  /\ DOMAIN Plan(p) # {}
           /\ \A d \in DOMAIN Plan(p) : /\ d \in Days /\ d \in Changed(p) /\ holder[d] \in People
                                        /\ Plan(p)[d].by \in People /\ Plan(p)[d].src = "manual"
           /\ \A d, e \in DOMAIN Plan(p) : d # e => Plan(p)[d].by = holder[e]
<1>1. step[p] = "checked" /\ Planned(call[p])
  BY Written
<1>2. \A d \in DOMAIN Plan(p) : holder[d] = Plan(p)[d].was
  BY <1>1 DEF IInv, CheckHoldsThroughWrite, AsReviewed, Plan
<1> QED
  BY <1>1, <1>2 DEF Planned, Plan, Changed

LEMMA WriteKeepsSwaps ==
    ASSUME IInv, NEW p \in Planners, Write(p)
    PROVE  SwapsKnown' /\ SwapsStand'
<1>1. SwapsStand'
  <2> SUFFICES ASSUME NEW w \in swaps', NEW d \in DOMAIN w.held, NEW e \in DOMAIN w.held
               PROVE  changedBy'[d] = w.id /\ (d # e => holder'[d] = w.held[e].by)
    BY DEF SwapsStand
  <2>1. CASE w \in swaps /\ \A x \in DOMAIN w.held :
                 x \in Days /\ x \notin Changed(p) /\ holder'[x] = holder[x]
    BY <2>1, Written DEF IInv, SwapsStand
  <2>2. CASE /\ call[p].op = "swap" /\ DOMAIN w.held = DOMAIN Plan(p) /\ w.id = made + 1
             /\ \A x \in DOMAIN w.held : w.held[x] = [by |-> holder[x], src |-> source[x]]
    <3>1. d \in Days /\ d \in Changed(p) /\ (d # e => Plan(p)[d].by = holder[e])
      BY <2>2, SwapPlan
    <3>2. changedBy'[d] = made + 1
      BY <2>2, <3>1, Written
    <3>3. holder'[d] = Plan(p)[d].by
      BY <2>2, <3>1, Written
    <3>4. w.held[e].by = holder[e]
      <4>1. w.held[e] = [by |-> holder[e], src |-> source[e]]
        BY <2>2
      <4> QED
        BY <4>1
    <3> QED
      BY <2>2, <3>1, <3>2, <3>3, <3>4
  <2> QED
    BY <2>1, <2>2, WrittenSwaps
<1>2. SwapsKnown'
  <2> SUFFICES ASSUME NEW w \in swaps'
               PROVE  /\ w.id \in Nat /\ w.id <= made'
                      /\ \A d \in DOMAIN w.held :
                            /\ d \in Days /\ holder'[d] # NoOne
                            /\ w.held[d] \in [by : People, src : Sources]
                            /\ w.held[d].src = "roster" => picked'[d] = w.held[d].by
                      /\ DOMAIN w.held # {}
    BY DEF SwapsKnown
  <2>1. CASE w \in swaps /\ \A x \in DOMAIN w.held :
                 x \in Days /\ x \notin Changed(p) /\ holder'[x] = holder[x]
    <3>1. \A d \in DOMAIN w.held : picked'[d] = picked[d]
      <4> SUFFICES ASSUME NEW d \in DOMAIN w.held, call[p].op # "undo",
                          d \in DOMAIN Plan(p), Plan(p)[d].src = "roster"
                   PROVE  FALSE
        BY <2>1, Written
      <4>1. step[p] = "checked" /\ Planned(call[p])
        BY Written
      <4>2. call[p].op \in {"roster", "numbers"}
        BY <4>1 DEF Planned, DayOps, Plan
      <4>3. holder[d] = Plan(p)[d].was /\ Plan(p)[d].by # Plan(p)[d].was
        BY <4>1, <4>2 DEF Planned, Plan, IInv, CheckHoldsThroughWrite, AsReviewed
      <4> QED
        BY <2>1, <4>3 DEF Changed
    <3> QED
      BY <2>1, <3>1, Written DEF IInv, SwapsKnown
  <2>2. CASE /\ call[p].op = "swap" /\ DOMAIN w.held = DOMAIN Plan(p) /\ w.id = made + 1
             /\ \A x \in DOMAIN w.held : w.held[x] = [by |-> holder[x], src |-> source[x]]
    <3>1. w.id \in Nat /\ w.id <= made' /\ DOMAIN w.held # {}
      BY <2>2, SwapPlan, Written
    <3>2. ASSUME NEW d \in DOMAIN w.held
          PROVE  /\ d \in Days /\ holder'[d] # NoOne
                 /\ w.held[d] \in [by : People, src : Sources]
                 /\ w.held[d].src = "roster" => picked'[d] = w.held[d].by
      <4>1. /\ d \in Days /\ holder[d] \in People
            /\ Plan(p)[d].by \in People /\ Plan(p)[d].src = "manual"
        BY <2>2, SwapPlan
      <4>2. source[d] \in Sources /\ (source[d] = "roster" => holder[d] = picked[d])
        BY <4>1 DEF IInv, Shapes, RosterMarkIsEarned
      <4>3. holder'[d] = Plan(p)[d].by /\ picked'[d] = picked[d]
        BY <2>2, <4>1, Written
      <4>4. w.held[d] = [by |-> holder[d], src |-> source[d]]
        BY <2>2
      <4> QED
        BY <4>1, <4>2, <4>3, <4>4, DutyRosterAssumption
    <3> QED
      BY <3>1, <3>2
  <2> QED
    BY <2>1, <2>2, WrittenSwaps
<1> QED
  BY <1>1, <1>2

LEMMA WriteKeepsMarks ==
    ASSUME IInv, NEW p \in Planners, Write(p)
    PROVE  RosterMarkIsEarned'
<1> SUFFICES ASSUME NEW d \in Days, source'[d] = "roster"
             PROVE  holder'[d] = picked'[d]
  BY DEF RosterMarkIsEarned
<1>1. source[d] = "roster" => holder[d] = picked[d]
  BY DEF IInv, RosterMarkIsEarned
<1>2. CASE d \notin DOMAIN Plan(p)
  BY <1>1, <1>2, Written
<1>3. CASE d \in DOMAIN Plan(p) /\ Plan(p)[d].src = "roster"
  <2>1. CASE call[p].op # "undo"
    BY <1>3, <2>1, Written
  <2>2. CASE call[p].op = "undo"
    <3>1. step[p] = "checked" /\ Planned(call[p])
      BY Written
    <3>2. /\ call[p].swap \in swaps /\ d \in DOMAIN call[p].swap.held
          /\ Plan(p)[d].by = call[p].swap.held[d].by
          /\ Plan(p)[d].src = call[p].swap.held[d].src
      BY <1>3, <2>2, <3>1 DEF IInv, CheckHoldsThroughWrite, Planned, Plan
    <3>3. picked[d] = Plan(p)[d].by
      BY <1>3, <3>2 DEF IInv, SwapsKnown
    <3> QED
      BY <1>3, <2>2, <3>3, Written
  <2> QED
    BY <2>1, <2>2
<1>4. CASE d \in DOMAIN Plan(p) /\ Plan(p)[d].src # "roster"
  <2>1. Plan(p)[d].by = holder[d] /\ source[d] = "roster"
    BY <1>4, Written DEF SourceAfter
  <2> QED
    BY <1>1, <1>4, <2>1, Written
<1> QED
  BY <1>2, <1>3, <1>4

\* No write reaches the days of another call that has been checked.
LEMMA OtherDays ==
    ASSUME IInv, NEW p \in Planners, Write(p), NEW q \in Planners \ {p}, step[q] = "checked"
    PROVE  \A d \in DOMAIN Plan(q) : /\ d \in Days /\ d \notin DOMAIN Plan(p)
                                     /\ holder'[d] = holder[d] /\ source'[d] = source[d]
<1>1. \A d \in DOMAIN Plan(q) : d \in Days /\ dayLock[d] = q
  BY DEF IInv, Calls, Planned, HoldsDays, Plan
<1>2. \A d \in DOMAIN Plan(p) : dayLock[d] = p
  BY Written DEF IInv, HoldsDays, Plan
<1>3. \A d \in DOMAIN Plan(q) : d \notin DOMAIN Plan(p)
  BY <1>1, <1>2
<1> QED
  BY <1>1, <1>3, Written

LEMMA WriteKeepsChecks ==
    ASSUME IInv, NEW p \in Planners, Write(p)
    PROVE  CheckHoldsThroughWrite'
<1> SUFFICES ASSUME NEW q \in Planners, step'[q] = "checked"
             PROVE  LET c == call'[q] IN
                    /\ c.op \in {"roster", "swap", "numbers"} =>
                          \A d \in DOMAIN c.slots : holder'[d] = c.slots[d].was
                    /\ c.op = "swap" => OnRoster' /\ \A d \in DOMAIN c.slots :
                                           ~\E w \in swaps' : d \in DOMAIN w.held
                    /\ c.op = "undo" => c.swap \in swaps'
                    /\ c.op = "numbers" => /\ form'.id = c.form /\ ~carried'
                                           /\ \A d \in DOMAIN c.slots : source'[d] = "roster"
  BY DEF CheckHoldsThroughWrite, AsReviewed, Swapped
<1>1. q \in Planners \ {p} /\ call'[q] = call[q] /\ step[q] = "checked"
  BY Written, ReleaseKeeps
<1> DEFINE c == call[q]
<1>2. /\ c.op \in {"roster", "swap", "numbers"} => \A d \in DOMAIN Plan(q) : holder[d] = Plan(q)[d].was
      /\ c.op = "swap" => OnRoster /\ \A d \in DOMAIN Plan(q) : ~\E w \in swaps : d \in DOMAIN w.held
      /\ c.op = "undo" => c.swap \in swaps
      /\ c.op = "numbers" => /\ form.id = c.form /\ ~carried
                             /\ \A d \in DOMAIN Plan(q) : source[d] = "roster"
  BY <1>1 DEF IInv, CheckHoldsThroughWrite, AsReviewed, Swapped, Plan
<1>3. \A d \in DOMAIN Plan(q) : /\ d \in Days /\ d \notin DOMAIN Plan(p)
                                /\ holder'[d] = holder[d] /\ source'[d] = source[d]
  BY <1>1, OtherDays
<1>4. form' = form /\ carried' = carried /\ OnRoster' = OnRoster
  BY Written DEF OnRoster
<1>5. c.op = "swap" => \A d \in DOMAIN Plan(q) : ~\E w \in swaps' : d \in DOMAIN w.held
  BY <1>2, <1>3, WrittenSwaps
<1>6. ASSUME c.op = "undo" PROVE c.swap \in swaps'
  <2>1. c.swap \in swaps /\ DOMAIN c.swap.held = DOMAIN Plan(q) /\ DOMAIN Plan(q) # {}
    BY <1>1, <1>2, <1>6 DEF IInv, Calls, Planned, Plan
  <2>2. c.swap \notin Ended({d \in Changed(p) : holder[d] # NoOne})
    BY <1>3, <2>1 DEF Ended, Changed
  <2>3. call[p].op = "undo" => call[p].swap # c.swap
    <3>1. ASSUME call[p].op = "undo" PROVE DOMAIN call[p].swap.held = DOMAIN Plan(p)
      BY <3>1, Written DEF Planned, Plan
    <3> QED
      BY <1>3, <2>1, <3>1
  <2> QED
    BY <2>1, <2>2, <2>3 DEF Write, Changed, Plan
<1> QED
  BY <1>1, <1>2, <1>3, <1>4, <1>5, <1>6 DEF Plan

LEMMA WriteKeeps ==
    ASSUME IInv, NEW p \in Planners, Write(p)
    PROVE  IInv'
<1>1. /\ UNCHANGED <<today, form, carried, closed, opened>> /\ made' \in Nat
      /\ Release(p)
      /\ holder' \in [Days -> People \cup {NoOne}]
      /\ source' \in [Days -> Sources]
      /\ picked' \in [Days -> People \cup {NoOne}]
      /\ changedBy' \in [Days -> Nat]
  BY Written
<1>2. /\ step'[p] = "idle"
      /\ \A q \in Planners \ {p} : call'[q] = call[q] /\ step'[q] = step[q]
      /\ \A q \in Planners \ {p} : formLock = q => formLock' = q
      /\ Calls' /\ HoldsDays'
  BY <1>1, ReleaseKeeps
<1>3. HoldsForm'
  BY <1>1, <1>2 DEF IInv, HoldsForm, OnRoster
<1>4. Forms' /\ FormsInOrder'
  BY <1>1 DEF IInv, Forms, FormsInOrder, OnRoster
<1>5. Shapes'
  BY <1>1, ReleaseKeeps DEF IInv, Shapes
<1> QED
  BY <1>2, <1>3, <1>4, <1>5, WriteKeepsSwaps, WriteKeepsMarks, WriteKeepsChecks DEF IInv

-----------------------------------------------------------------------------
(* One book. *)

\* Two swaps that stand have no day in common, a day of one is not the
\* roster's pick, and neither is a day that nobody has.
BookInv ==
    /\ \A v, w \in swaps : \A d \in DOMAIN v.held : d \in DOMAIN w.held => v = w
    /\ \A w \in swaps : \A d \in DOMAIN w.held : source[d] = "manual"
    /\ \A d \in Days : holder[d] = NoOne => source[d] = "manual"

\* What the rows say, as the book has it.
Page == [d \in Days |-> [by |-> holder[d], src |-> source[d]]]
Undoable == {w.held : w \in swaps}

\* Only writes change the rows.
LEMMA OnlyWrites ==
    ASSUME IInv, [Next]_vars
    PROVE  UNCHANGED roster \/ \E p \in Planners : Write(p)
<1>1. ASSUME NEW p \in Planners,
             \/ AskReplace(p) \/ AskRoster(p) \/ AskSwap(p) \/ AskUndo(p)
             \/ AskNumbers(p) \/ AskClose(p)
      PROVE  UNCHANGED roster
  <2>1. PICK c : Ask(p, c)
    BY <1>1, AskedIsPlanned
  <2> QED
    BY <2>1 DEF Ask
<1>2. ASSUME NEW p \in Planners, Begin(p) \/ LockDay(p) \/ Check(p) \/ Close(p)
      PROVE  UNCHANGED roster
  BY <1>2 DEF Begin, LockDay, Check, Close, Refuse
<1>3. CASE Reopen \/ NextDay \/ UNCHANGED vars
  BY <1>3 DEF Reopen, NextDay, vars
<1> QED
  BY <1>1, <1>2, <1>3 DEF Next

\* Which swaps a write leaves: those of whose days it gives none to somebody
\* else, and the one it makes.
LEMMA SwapsLeft ==
    ASSUME IInv, BookInv, NEW p \in Planners, Write(p)
    PROVE  LET kept == {w \in swaps : \A d \in DOMAIN w.held : d \notin Changed(p)}
               new == [id |-> made + 1,
                       held |-> [d \in DOMAIN Plan(p) |-> [by |-> holder[d], src |-> source[d]]]]
           IN  swaps' = CASE call[p].op = "swap" -> kept \cup {new}
                          [] call[p].op = "undo" -> kept \ {call[p].swap}
                          [] OTHER               -> kept
<1> DEFINE standing == swaps \ Ended({d \in Changed(p) : holder[d] # NoOne})
           kept == {w \in swaps : \A d \in DOMAIN w.held : d \notin Changed(p)}
<1>1. standing = kept
  <2>1. \A w \in swaps : \A d \in DOMAIN w.held : holder[d] # NoOne
    BY DEF IInv, SwapsKnown
  <2> QED
    BY <2>1 DEF Ended
<1> QED
  BY <1>1 DEF Write, Plan, Changed

\* An undo is of a swap that stands, on its days and no other's.
LEMMA UndoPlan ==
    ASSUME IInv, BookInv, NEW p \in Planners, Write(p), call[p].op = "undo"
    PROVE  LET w == call[p].swap
           IN  /\ w \in swaps /\ DOMAIN Plan(p) = DOMAIN w.held
               /\ \A d \in DOMAIN w.held : /\ d \in Days /\ source[d] = "manual"
                                           /\ Plan(p)[d].by = w.held[d].by
                                           /\ Plan(p)[d].src = w.held[d].src
                                           /\ w.held[d] \in [by : People, src : Sources]
<1>1. step[p] = "checked" /\ Planned(call[p])
  BY Written
<1>2. call[p].swap \in swaps
  BY <1>1 DEF IInv, CheckHoldsThroughWrite
<1> QED
  BY <1>1, <1>2 DEF Planned, Plan, IInv, SwapsKnown, BookInv

\* Roster writes and saves of numbers give each of their days to a Person
\* who did not have it.
LEMMA RosterPlan ==
    ASSUME IInv, NEW p \in Planners, Write(p), call[p].op \in {"roster", "numbers"}
    PROVE  \A d \in DOMAIN Plan(p) : d \in Days /\ d \in Changed(p) /\ Plan(p)[d].by \in People
<1>1. step[p] = "checked" /\ Planned(call[p])
  BY Written
<1>2. \A d \in DOMAIN Plan(p) : holder[d] = Plan(p)[d].was
  BY <1>1 DEF IInv, CheckHoldsThroughWrite, AsReviewed, Plan
<1> QED
  BY <1>1, <1>2 DEF Planned, Plan, Changed

\* A hand assignment marks what it changes manual and leaves the rest.
LEMMA HandPlan ==
    ASSUME IInv, BookInv, NEW p \in Planners, Write(p), call[p].op = "replace"
    PROVE  \A d \in DOMAIN Plan(p) :
               /\ d \in Days
               /\ source'[d] = IF d \in Changed(p) THEN "manual" ELSE source[d]
<1>1. Planned(call[p])
  BY Written
<1>2. \A d \in DOMAIN Plan(p) : d \in Days /\ Plan(p)[d].src = "manual"
  BY <1>1 DEF Planned, Plan
<1>3. \A d \in DOMAIN Plan(p) : source'[d] = SourceAfter(d, Plan(p)[d])
  BY <1>2, Written
<1> QED
  BY <1>2, <1>3 DEF SourceAfter, Changed, BookInv

LEMMA WriteKeepsBook ==
    ASSUME IInv, BookInv, NEW p \in Planners, Write(p)
    PROVE  BookInv'
<1>1. \A d \in Days : holder'[d] = NoOne => source'[d] = "manual"
  BY Written DEF SourceAfter, BookInv
<1>2. ASSUME NEW w \in swaps', NEW d \in DOMAIN w.held PROVE source'[d] = "manual"
  <2>1. CASE w \in swaps /\ \A x \in DOMAIN w.held :
                 x \in Days /\ x \notin Changed(p) /\ holder'[x] = holder[x]
    <3>1. d \in Days /\ d \notin Changed(p) /\ source[d] = "manual"
      BY <1>2, <2>1 DEF BookInv
    <3>2. CASE d \notin DOMAIN Plan(p)
      BY <3>1, <3>2, Written
    <3>3. CASE d \in DOMAIN Plan(p)
      <4>1. CASE call[p].op \in {"roster", "numbers"}
        BY <3>1, <3>3, <4>1, RosterPlan
      <4>2. CASE call[p].op = "swap"
        BY <3>1, <3>3, <4>2, SwapPlan
      <4>3. CASE call[p].op = "replace"
        BY <3>1, <3>3, <4>3, HandPlan
      <4>4. CASE call[p].op = "undo"
        <5>1. call[p].swap \in swaps /\ d \in DOMAIN call[p].swap.held
          BY <3>3, <4>4, UndoPlan
        <5>2. w = call[p].swap
          BY <1>2, <2>1, <5>1 DEF BookInv
        <5>3. w \notin swaps'
          BY <4>4, <5>2, SwapsLeft
        <5> QED
          BY <5>3
      <4> QED
        BY <4>1, <4>2, <4>3, <4>4, Written DEF Planned, DayOps
    <3> QED
      BY <3>2, <3>3
  <2>2. CASE call[p].op = "swap" /\ DOMAIN w.held = DOMAIN Plan(p)
    <3>1. d \in Days /\ d \in DOMAIN Plan(p) /\ d \in Changed(p) /\ Plan(p)[d].src = "manual"
      BY <2>2, SwapPlan
    <3>2. source'[d] = SourceAfter(d, Plan(p)[d])
      BY <3>1, Written
    <3> QED
      BY <3>1, <3>2 DEF SourceAfter, Changed
  <2> QED
    BY <2>1, <2>2, WrittenSwaps
<1>3. ASSUME NEW v \in swaps', NEW w \in swaps', NEW d \in DOMAIN v.held, d \in DOMAIN w.held
      PROVE  v = w
  <2> DEFINE new == [id |-> made + 1,
                     held |-> [a \in DOMAIN Plan(p) |-> [by |-> holder[a], src |-> source[a]]]]
  <2>1. CASE call[p].op # "swap"
    <3>1. v \in swaps /\ w \in swaps
      BY <2>1, SwapsLeft
    <3> QED
      BY <1>3, <3>1 DEF BookInv
  <2>2. CASE call[p].op = "swap"
    <3>1. \A x \in swaps' : x \in swaps \/ x = new
      BY <2>2, SwapsLeft
    <3>2. step[p] = "checked"
      BY Written
    <3>3. \A x \in swaps : \A e \in DOMAIN Plan(p) : e \notin DOMAIN x.held
      BY <2>2, <3>2 DEF IInv, CheckHoldsThroughWrite, Swapped, Plan
    <3>4. DOMAIN new.held = DOMAIN Plan(p)
      OBVIOUS
    <3> HIDE DEF new
    <3> QED
      BY <1>3, <3>1, <3>3, <3>4 DEF BookInv
  <2> QED
    BY <2>1, <2>2
<1> QED
  BY <1>1, <1>2, <1>3 DEF BookInv

LEMMA InitBook == Init => BookInv /\ Book!Init
<1> SUFFICES ASSUME Init PROVE BookInv /\ Book!Init
  OBVIOUS
<1>1. BookInv
  BY DEF Init, BookInv
<1>2. Page \in [Days -> {Book!Manual(k) : k \in People \cup {NoOne}}]
  BY DEF Init, Page, Book!Manual
<1>3. Undoable = {}
  BY DEF Init, Undoable
<1> QED
  BY <1>1, <1>2, <1>3 DEF Book!Init, Page, Undoable

LEMMA NextBook == IInv /\ BookInv /\ [Next]_vars => BookInv'
<1> SUFFICES ASSUME IInv, BookInv, [Next]_vars PROVE BookInv'
  OBVIOUS
<1>1. CASE UNCHANGED roster
  BY <1>1 DEF roster, BookInv
<1> QED
  BY <1>1, OnlyWrites, WriteKeepsBook

\* The book after a write, entry by entry.
LEMMA WrittenPage ==
    ASSUME IInv, NEW p \in Planners, Write(p)
    PROVE  /\ Page' \in [Days -> Book!Entry]
           /\ \A d \in Days : /\ Page[d] = [by |-> holder[d], src |-> source[d]]
                             /\ Page[d].by = holder[d] /\ Page[d].src = source[d]
                             /\ Page'[d] = [by |-> holder'[d], src |-> source'[d]]
                             /\ Page'[d].by = holder'[d] /\ Page'[d].src = source'[d]
           /\ Changed(p) \subseteq Days
           /\ \A d \in Days : holder'[d] # holder[d] <=> d \in Changed(p)
           /\ {d \in Days : Page'[d].by # Page[d].by} = Changed(p)
<1>1. \A d \in Days : /\ Page[d] = [by |-> holder[d], src |-> source[d]]
                      /\ Page'[d] = [by |-> holder'[d], src |-> source'[d]]
  BY DEF Page
<1>2. \A d \in DOMAIN Plan(p) : d \in Days
  BY Written DEF Planned, Plan
<1>3. \A d \in Days : holder'[d] # holder[d] <=> d \in Changed(p)
  BY <1>2, Written DEF Changed
<1>4. ASSUME NEW d \in Days PROVE Page[d].by = holder[d] /\ Page[d].src = source[d]
  <2>1. Page[d] = [by |-> holder[d], src |-> source[d]]
    BY <1>1
  <2> QED
    BY <2>1
<1>5. ASSUME NEW d \in Days PROVE Page'[d].by = holder'[d] /\ Page'[d].src = source'[d]
  <2>1. Page'[d] = [by |-> holder'[d], src |-> source'[d]]
    BY <1>1
  <2> QED
    BY <2>1
<1>6. Page' \in [Days -> Book!Entry]
  BY Written DEF Page, Book!Entry, Sources
<1>7. Changed(p) \subseteq Days
  BY <1>2 DEF Changed
<1>8. {d \in Days : Page'[d].by # Page[d].by} = Changed(p)
  BY <1>3, <1>4, <1>5, <1>7
<1> QED
  BY <1>1, <1>3, <1>4, <1>5, <1>6, <1>7, <1>8

\* Whatever is not a swap or an undo rewrites days and ends their swaps.
LEMMA WriteRewrites ==
    ASSUME IInv, BookInv, NEW p \in Planners, Write(p),
           call[p].op \in {"replace", "roster", "numbers"}
    PROVE  Book!ByHand \/ Book!ByRoster
<1>1. Book!Changed = Changed(p)
  BY WrittenPage DEF Book!Changed, Page
<1>2. ASSUME NEW d \in Days \ Changed(p) PROVE Page'[d] = Page[d]
  <2> SUFFICES holder'[d] = holder[d] /\ source'[d] = source[d]
    <3>1. /\ Page[d] = [by |-> holder[d], src |-> source[d]]
          /\ Page'[d] = [by |-> holder'[d], src |-> source'[d]]
      BY WrittenPage
    <3> QED
      BY <3>1
  <2>1. holder'[d] = holder[d]
    BY WrittenPage
  <2>2. CASE d \notin DOMAIN Plan(p)
    BY <2>1, <2>2, Written
  <2>3. CASE d \in DOMAIN Plan(p)
    <3>1. call[p].op = "replace"
      BY <2>3, RosterPlan
    <3> QED
      BY <2>1, <2>3, <3>1, HandPlan
  <2> QED
    BY <2>2, <2>3
<1>3. Undoable' = {x \in Undoable : DOMAIN x \cap Changed(p) = {}}
  <2>1. swaps' = {w \in swaps : \A d \in DOMAIN w.held : d \notin Changed(p)}
    BY SwapsLeft
  <2> QED
    BY <2>1 DEF Undoable
<1>4. Book!Rewrite
  BY <1>1, <1>2, <1>3, WrittenPage DEF Book!Rewrite, Page, Undoable
<1>5. CASE call[p].op = "replace"
  <2>1. \A d \in Changed(p) : d \in Days /\ source'[d] = "manual"
    BY <1>5, HandPlan DEF Changed
  <2>2. \A d \in Changed(p) : Page'[d].src = "manual"
    BY <2>1, WrittenPage
  <2> QED
    BY <1>1, <1>4, <2>2 DEF Book!ByHand, Page
<1>6. CASE call[p].op \in {"roster", "numbers"}
  <2>1. \A d \in Changed(p) : d \in Days /\ holder'[d] \in People
    <3>1. \A d \in Changed(p) : d \in DOMAIN Plan(p)
      BY DEF Changed
    <3> QED
      BY <1>6, <3>1, RosterPlan, Written
  <2>2. \A d \in Changed(p) : Page'[d].by # NoOne
    BY <2>1, WrittenPage, DutyRosterAssumption
  <2> QED
    BY <1>1, <1>4, <2>2 DEF Book!ByRoster, Page
<1> QED
  BY <1>5, <1>6

\* A swap exchanges the two holders of that moment.
LEMMA SwapExchanges ==
    ASSUME IInv, BookInv, NEW p \in Planners, Write(p), call[p].op = "swap"
    PROVE  \E a, b \in Days : Book!Exchange(a, b)
<1>1. step[p] = "checked" /\ Planned(call[p])
  BY Written
<1>2. PICK a, b : DOMAIN Plan(p) = {a, b} /\ a # b
  BY <1>1 DEF Planned, Plan
<1>3. /\ a \in Days /\ b \in Days
      /\ holder[a] \in People /\ holder[b] \in People
      /\ Plan(p)[a].by = holder[b] /\ Plan(p)[b].by = holder[a]
      /\ Plan(p)[a].src = "manual" /\ Plan(p)[b].src = "manual"
      /\ a \in Changed(p) /\ b \in Changed(p)
  BY <1>2, SwapPlan
<1>4. holder[a] # holder[b] /\ NoOne \notin {holder[a], holder[b]}
  BY <1>3, DutyRosterAssumption DEF Changed
<1>5. \A x \in Undoable : DOMAIN x \cap {a, b} = {}
  BY <1>1, <1>2 DEF IInv, CheckHoldsThroughWrite, Swapped, Plan, Undoable
<1>6. Page' = [Page EXCEPT ![a] = Book!Manual(Page[b].by), ![b] = Book!Manual(Page[a].by)]
  <2>1. /\ holder'[a] = holder[b] /\ holder'[b] = holder[a]
        /\ source'[a] = "manual" /\ source'[b] = "manual"
    BY <1>2, <1>3, Written DEF SourceAfter, Changed
  <2>2. \A d \in Days \ {a, b} : holder'[d] = holder[d] /\ source'[d] = source[d]
    BY <1>2, Written
  <2> QED
    BY <1>2, <1>3, <2>1, <2>2 DEF Page, Book!Manual
<1>7. Undoable' = Undoable \cup {[d \in {a, b} |-> Page[d]]}
  <2> DEFINE new == [id |-> made + 1,
                     held |-> [d \in DOMAIN Plan(p) |-> [by |-> holder[d], src |-> source[d]]]]
  <2>1. swaps' = {w \in swaps : \A d \in DOMAIN w.held : d \notin Changed(p)} \cup {new}
    BY SwapsLeft
  <2>2. \A w \in swaps : \A d \in DOMAIN w.held : d \notin Changed(p)
    BY <1>1 DEF IInv, CheckHoldsThroughWrite, Swapped, Plan, Changed
  <2>3. swaps' = swaps \cup {new}
    BY <2>1, <2>2
  <2>4. new.held = [d \in {a, b} |-> Page[d]]
    BY <1>2, <1>3, WrittenPage
  <2> HIDE DEF new
  <2> QED
    BY <2>3, <2>4 DEF Undoable
<1>8. Page[a].by = holder[a] /\ Page[b].by = holder[b]
  BY <1>3, WrittenPage
<1>9. Book!Exchange(a, b)
  BY <1>2, <1>4, <1>5, <1>6, <1>7, <1>8 DEF Book!Exchange, Page, Undoable
<1> QED
  BY <1>3, <1>9

\* An undo gives both days what they had before the swap.
LEMMA UndoRestores ==
    ASSUME IInv, BookInv, NEW p \in Planners, Write(p), call[p].op = "undo"
    PROVE  \E x \in Undoable : Book!Undo(x)
<1> DEFINE w == call[p].swap
<1>1. /\ w \in swaps /\ DOMAIN Plan(p) = DOMAIN w.held
      /\ \A d \in DOMAIN w.held : /\ d \in Days /\ source[d] = "manual"
                                  /\ Plan(p)[d].by = w.held[d].by
                                  /\ Plan(p)[d].src = w.held[d].src
                                  /\ w.held[d] \in [by : People, src : Sources]
  BY UndoPlan
<1> HIDE DEF w
<1>2. w.held \in Undoable
  BY <1>1 DEF Undoable
<1>3. \A d, e \in DOMAIN w.held : d # e => Page[d] = Book!Manual(w.held[e].by)
  <2>1. \A d, e \in DOMAIN w.held : d # e => holder[d] = w.held[e].by
    BY <1>1 DEF IInv, SwapsStand
  <2> QED
    BY <1>1, <2>1, WrittenPage DEF Book!Manual
<1>4. Page' = [d \in Days |-> IF d \in DOMAIN w.held THEN w.held[d] ELSE Page[d]]
  <2>1. ASSUME NEW d \in DOMAIN w.held
        PROVE  holder'[d] = w.held[d].by /\ source'[d] = w.held[d].src
    <3>1. holder'[d] = w.held[d].by /\ source'[d] = SourceAfter(d, Plan(p)[d])
      BY <1>1, <2>1, Written
    <3>2. w.held[d].by # NoOne /\ w.held[d].src \in {"manual", "roster"}
      BY <1>1, <2>1, DutyRosterAssumption DEF Sources
    <3> QED
      BY <1>1, <2>1, <3>1, <3>2 DEF SourceAfter
  <2>2. \A d \in DOMAIN w.held : Page'[d] = w.held[d]
    <3>1. \A d \in DOMAIN w.held : w.held[d] = [by |-> w.held[d].by, src |-> w.held[d].src]
      BY <1>1
    <3> QED
      BY <1>1, <2>1, <3>1, WrittenPage
  <2>3. ASSUME NEW d \in Days, d \notin DOMAIN w.held PROVE Page'[d] = Page[d]
    <3>1. holder'[d] = holder[d] /\ source'[d] = source[d]
      BY <1>1, <2>3, Written
    <3>2. /\ Page[d] = [by |-> holder[d], src |-> source[d]]
          /\ Page'[d] = [by |-> holder'[d], src |-> source'[d]]
      BY WrittenPage
    <3> QED
      BY <3>1, <3>2
  <2>4. Page' = [d \in Days |-> Page'[d]]
    BY DEF Page
  <2> QED
    BY <2>2, <2>3, <2>4
<1>5. Undoable' = Undoable \ {w.held}
  <2>1. swaps' = {v \in swaps : \A d \in DOMAIN v.held : d \notin Changed(p)} \ {w}
    BY SwapsLeft DEF w
  <2>2. \A v \in swaps : v.held = w.held => v = w
    BY <1>1 DEF BookInv, IInv, SwapsKnown
  <2>3. \A v \in swaps \ {w} : \A d \in DOMAIN v.held : d \notin Changed(p)
    BY <1>1 DEF BookInv, Changed
  <2>4. swaps' = swaps \ {w}
    BY <2>1, <2>3
  <2> QED
    BY <1>1, <2>2, <2>4 DEF Undoable
<1>6. PICK x \in Undoable : x = w.held
  BY <1>2
<1>7. Book!Undo(x)
  <2>1. \A d, e \in DOMAIN x : d # e => Page[d] = Book!Manual(x[e].by)
    BY <1>3, <1>6
  <2>2. Page' = [d \in Days |-> IF d \in DOMAIN x THEN x[d] ELSE Page[d]]
    BY <1>4, <1>6
  <2>3. Undoable' = Undoable \ {x}
    BY <1>5, <1>6
  <2> QED
    BY <2>1, <2>2, <2>3 DEF Book!Undo, Page, Undoable
<1> QED
  BY <1>7

\* Every step is a change of the book made at once, or none.
LEMMA StepBook ==
    ASSUME IInv, BookInv, [Next]_vars
    PROVE  Book!Next \/ UNCHANGED <<Page, Undoable>>
<1>1. CASE UNCHANGED roster
  BY <1>1 DEF roster, Page, Undoable
<1>2. ASSUME NEW p \in Planners, Write(p) PROVE Book!Next
  <2>1. call[p].op \in DayOps
    BY <1>2, Written DEF Planned
  <2>2. CASE call[p].op \in {"replace", "roster", "numbers"}
    BY <1>2, <2>2, WriteRewrites DEF Book!Next
  <2>3. CASE call[p].op = "swap"
    BY <1>2, <2>3, SwapExchanges DEF Book!Next
  <2>4. CASE call[p].op = "undo"
    BY <1>2, <2>4, UndoRestores DEF Book!Next, Undoable
  <2> QED
    BY <2>1, <2>2, <2>3, <2>4 DEF DayOps
<1> QED
  BY <1>1, <1>2, OnlyWrites

-----------------------------------------------------------------------------

LEMMA InitIInv == Init => IInv
<1> SUFFICES ASSUME Init PROVE IInv
  OBVIOUS
<1>1. Shapes /\ Calls /\ HoldsDays /\ HoldsForm
  BY DEF Init, Shapes, Calls, HoldsDays, HoldsForm, Sources
<1>2. SwapsKnown /\ SwapsStand /\ CheckHoldsThroughWrite /\ RosterMarkIsEarned
  BY DEF Init, SwapsKnown, SwapsStand, CheckHoldsThroughWrite, RosterMarkIsEarned
<1>3. Forms /\ FormsInOrder
  BY DEF Init, Forms, FormsInOrder, OnRoster, NoForm
<1> QED
  BY <1>1, <1>2, <1>3 DEF IInv

LEMMA NextIInv == IInv /\ [Next]_vars => IInv'
<1> SUFFICES ASSUME IInv, [Next]_vars PROVE IInv'
  OBVIOUS
<1>1. ASSUME NEW p \in Planners,
             \/ AskReplace(p) \/ AskRoster(p) \/ AskSwap(p) \/ AskUndo(p)
             \/ AskNumbers(p) \/ AskClose(p)
      PROVE  IInv'
  <2>1. PICK c : Ask(p, c) /\ (Planned(c) \/ Closing(c))
    BY <1>1, AskedIsPlanned
  <2> QED
    BY <2>1, AskKeeps
<1>2. CASE UNCHANGED vars
  <2>1. UNCHANGED <<roster, forms>> /\ today' \in Nat /\ today <= today'
    BY <1>2 DEF vars, IInv, Shapes
  <2>2. Calls' /\ HoldsDays' /\ HoldsForm'
    BY <1>2 DEF vars, locks, forms, IInv, Calls, HoldsDays, HoldsForm, OnRoster
  <2>3. CheckHoldsThroughWrite'
    BY <1>2 DEF vars, roster, forms, IInv, CheckHoldsThroughWrite, AsReviewed, Swapped, OnRoster
  <2>4. Shapes'
    BY <1>2, <2>1, RowsStand DEF vars, locks, IInv, Shapes
  <2> QED
    BY <2>1, <2>2, <2>3, <2>4, RowsStand DEF IInv
<1> QED
  BY <1>1, <1>2, BeginKeeps, LockDayKeeps, CheckKeeps, WriteKeeps, CloseKeeps, ReopenKeeps,
     NextDayKeeps DEF Next

LEMMA AlwaysIInv == Spec => []IInv
BY InitIInv, NextIInv, PTL DEF Spec

(* A swap that can be undone is still what put both of its holders on their *)
(* days: no assignment, clearing, roster write or save of starting numbers  *)
(* changes a day and leaves its swap to be undone.                          *)
THEOREM SwapsAlwaysStand == Spec => []SwapsStand
<1>1. IInv => SwapsStand
  BY DEF IInv
<1> QED
  BY <1>1, AlwaysIInv, PTL

(* The day locks, the form's lock and the type's row make what a function   *)
(* checked hold until it writes, for any number of planners and days.       *)
THEOREM ChecksHoldThroughWrite == Spec => []CheckHoldsThroughWrite
<1>1. IInv => CheckHoldsThroughWrite
  BY DEF IInv
<1> QED
  BY <1>1, AlwaysIInv, PTL

(* The stamp trigger and the undo leave the roster's mark only on a day     *)
(* whose holder the roster picked for it.                                   *)
THEOREM MarksAreEarned == Spec => []RosterMarkIsEarned
<1>1. IInv => RosterMarkIsEarned
  BY DEF IInv
<1> QED
  BY <1>1, AlwaysIInv, PTL

\* A call changes the numbers carried into a form only before it starts, or
\* with the form.
LEMMA CarriedStand ==
    ASSUME IInv, Next, carried, form.start < today, form' = form
    PROVE  numbered' = numbered
<1> USE DEF forms
<1>1. ASSUME NEW p \in Planners, Write(p) PROVE numbered' = numbered
  <2>1. call[p].op # "numbers"
    BY <1>1 DEF Write, IInv, CheckHoldsThroughWrite
  <2> QED
    BY <1>1, <2>1 DEF Write
<1>2. ASSUME NEW p \in Planners, Close(p), ~Refuse(p) PROVE FALSE
  <2>1. /\ DeviceDate(call[p].date) /\ OnRoster
        /\ call[p].started = (EffectiveStart <= call[p].date)
        /\ form' = IF call[p].ending THEN NoForm
                   ELSE IF call[p].started
                        THEN [id |-> opened + 1, start |-> NextStart(call[p].date)]
                   ELSE form
    BY <1>2 DEF Close
  <2>2. call[p].date \in Nat /\ today \in Nat /\ opened \in Nat
    BY <1>2 DEF Close, IInv, Shapes, Calls, Closing, Planned, DayOps
  <2>3. form.id \in Nat /\ form.id <= opened /\ form.start \in Nat
    BY <2>1 DEF IInv, Forms
  <2>4. ~call[p].ending
    BY <2>1 DEF OnRoster
  <2>5. ~call[p].started
    BY <2>1, <2>2, <2>3, <2>4
  <2>6. ~(form.start <= call[p].date)
    BY <2>1, <2>5, StartAfterFirst
  <2> QED
    BY <2>1, <2>2, <2>3, <2>6 DEF DeviceDate
<1>3. ASSUME NEW p \in Planners, Refuse(p) PROVE numbered' = numbered
  BY <1>3 DEF Refuse
<1>4. ASSUME NEW p \in Planners, Begin(p) \/ LockDay(p) \/ Check(p) PROVE numbered' = numbered
  BY <1>3, <1>4 DEF Begin, LockDay, Check
<1>5. ASSUME NEW p \in Planners,
             \/ AskReplace(p) \/ AskRoster(p) \/ AskSwap(p) \/ AskUndo(p)
             \/ AskNumbers(p) \/ AskClose(p)
      PROVE  numbered' = numbered
  <2>1. PICK c : Ask(p, c)
    BY <1>5, AskedIsPlanned
  <2> QED
    BY <2>1 DEF Ask
<1>6. ASSUME Reopen \/ NextDay PROVE numbered' = numbered
  BY <1>6 DEF Reopen, NextDay
<1> QED
  BY <1>1, <1>2, <1>3, <1>4, <1>5, <1>6 DEF Next

\* A closed form is never taken out of the record.
LEMMA ClosedStay ==
    ASSUME IInv, Next
    PROVE  closed \subseteq closed'
<1> USE DEF forms
<1>1. ASSUME NEW p \in Planners, Write(p) \/ Refuse(p) \/ Begin(p) \/ LockDay(p) \/ Check(p)
      PROVE  closed \subseteq closed'
  BY <1>1 DEF Write, Refuse, Begin, LockDay, Check
<1>2. ASSUME NEW p \in Planners, Close(p) PROVE closed \subseteq closed'
  BY <1>1, <1>2 DEF Close
<1>3. ASSUME NEW p \in Planners,
             \/ AskReplace(p) \/ AskRoster(p) \/ AskSwap(p) \/ AskUndo(p)
             \/ AskNumbers(p) \/ AskClose(p)
      PROVE  closed \subseteq closed'
  <2>1. PICK c : Ask(p, c)
    BY <1>3, AskedIsPlanned
  <2> QED
    BY <2>1 DEF Ask
<1>4. ASSUME Reopen \/ NextDay PROVE closed \subseteq closed'
  BY <1>4 DEF Reopen, NextDay
<1> QED
  BY <1>1, <1>2, <1>3, <1>4 DEF Next

(* Any number of planners work on one book: every write, though planned     *)
(* from rows read long before, is an assignment, an exchange of the two     *)
(* present holders or an exact undo, made at once to what the rows say.     *)
THEOREM Implements == Spec => ImplementsBook
<1>1. Init => IInv /\ BookInv /\ Book!Init
  BY InitIInv, InitBook
<1>2. IInv /\ BookInv /\ [Next]_vars => IInv' /\ BookInv'
  BY NextIInv, NextBook
<1>3. IInv /\ BookInv /\ [Next]_vars =>
        [Book!Next]_<<[d \in Days |-> [by |-> holder[d], src |-> source[d]]],
                      {w.held : w \in swaps}>>
  BY StepBook DEF Page, Undoable
<1> QED
  BY <1>1, <1>2, <1>3, PTL DEF Spec, ImplementsBook, Book!Spec

(* The closed forms cover different days in the order they were opened and  *)
(* stay as they were closed, and a carried form that has started keeps its  *)
(* starting numbers, whatever devices a day off the server's date ask for.  *)
THEOREM RecordAlwaysStays == Spec => RecordStays
<1>1. IInv => FormsInOrder
  BY DEF IInv
<1>2. IInv /\ [Next]_vars =>
        [/\ closed \subseteq closed'
         /\ carried /\ form.start < today /\ form' = form => numbered' = numbered]_vars
  BY ClosedStay, CarriedStand
<1>3. Spec => []FormsInOrder
  BY <1>1, AlwaysIInv, PTL
<1>4. Spec => [][/\ closed \subseteq closed'
                 /\ carried /\ form.start < today /\ form' = form => numbered' = numbered]_vars
  BY <1>2, AlwaysIInv, PTL DEF Spec
<1> QED
  BY <1>3, <1>4 DEF RecordStays
=============================================================================
