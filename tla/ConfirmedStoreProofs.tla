------------------------ MODULE ConfirmedStoreProofs -------------------------
(***************************************************************************)
(* What ConfirmedStore keeps for any rows, Organizations, writes, reads    *)
(* and bounds: which writes the optimistic log displays, and that          *)
(* forgetting changes never refuses a read that is open; then what the     *)
(* rows show: no load takes a row back behind its floor, and no row of     *)
(* another Organization is ever shown.  The recursion that re-applies      *)
(* confirmed changes is first shown to give each row the content of its    *)
(* last change after the snapshot.                                         *)
(***************************************************************************)
EXTENDS ConfirmedStore, TLAPS, FiniteSetTheorems, SequenceTheorems

WriteRecords ==
    [stage : {"idle", "sent", "applied"}, rows : SUBSET Rows, made : Contents, current : BOOLEAN]

\* A page that is on its way belongs to an Organization.
ReadRecords ==
    {x \in [kind : {"none", "delivery", "range", "adoption"}, stage : {"idle", "left", "open"},
            since : 0 .. MaxSequence, org : Orgs \cup {None}, rows : SUBSET Rows,
            answered : BOOLEAN, snapshot : Contents, before : Contents, current : BOOLEAN] :
         x.stage = "left" => x.org \in Orgs}

\* The part of TypeOK that the history of changes and the rows do not enter.
Shapes ==
    /\ server \in Contents
    /\ org \in Orgs \cup {None} /\ page \in Orgs /\ remounted \in BOOLEAN
    /\ sequence \in 0 .. MaxSequence
    /\ log \subseteq Writes
    /\ write \in [Writes -> WriteRecords]
    /\ read \in [Reads -> ReadRecords]

\* Once a shell has ended nothing that it started settles any more.
EndedIsStale == remounted => \A w \in Writes : ~write[w].current

IInv == Shapes /\ LogIsLive /\ EndedIsStale

-----------------------------------------------------------------------------
(* Shapes *)

LEMMA NothingIsContents == Nothing \in Contents /\ NoWrite \in WriteRecords /\ NoRead \in ReadRecords
<1>1. Nothing \in Contents /\ 0 \in 0 .. MaxSequence
  BY StoreAssumption DEF Nothing, Contents
<1>2. NoWrite \in WriteRecords
  BY <1>1 DEF NoWrite, WriteRecords
<1>3. NoRead \in ReadRecords
  BY <1>1 DEF NoRead, ReadRecords
<1> QED
  BY <1>1, <1>2, <1>3

LEMMA StaleRecords ==
    /\ \A x \in WriteRecords : Stale(x) \in WriteRecords /\ ~Stale(x).current /\ Stale(x).stage = x.stage
    /\ \A x \in ReadRecords : /\ Stale(x) \in ReadRecords
                              /\ Stale(x).stage = x.stage /\ Stale(x).since = x.since
BY DEF Stale, WriteRecords, ReadRecords

LEMMA LoadShapes ==
    ASSUME Shapes, NEW i \in Reads, NEW items, NEW o \in Orgs \cup {None}, Load(i, items, o)
    PROVE  Shapes'
<1>1. write' \in [Writes -> WriteRecords] /\ log' \subseteq Writes
  BY StaleRecords DEF Load, Shapes
<1>2. read' \in [Reads -> ReadRecords]
  <2>1. CASE Resets(o)
    BY <2>1, NothingIsContents DEF Load, Shapes
  <2>2. CASE ~Resets(o)
    BY <2>2, NothingIsContents, StaleRecords DEF Load, Shapes
  <2> QED
    BY <2>1, <2>2
<1> QED
  BY <1>1, <1>2 DEF Load, Shapes

\* Every step keeps the shapes of what it changes.
LEMMA ShapesStep ==
    ASSUME Shapes, [Next]_vars
    PROVE  Shapes'
<1> USE DEF Shapes
<1>1. ASSUME TimePasses PROVE Shapes'
  BY <1>1 DEF TimePasses, shellVars
<1>2. ASSUME NEW o \in Orgs, LeavePage(o) PROVE Shapes'
  <2>1. write' \in [Writes -> WriteRecords]
    BY <1>2, StaleRecords DEF LeavePage, EndLifetime
  <2>2. read' \in [Reads -> ReadRecords]
    <3>1. ASSUME NEW i \in Reads
          PROVE (CASE read[i].stage = "left" -> NoRead
                   [] read[i].stage = "open" -> Stale(read[i])
                   [] OTHER -> read[i]) \in ReadRecords
      <4>1. read[i] \in ReadRecords
        OBVIOUS
      <4>2. CASE read[i].stage = "left"
        BY <4>2, NothingIsContents
      <4>3. CASE read[i].stage = "open"
        BY <4>1, <4>3, StaleRecords
      <4>4. CASE read[i].stage \notin {"left", "open"}
        BY <4>1, <4>4
      <4> QED
        BY <4>2, <4>3, <4>4
    <3> QED
      BY <1>2, <3>1 DEF LeavePage
  <2> QED
    BY <1>2, <2>1, <2>2 DEF LeavePage, EndLifetime, historyVars
<1>3. ASSUME NEW r \in Rows, OthersWrite(r) PROVE Shapes'
  BY <1>3, StoreAssumption DEF OthersWrite, Contents, shellVars, historyVars
<1>4. ASSUME NEW w \in Writes, NEW R \in SUBSET Rows, StartWrite(w, R) PROVE Shapes'
  <2>1. [stage |-> "sent", rows |-> R, made |-> Nothing, current |-> TRUE] \in WriteRecords
    BY NothingIsContents DEF WriteRecords
  <2> QED
    BY <1>4, <2>1 DEF StartWrite, shellVars, historyVars
<1>5. ASSUME NEW w \in Writes, ServerWrites(w) PROVE Shapes'
  <2>1. PICK S \in SUBSET write[w].rows \ {{}} :
          /\ \A r \in S : server[r] < MaxVersion
          /\ server' = [r \in Rows |-> IF r \in S THEN server[r] + 1 ELSE server[r]]
          /\ write' = [write EXCEPT
                 ![w].stage = "applied",
                 ![w].made = [r \in Rows |-> IF r \in S THEN server[r] + 1 ELSE 0]]
    BY <1>5 DEF ServerWrites
  <2> DEFINE made == [r \in Rows |-> IF r \in S THEN server[r] + 1 ELSE 0]
  <2>2. server' \in Contents
    BY <2>1, StoreAssumption DEF Contents
  <2>3. made \in Contents
    BY <2>1, StoreAssumption DEF Contents
  <2>4. write' = [write EXCEPT ![w] = [[write[w] EXCEPT !.stage = "applied"] EXCEPT !.made = made]]
    BY <2>1
  <2> HIDE DEF made
  <2>5. [[write[w] EXCEPT !.stage = "applied"] EXCEPT !.made = made] \in WriteRecords
    BY <2>3 DEF WriteRecords
  <2>6. write' \in [Writes -> WriteRecords]
    BY <2>4, <2>5
  <2> QED
    BY <1>5, <2>2, <2>6 DEF ServerWrites, shellVars, historyVars
<1>6. ASSUME NEW w \in Writes, WriteConfirmed(w) \/ WriteFails(w) \/ WriteForgotten(w) PROVE Shapes'
  BY <1>6, NothingIsContents, StoreAssumption
  DEF WriteConfirmed, WriteFails, WriteForgotten, Commit, shellVars, historyVars
<1>7. ASSUME NEW i \in Reads, NEW R \in SUBSET Rows, BeginRead(i, R) PROVE Shapes'
  <2>1. [NoRead EXCEPT !.kind = "range", !.stage = "open", !.org = org,
                       !.rows = R, !.since = sequence, !.current = TRUE] \in ReadRecords
    BY NothingIsContents DEF ReadRecords
  <2> QED
    BY <1>7, <2>1 DEF BeginRead, shellVars, historyVars
<1>8. ASSUME NEW i \in Reads, NEW o \in Orgs, NEW R \in SUBSET Rows, RequestDelivery(i, o, R) PROVE Shapes'
  <2>1. [NoRead EXCEPT !.kind = "delivery", !.stage = "left", !.org = o,
                       !.rows = R, !.since = sequence] \in ReadRecords
    BY NothingIsContents DEF ReadRecords
  <2> QED
    BY <1>8, <2>1, NothingIsContents DEF RequestDelivery, shellVars, historyVars
<1>9. ASSUME NEW i \in Reads, NEW renewed \in BOOLEAN, Arrive(i, renewed) PROVE Shapes'
  <2>1. [read[i] EXCEPT !.stage = "open", !.current = TRUE] \in ReadRecords
    BY DEF ReadRecords
  <2>2. read' \in [Reads -> ReadRecords]
    BY <1>9, <2>1, StaleRecords DEF Arrive
  <2>3. write' \in [Writes -> WriteRecords] /\ remounted' \in BOOLEAN
    BY <1>9, StaleRecords DEF Arrive, EndLifetime
  <2>4. page' \in Orgs
    BY <1>9 DEF Arrive, ReadRecords
  <2> QED
    BY <1>9, <2>2, <2>3, <2>4 DEF Arrive, historyVars
<1>10. ASSUME NEW i \in Reads, BeginAdoption(i) PROVE Shapes'
  <2> DEFINE before == [r \in Rows |-> IF OrgOf[r] = org THEN server[r] ELSE 0]
  <2>1. before \in Contents /\ sequence + 1 \in 0 .. MaxSequence /\ RowsOf(org) \in SUBSET Rows
    BY <1>10, StoreAssumption DEF BeginAdoption, Contents, RowsOf
  <2> HIDE DEF before
  <2>2. [NoRead EXCEPT !.kind = "adoption", !.stage = "open", !.org = org,
                       !.rows = RowsOf(org), !.since = sequence + 1,
                       !.current = TRUE, !.before = before] \in ReadRecords
    BY <2>1, NothingIsContents DEF ReadRecords
  <2>3. read' \in [Reads -> ReadRecords]
    BY <1>10, <2>2 DEF BeginAdoption, before
  <2> QED
    BY <1>10, <2>1, <2>3 DEF BeginAdoption, shellVars
<1>11. ASSUME NEW i \in Reads, ServerAnswers(i) PROVE Shapes'
  <2> DEFINE snapshot == [r \in Rows |-> IF r \in read[i].rows THEN server[r] ELSE 0]
  <2>1. snapshot \in Contents
    BY StoreAssumption DEF Contents
  <2>2. read' = [read EXCEPT ![i] = [[read[i] EXCEPT !.answered = TRUE] EXCEPT !.snapshot = snapshot]]
    BY <1>11 DEF ServerAnswers
  <2> HIDE DEF snapshot
  <2>3. [[read[i] EXCEPT !.answered = TRUE] EXCEPT !.snapshot = snapshot] \in ReadRecords
    BY <2>1 DEF ReadRecords
  <2>4. read' \in [Reads -> ReadRecords]
    BY <2>2, <2>3
  <2> QED
    BY <1>11, <2>4 DEF ServerAnswers, shellVars, historyVars
<1>12. ASSUME NEW i \in Reads, ApplyDelivery(i) \/ ApplyRange(i) \/ Adopt(i) PROVE Shapes'
  <2>1. read[i].org \in Orgs \cup {None}
    BY DEF ReadRecords
  <2> QED
    BY <1>12, <2>1, LoadShapes DEF ApplyDelivery, ApplyRange, Adopt
<1>13. ASSUME NEW i \in Reads, CloseRead(i) PROVE Shapes'
  BY <1>13, NothingIsContents DEF CloseRead, shellVars
<1>14. CASE UNCHANGED vars
  BY <1>14 DEF vars, shellVars, historyVars
<1> QED
  BY <1>1, <1>2, <1>3, <1>4, <1>5, <1>6, <1>7, <1>8, <1>9, <1>10, <1>11, <1>12, <1>13, <1>14
  DEF Next, WriteStep, ReadStep

-----------------------------------------------------------------------------
(* The optimistic log *)

\* Steps that leave the log and the writes alone.
LEMMA LogAside ==
    ASSUME IInv, UNCHANGED <<log, write, remounted>>
    PROVE  LogIsLive' /\ EndedIsStale'
BY DEF IInv, LogIsLive, EndedIsStale

\* The end of a shell makes what it started stale.
LEMMA EndedShell ==
    ASSUME IInv, EndLifetime
    PROVE  LogIsLive' /\ EndedIsStale'
<1>1. \A w \in Writes : ~write'[w].current
  BY StaleRecords DEF IInv, Shapes, EndLifetime
<1> QED
  BY <1>1 DEF EndLifetime, LogIsLive, EndedIsStale

LEMMA LogStep ==
    ASSUME IInv, [Next]_vars
    PROVE  LogIsLive' /\ EndedIsStale'
<1> USE DEF IInv, Shapes
<1>1. ASSUME NEW o \in Orgs, LeavePage(o) PROVE LogIsLive' /\ EndedIsStale'
  BY <1>1, LogAside, EndedShell DEF LeavePage
<1>2. ASSUME NEW i \in Reads, NEW renewed \in BOOLEAN, Arrive(i, renewed)
      PROVE  LogIsLive' /\ EndedIsStale'
  BY <1>2, LogAside, EndedShell DEF Arrive
<1>3. ASSUME NEW w \in Writes, NEW R \in SUBSET Rows, StartWrite(w, R)
      PROVE  LogIsLive' /\ EndedIsStale'
  <2>1. write'[w].stage = "sent" /\ write'[w].current /\ \A v \in Writes \ {w} : write'[v] = write[v]
    BY <1>3 DEF StartWrite
  <2> QED
    BY <1>3, <2>1 DEF StartWrite, LogIsLive, EndedIsStale, shellVars
<1>4. ASSUME NEW w \in Writes, ServerWrites(w) PROVE LogIsLive' /\ EndedIsStale'
  <2>1. /\ write[w].stage # "idle" /\ write'[w].stage # "idle"
        /\ write'[w].current = write[w].current
        /\ \A v \in Writes \ {w} : write'[v] = write[v]
    BY <1>4 DEF ServerWrites, WriteRecords
  <2> QED
    BY <1>4, <2>1 DEF ServerWrites, LogIsLive, EndedIsStale, shellVars
<1>5. ASSUME NEW w \in Writes, WriteConfirmed(w) \/ WriteFails(w) \/ WriteForgotten(w)
      PROVE  LogIsLive' /\ EndedIsStale'
  <2>1. write'[w].stage = "idle" /\ ~write'[w].current /\ \A v \in Writes \ {w} : write'[v] = write[v]
    BY <1>5 DEF WriteConfirmed, WriteFails, WriteForgotten, NoWrite
  <2>2. remounted' = remounted /\ \/ log' = log \ {w}
                                  \/ log' = log /\ ~write[w].current
    BY <1>5 DEF WriteConfirmed, WriteFails, WriteForgotten, Settles, shellVars
  <2> QED
    BY <2>1, <2>2 DEF LogIsLive, EndedIsStale
<1>6. ASSUME NEW i \in Reads, NEW items, NEW o, Load(i, items, o) PROVE LogIsLive' /\ EndedIsStale'
  <2>1. CASE Resets(o)
    <3>1. log' = {} /\ \A w \in Writes : ~write'[w].current
      BY <1>6, <2>1, StaleRecords DEF Load
    <3> QED
      BY <3>1 DEF LogIsLive, EndedIsStale
  <2>2. CASE ~Resets(o)
    BY <1>6, <2>2, LogAside DEF Load, Resets
  <2> QED
    BY <2>1, <2>2
<1>7. ASSUME NEW i \in Reads, ApplyDelivery(i) \/ ApplyRange(i) \/ Adopt(i)
      PROVE  LogIsLive' /\ EndedIsStale'
  BY <1>6, <1>7 DEF ApplyDelivery, ApplyRange, Adopt
<1>8. TimePasses => UNCHANGED <<log, write, remounted>>
  BY DEF TimePasses, shellVars
<1>9. \A r \in Rows : OthersWrite(r) => UNCHANGED <<log, write, remounted>>
  BY DEF OthersWrite, shellVars
<1>10. ASSUME NEW i \in Reads,
              \/ \E R \in SUBSET Rows : BeginRead(i, R)
              \/ \E o \in Orgs, R \in SUBSET Rows : RequestDelivery(i, o, R)
              \/ BeginAdoption(i) \/ ServerAnswers(i) \/ CloseRead(i)
       PROVE  UNCHANGED <<log, write, remounted>>
  BY <1>10 DEF BeginRead, RequestDelivery, BeginAdoption, ServerAnswers, CloseRead, shellVars
<1>11. CASE UNCHANGED vars
  BY <1>11, LogAside DEF vars, shellVars
<1> QED
  BY <1>1, <1>2, <1>3, <1>4, <1>5, <1>7, <1>8, <1>9, <1>10, <1>11, LogAside
  DEF Next, WriteStep, ReadStep

\* The shapes and the log are inductive.
THEOREM Invariance == Spec => []IInv
<1>1. Init => IInv
  <2> SUFFICES ASSUME Init PROVE IInv
    OBVIOUS
  <2>1. server \in Contents /\ sequence \in 0 .. MaxSequence
    BY StoreAssumption DEF Init, Contents
  <2>2. \A w \in Writes : write[w].stage = "idle" /\ ~write[w].current
    BY DEF Init, NoWrite
  <2>3. write \in [Writes -> WriteRecords] /\ read \in [Reads -> ReadRecords]
    BY NothingIsContents DEF Init
  <2> QED
    BY <2>1, <2>2, <2>3 DEF Init, IInv, Shapes, LogIsLive, EndedIsStale
<1>2. IInv /\ [Next]_vars => IInv'
  BY ShapesStep, LogStep DEF IInv
<1> QED
  BY <1>1, <1>2, PTL DEF Spec

\* The displayed optimistic entries are the writes of this visit that are still
\* under way, for any number of Organizations, writes and reads.
THEOREM LogLive == Spec => []LogIsLive
<1>1. IInv => LogIsLive
  BY DEF IInv
<1> QED
  BY <1>1, Invariance, PTL

-----------------------------------------------------------------------------
(* Open reads *)

\* Pruning goes no further than the reads it spares.
LEMMA PruneSpares ==
    ASSUME NEW chs, NEW readers, Prune(chs, readers), NEW i \in readers,
           read[i].since \in Nat, prunedThrough <= read[i].since
    PROVE  prunedThrough' <= read[i].since
<1>1. PICK k \in 0 .. Len(chs) :
        /\ \A n \in 1 .. k : Prunable(chs, readers, n)
        /\ prunedThrough' = IF k > 0 THEN chs[k].sequence ELSE prunedThrough
  BY DEF Prune
<1>2. CASE k > 0
  <2>1. Prunable(chs, readers, k)
    BY <1>1, <1>2
  <2> QED
    BY <1>1, <1>2, <2>1 DEF Prunable
<1>3. CASE ~(k > 0)
  BY <1>1, <1>3
<1> QED
  BY <1>2, <1>3

\* Forgetting old changes never makes a read too old that was not so when it
\* was opened, however many reads are open and however they end.
THEOREM ReadsStayUsable == Spec => OpenReadsStayUsable
<1> DEFINE Stay(i) == i \in Open' /\ read[i].since >= prunedThrough => read'[i].since >= prunedThrough'
<1>1. ASSUME IInv, [Next]_vars, NEW i \in Open PROVE Stay(i)
  <2> USE DEF IInv, Shapes
  <2>0. i \in Reads /\ read[i] \in ReadRecords /\ read[i].stage = "open" /\ read[i].since \in Nat
    BY <1>1 DEF Open, ReadRecords
  <2>1. ASSUME prunedThrough' = prunedThrough, read'[i] = read[i] \/ read'[i] = Stale(read[i]) PROVE Stay(i)
    BY <2>0, <2>1, StaleRecords
  <2>2. ASSUME NEW j \in Reads, NEW items, NEW o, Load(j, items, o) PROVE Stay(i)
    <3>1. CASE i = j
      <4>1. read'[i] = NoRead
        BY <2>0, <2>2, <3>1 DEF Load
      <4> QED
        BY <4>1 DEF Open, NoRead
    <3>2. CASE i # j /\ Resets(o)
      <4>1. read'[i] = NoRead
        BY <1>1, <2>0, <2>2, <3>2 DEF Load
      <4> QED
        BY <4>1 DEF Open, NoRead
    <3>3. CASE i # j /\ ~Resets(o)
      <4>1. Prune(changes, Open \ {j}) /\ read'[i].since = read[i].since
        BY <2>0, <2>2, <3>3, StaleRecords DEF Load
      <4> QED
        BY <1>1, <2>0, <3>3, <4>1, PruneSpares
    <3> QED
      BY <3>1, <3>2, <3>3
  <2>3. ASSUME NEW j \in Reads, ApplyDelivery(j) \/ ApplyRange(j) \/ Adopt(j) PROVE Stay(i)
    BY <2>2, <2>3 DEF ApplyDelivery, ApplyRange, Adopt
  <2>4. ASSUME NEW j \in Reads, CloseRead(j) PROVE Stay(i)
    <3>1. CASE i = j
      <4>1. read'[i] = NoRead
        BY <1>1, <2>0, <2>4, <3>1 DEF CloseRead
      <4> QED
        BY <4>1 DEF Open, NoRead
    <3>2. CASE i # j
      <4>1. Prune(changes, Open \ {j}) /\ read'[i] = read[i]
        BY <2>0, <2>4, <3>2 DEF CloseRead
      <4> QED
        BY <1>1, <2>0, <3>2, <4>1, PruneSpares
    <3> QED
      BY <3>1, <3>2
  <2>5. ASSUME NEW w \in Writes, WriteConfirmed(w) PROVE Stay(i)
    <3>1. read' = read /\ \E chs : Prune(chs, Open)
      BY <2>5 DEF WriteConfirmed, Commit
    <3> QED
      BY <1>1, <2>0, <3>1, PruneSpares
  <2>6. ASSUME NEW o \in Orgs, LeavePage(o) PROVE Stay(i)
    <3>1. read'[i] = Stale(read[i]) /\ prunedThrough' = prunedThrough
      BY <2>0, <2>6 DEF LeavePage, historyVars, shellVars
    <3> QED
      BY <2>1, <3>1
  <2>7. ASSUME NEW j \in Reads, NEW renewed \in BOOLEAN, Arrive(j, renewed) PROVE Stay(i)
    <3>1. j # i /\ prunedThrough' = prunedThrough
      BY <2>0, <2>7 DEF Arrive, historyVars, shellVars
    <3>2. read'[i] = read[i] \/ read'[i] = Stale(read[i])
      BY <2>0, <2>7, <3>1 DEF Arrive
    <3> QED
      BY <2>1, <3>1, <3>2
  <2>8. ASSUME NEW j \in Reads,
               \/ \E R \in SUBSET Rows : BeginRead(j, R)
               \/ \E o \in Orgs, R \in SUBSET Rows : RequestDelivery(j, o, R)
               \/ BeginAdoption(j)
        PROVE  Stay(i)
    <3>1. j # i /\ prunedThrough' = prunedThrough /\ read'[i] = read[i]
      BY <1>1, <2>0, <2>8 DEF BeginRead, RequestDelivery, BeginAdoption, historyVars, shellVars
    <3> QED
      BY <2>1, <3>1
  <2>9. ASSUME NEW j \in Reads, ServerAnswers(j) PROVE Stay(i)
    <3>1. prunedThrough' = prunedThrough /\ read'[i].since = read[i].since
      BY <1>1, <2>0, <2>9 DEF ServerAnswers, ReadRecords, historyVars, shellVars
    <3> QED
      BY <3>1
  <2>10. ASSUME \/ TimePasses
                \/ \E r \in Rows : OthersWrite(r)
                \/ \E w \in Writes : \/ \E R \in SUBSET Rows : StartWrite(w, R)
                                     \/ ServerWrites(w) \/ WriteFails(w) \/ WriteForgotten(w)
         PROVE  Stay(i)
    <3>1. prunedThrough' = prunedThrough /\ read' = read
      BY <2>10
      DEF TimePasses, OthersWrite, StartWrite, ServerWrites, WriteFails, WriteForgotten, historyVars, shellVars
    <3> QED
      BY <2>1, <3>1
  <2>11. CASE UNCHANGED vars
    BY <2>1, <2>11 DEF vars, historyVars, shellVars
  <2> QED
    BY <1>1, <2>3, <2>4, <2>5, <2>6, <2>7, <2>8, <2>9, <2>10, <2>11
    DEF Next, WriteStep, ReadStep
<1>2. IInv /\ [Next]_vars => [\A i \in Open : Stay(i)]_vars
  BY <1>1
<1> QED
  BY Invariance, <1>2, PTL DEF Spec, OpenReadsStayUsable

-----------------------------------------------------------------------------
(* The changes that are re-applied to a snapshot. *)

\* A set of numbers that is not empty has a least one.
LEMMA LeastNumber ==
    ASSUME NEW S \in SUBSET Nat, S # {}
    PROVE  \E m \in S : \A n \in S : m <= n
<1>1. PICK b \in S : TRUE
  OBVIOUS
<1> DEFINE low == {n \in S : n <= b}
           upTo == {0 .. m : m \in low}
<1>2. upTo \subseteq SUBSET (0 .. b) /\ upTo # {}
  <2>1. \A m \in low : 0 .. m \subseteq 0 .. b
    OBVIOUS
  <2>2. b \in low
    OBVIOUS
  <2> HIDE DEF low
  <2>3. \A x \in upTo : x \in SUBSET (0 .. b)
    BY <2>1
  <2>4. 0 .. b \in upTo
    BY <2>2
  <2> QED
    BY <2>3, <2>4
<1>3. IsWellFoundedOn(StrictSubsetOrdering(0 .. b), SUBSET (0 .. b))
  <2>1. \A U : IsFiniteSet(U) => IsWellFoundedOn(StrictSubsetOrdering(U), SUBSET U)
    BY FS_StrictSubsetOrderingWellFounded, FS_FiniteSubsetsOfFinite
  <2>2. IsFiniteSet(0 .. b)
    BY FS_Interval
  <2> QED
    BY <2>1, <2>2, Zenon
<1> HIDE DEF upTo
<1>4. PICK x \in upTo : \A y \in upTo : ~(<<y, x>> \in StrictSubsetOrdering(0 .. b))
  BY <1>2, <1>3, WFMin
<1>5. PICK m \in S : m <= b /\ x = 0 .. m
  BY DEF upTo
<1>6. ASSUME NEW n \in S, n < m PROVE FALSE
  <2>1. 0 .. n \in upTo
    BY <1>5, <1>6 DEF upTo
  <2>2. 0 .. n \subseteq 0 .. m /\ 0 .. n # 0 .. m
    BY <1>6
  <2>3. <<0 .. n, x>> \in StrictSubsetOrdering(0 .. b)
    BY <1>2, <1>5, <2>1, <2>2 DEF StrictSubsetOrdering
  <2> QED
    BY <1>4, <2>1, <2>3
<1> QED
  BY <1>6

\* The changes after `since` that make row r, among the first m.
After(r, since, m) == {n \in 1 .. m : changes[n].sequence > since /\ changes[n].made[r] # 0}

\* A set of numbers up to N that is not empty has a greatest one.
LEMMA GreatestOf ==
    ASSUME NEW N \in Nat, NEW S \in SUBSET (1 .. N), S # {}
    PROVE  \E m \in S : \A n \in S : n <= m
<1> DEFINE T == {N - n : n \in S}
<1>1. T \in SUBSET Nat /\ T # {}
  <2>1. \A n \in S : N - n \in Nat
    OBVIOUS
  <2> QED
    BY <2>1
<1>2. \A n \in S : N - n \in T
  OBVIOUS
<1>3. \A t \in T : \E n \in S : t = N - n
  OBVIOUS
<1> HIDE DEF T
<1>4. PICK t \in T : \A u \in T : t <= u
  BY <1>1, LeastNumber
<1>5. PICK m \in S : t = N - m
  BY <1>3
<1>6. \A n \in S : n <= m
  BY <1>2, <1>4, <1>5
<1> QED
  BY <1>6

\* One change of those that are re-applied.
Redo(items, since, n) == IF changes[n].sequence > since THEN Applied(items, changes[n].made) ELSE items

\* Reapplied, with the step of its recursion named.
LEMMA ReappliedUnfolds ==
    ASSUME NEW items, NEW since
    PROVE  Reapplied(items, since) =
              (CHOOSE f : f = [n \in 0 .. Len(changes) |->
                                 IF n = 0 THEN items ELSE Redo(f[n - 1], since, n)])[Len(changes)]
BY DEF Reapplied, Redo

\* What each row is after the first m changes: the last one's content, if any.
Outcome(items, since, m) ==
    [r \in Rows |-> IF After(r, since, m) = {} THEN items[r]
                    ELSE changes[CHOOSE n \in After(r, since, m) :
                                    \A k \in After(r, since, m) : k <= n].made[r]]

\* If changes after `since` make the row, one of them is the last.
LEMMA LastAfter ==
    ASSUME NEW r, NEW since, NEW m \in Nat, After(r, since, m) # {}
    PROVE  LET n == CHOOSE n \in After(r, since, m) : \A k \in After(r, since, m) : k <= n
           IN  n \in After(r, since, m) /\ \A k \in After(r, since, m) : k <= n
<1>1. After(r, since, m) \in SUBSET (1 .. m)
  BY DEF After
<1>2. \E n \in After(r, since, m) : \A k \in After(r, since, m) : k <= n
  BY <1>1, GreatestOf
<1> QED
  BY <1>2

\* The outcome of m changes is the m-th redone on that of the others.
LEMMA OutcomeStep ==
    ASSUME NEW items \in Contents, NEW since, NEW m \in Nat, m > 0
    PROVE  Outcome(items, since, m) = Redo(Outcome(items, since, m - 1), since, m)
<1> DEFINE before == Outcome(items, since, m - 1)
           now == Outcome(items, since, m)
<1>0. m - 1 \in Nat /\ 1 .. m = (1 .. m - 1) \cup {m}
  OBVIOUS
<1>1. ASSUME NEW r \in Rows
      PROVE  now[r] = IF changes[m].sequence > since /\ changes[m].made[r] # 0
                      THEN changes[m].made[r] ELSE before[r]
  <2>1. CASE changes[m].sequence > since /\ changes[m].made[r] # 0
    <3>1. m \in After(r, since, m) /\ \A k \in After(r, since, m) : k <= m
      BY <1>0, <2>1 DEF After
    <3>2. (CHOOSE n \in After(r, since, m) : \A k \in After(r, since, m) : k <= n) = m
      <4> DEFINE c == CHOOSE n \in After(r, since, m) : \A k \in After(r, since, m) : k <= n
      <4>1. c \in After(r, since, m) /\ \A k \in After(r, since, m) : k <= c
        BY <3>1, LastAfter
      <4>2. c \in 1 .. m
        BY <4>1 DEF After
      <4>3. c <= m /\ m <= c
        BY <3>1, <4>1
      <4> HIDE DEF c
      <4>4. c = m
        BY <4>2, <4>3
      <4> QED
        BY <4>4 DEF c
    <3> QED
      BY <2>1, <3>1, <3>2 DEF Outcome
  <2>2. CASE ~(changes[m].sequence > since /\ changes[m].made[r] # 0)
    <3>1. After(r, since, m) = After(r, since, m - 1)
      BY <1>0, <2>2 DEF After
    <3> QED
      BY <2>2, <3>1 DEF Outcome
  <2> QED
    BY <2>1, <2>2
<1>2. now = [r \in Rows |-> now[r]] /\ before = [r \in Rows |-> before[r]]
  BY DEF Outcome
<1> HIDE DEF now, before
<1>3. now = Redo(before, since, m)
  BY <1>1, <1>2 DEF Redo, Applied
<1> QED
  BY <1>3 DEF now, before

\* Re-applying comes to the same: a row has the content of its last change
\* after the snapshot, or the snapshot's.
LEMMA ReappliedIs ==
    ASSUME NEW items \in Contents, NEW since, Len(changes) \in Nat
    PROVE  Reapplied(items, since) = Outcome(items, since, Len(changes))
<1> DEFINE N == Len(changes)
           Def(f) == [n \in 0 .. N |-> IF n = 0 THEN items ELSE Redo(f[n - 1], since, n)]
           g == [n \in 0 .. N |-> Outcome(items, since, n)]
           f == CHOOSE h : h = Def(h)
<1>1. g = Def(g)
  <2>1. Outcome(items, since, 0) = items
    <3>1. \A r : After(r, since, 0) = {}
      BY DEF After
    <3> QED
      BY <3>1 DEF Outcome, Contents
  <2>2. ASSUME NEW n \in 0 .. N PROVE g[n] = IF n = 0 THEN items ELSE Redo(g[n - 1], since, n)
    <3>1. CASE n = 0
      BY <2>1, <3>1
    <3>2. CASE n # 0
      <4>1. n \in Nat /\ n > 0 /\ n - 1 \in 0 .. N
        BY <3>2
      <4>2. g[n] = Outcome(items, since, n) /\ g[n - 1] = Outcome(items, since, n - 1)
        BY <4>1
      <4> QED
        BY <3>2, <4>1, <4>2, OutcomeStep
    <3> QED
      BY <3>1, <3>2
  <2> QED
    BY <2>2
<1>2. f = Def(f)
  BY <1>1
<1> HIDE DEF f, g
<1>3. \A n \in 0 .. N : f[n] = IF n = 0 THEN items ELSE Redo(f[n - 1], since, n)
  BY <1>2
<1>4. \A n \in 0 .. N : g[n] = IF n = 0 THEN items ELSE Redo(g[n - 1], since, n)
  BY <1>1
<1>5. ASSUME NEW n \in 0 .. N, f[n] # g[n] PROVE FALSE
  <2> DEFINE D == {k \in 0 .. N : f[k] # g[k]}
  <2>1. D \in SUBSET Nat /\ D # {}
    BY <1>5
  <2>2. PICK m \in D : \A k \in D : m <= k
    BY <2>1, LeastNumber
  <2>3. m \in 0 .. N /\ m # 0 /\ f[m] # g[m]
    BY <1>3, <1>4, <2>2
  <2>4. m - 1 \in 0 .. N /\ m - 1 \notin D
    BY <2>2, <2>3
  <2>5. f[m - 1] = g[m - 1]
    BY <2>4
  <2> QED
    BY <1>3, <1>4, <2>3, <2>5
<1>6. f[N] = Outcome(items, since, N)
  BY <1>5 DEF g
<1> QED
  BY <1>6, ReappliedUnfolds DEF f

-----------------------------------------------------------------------------
(* The history, the snapshots and the floors. *)

ChangeRecords == [sequence : 1 .. MaxSequence, made : Contents]

\* Change n makes row r and is numbered after `since`.
Makes(n, r) == changes[n].made[r] # 0
MakesAfter(n, r, since) == changes[n].sequence > since /\ Makes(n, r)

\* Retained changes are numbered in order, after those that were dropped.
History ==
    /\ changes \in Seq(ChangeRecords) /\ expired \in 0 .. Len(changes)
    /\ prunedThrough \in 0 .. sequence
    /\ \A n \in 1 .. Len(changes) :
           prunedThrough < changes[n].sequence /\ changes[n].sequence <= sequence
    /\ \A m, n \in 1 .. Len(changes) : m < n => changes[m].sequence < changes[n].sequence

Displayed ==
    /\ shown \in Contents /\ floor \in Contents
    /\ supersededBefore \in 0 .. sequence
    /\ pending \in Reads \cup {None}

\* What a write made is on the server, and one of this visit is of its rows.
OwnWrites ==
    \A w \in Writes :
        /\ write[w].current => write[w].rows \subseteq RowsOf(org)
        /\ \A r \in Rows : /\ write[w].made[r] <= server[r]
                           /\ write[w].made[r] # 0 => r \in write[w].rows

OwnReads ==
    \A i \in Reads :
        /\ read[i].since <= sequence
        /\ read[i].rows \subseteq RowsOf(read[i].org)
        /\ read[i].kind = "adoption" => read[i].stage = "open" /\ read[i].org = org
        /\ \A r \in Rows : /\ read[i].snapshot[r] # 0 => r \in read[i].rows
                           /\ read[i].before[r] # 0 => r \in read[i].rows
                           /\ read[i].before[r] <= server[r]

OwnChanges == \A n \in 1 .. Len(changes), r \in Rows : Makes(n, r) => OrgOf[r] = org

FloorsServed == \A r \in Rows : floor[r] <= server[r]

\* One navigation is under way at a time, and nothing is confirmed between the
\* end of a shell and the next one's first load.
OneNavigation ==
    \A i \in Reads : read[i].stage = "left" =>
        /\ remounted => read[i].since = sequence
        /\ \A j \in Reads : read[j].stage = "left" => j = i

\* Without a retained change after it, a usable snapshot is not behind.
SnapshotsStand ==
    \A i \in Reads :
        read[i].answered /\ ~Superseded(i) /\ prunedThrough <= read[i].since =>
            \A r \in read[i].rows :
                \/ \E n \in 1 .. Len(changes) : MakesAfter(n, r, read[i].since)
                \/ read[i].snapshot[r] >= floor[r]

\* Nor is one requested after an adoption began behind what that remembers.
AdoptionsStand ==
    \A i, j \in Reads :
        read[i].kind = "adoption" /\ read[j].answered /\ read[j].since >= read[i].since =>
            \A r \in read[j].rows : read[j].snapshot[r] >= read[i].before[r]

\* The last change of a row is where its floor is, an adopted read aside.
LastChangeStands ==
    \A n \in 1 .. Len(changes), r \in Rows :
        /\ MakesAfter(n, r, supersededBefore)
        /\ \A m \in 1 .. Len(changes) : Makes(m, r) => changes[m].sequence <= changes[n].sequence
        => changes[n].made[r] = floor[r]

Own == Displayed /\ OwnWrites /\ OwnReads /\ OwnChanges /\ OwnRowsOnly /\ FloorsServed /\ OneNavigation
Stand == SnapshotsStand /\ AdoptionsStand /\ LastChangeStands /\ NeverBehind
DInv == History /\ Own /\ Stand

\* The elements of the history, and that its numbers are numbers.
LEMMA HistoryFacts ==
    ASSUME Shapes, History
    PROVE  /\ sequence \in Nat /\ prunedThrough \in Nat /\ Len(changes) \in Nat
           /\ \A n \in 1 .. Len(changes) :
                 changes[n] \in ChangeRecords /\ changes[n].sequence \in Nat /\ changes[n].made \in Contents
<1>1. Len(changes) \in Nat /\ \A n \in 1 .. Len(changes) : changes[n] \in ChangeRecords
  BY LenProperties, ElementOfSeq DEF History
<1>2. sequence \in Nat /\ prunedThrough \in Nat
  BY StoreAssumption DEF Shapes, History
<1> QED
  BY <1>1, <1>2, StoreAssumption DEF ChangeRecords

\* What re-applying the retained changes makes of each row.
LEMMA ReappliedRow ==
    ASSUME Shapes, History, NEW items \in Contents, NEW since \in Nat
    PROVE  /\ Reapplied(items, since) \in Contents
           /\ \A r \in Rows :
                \/ /\ Reapplied(items, since)[r] = items[r]
                   /\ \A n \in 1 .. Len(changes) : ~MakesAfter(n, r, since)
                \/ \E n \in 1 .. Len(changes) :
                     /\ MakesAfter(n, r, since)
                     /\ Reapplied(items, since)[r] = changes[n].made[r]
                     /\ \A m \in 1 .. Len(changes) :
                            Makes(m, r) => changes[m].sequence <= changes[n].sequence
<1> DEFINE N == Len(changes)
           out == Outcome(items, since, N)
<1>1. Reapplied(items, since) = out /\ N \in Nat
  BY HistoryFacts, ReappliedIs
<1>2. ASSUME NEW r \in Rows
      PROVE  /\ out[r] \in 0 .. MaxVersion
             /\ \/ out[r] = items[r] /\ \A n \in 1 .. N : ~MakesAfter(n, r, since)
                \/ \E n \in 1 .. N :
                     /\ MakesAfter(n, r, since) /\ out[r] = changes[n].made[r]
                     /\ \A m \in 1 .. N : Makes(m, r) => changes[m].sequence <= changes[n].sequence
  <2>1. CASE After(r, since, N) = {}
    <3>1. out[r] = items[r]
      BY <2>1 DEF Outcome
    <3>2. \A n \in 1 .. N : ~MakesAfter(n, r, since)
      BY <2>1 DEF After, MakesAfter, Makes
    <3> QED
      BY <3>1, <3>2 DEF Contents
  <2>2. CASE After(r, since, N) # {}
    <3> DEFINE last == CHOOSE n \in After(r, since, N) : \A k \in After(r, since, N) : k <= n
    <3>1. last \in After(r, since, N) /\ \A k \in After(r, since, N) : k <= last
      BY <1>1, <2>2, LastAfter
    <3>2. out[r] = changes[last].made[r]
      BY <2>2 DEF Outcome
    <3> HIDE DEF last, out
    <3>3. last \in 1 .. N /\ MakesAfter(last, r, since)
      BY <3>1 DEF After, MakesAfter, Makes
    <3>4. ASSUME NEW m \in 1 .. N, Makes(m, r) PROVE changes[m].sequence <= changes[last].sequence
      <4>1. CASE changes[m].sequence > since
        <5>1. m \in After(r, since, N)
          BY <3>4, <4>1 DEF After, Makes
        <5>2. m <= last
          BY <3>1, <5>1
        <5> QED
          BY <3>3, <5>2, HistoryFacts DEF History
      <4>2. CASE ~(changes[m].sequence > since)
        BY <3>3, <4>2, HistoryFacts DEF MakesAfter
      <4> QED
        BY <4>1, <4>2
    <3>5. out[r] \in 0 .. MaxVersion
      BY <3>2, <3>3, HistoryFacts DEF Contents
    <3> QED
      BY <3>2, <3>3, <3>4, <3>5
  <2> QED
    BY <2>1, <2>2
<1>3. out = [r \in Rows |-> out[r]]
  BY DEF Outcome
<1> HIDE DEF out
<1>4. out \in Contents
  BY <1>2, <1>3 DEF Contents
<1> QED
  BY <1>1, <1>2, <1>4

\* Pruning drops a prefix, and remembers how far.
LEMMA PruneKeeps ==
    ASSUME NEW chs \in Seq(ChangeRecords), NEW readers, NEW top \in Nat, Prune(chs, readers),
           expired \in 0 .. Len(chs), prunedThrough \in 0 .. top, sequence' = top,
           \A n \in 1 .. Len(chs) : prunedThrough < chs[n].sequence /\ chs[n].sequence <= top,
           \A m, n \in 1 .. Len(chs) : m < n => chs[m].sequence < chs[n].sequence
    PROVE  /\ History'
           /\ prunedThrough <= prunedThrough'
           /\ \A n \in 1 .. Len(changes') : \E m \in 1 .. Len(chs) : changes'[n] = chs[m]
           /\ \A m \in 1 .. Len(chs) :
                 \/ chs[m].sequence <= prunedThrough'
                 \/ \E n \in 1 .. Len(changes') : changes'[n] = chs[m]
<1>1. PICK k \in 0 .. Len(chs) :
        /\ \A n \in 1 .. k : Prunable(chs, readers, n)
        /\ changes' = SubSeq(chs, k + 1, Len(chs))
        /\ expired' = StillExpired(k)
        /\ prunedThrough' = IF k > 0 THEN chs[k].sequence ELSE prunedThrough
  BY DEF Prune
<1>2. Len(chs) \in Nat /\ \A n \in 1 .. Len(chs) : chs[n] \in ChangeRecords /\ chs[n].sequence \in Nat
  <2>1. Len(chs) \in Nat /\ \A n \in 1 .. Len(chs) : chs[n] \in ChangeRecords
    BY LenProperties, ElementOfSeq
  <2> QED
    BY <2>1, StoreAssumption DEF ChangeRecords
<1> DEFINE N == Len(chs)
<1>3. /\ changes' \in Seq(ChangeRecords)
      /\ Len(changes') = N - k
      /\ \A n \in 1 .. N - k : changes'[n] = chs[k + n]
  <2>1. \A i \in k + 1 .. N : chs[i] \in ChangeRecords
    BY <1>2
  <2>2. /\ SubSeq(chs, k + 1, N) \in Seq(ChangeRecords)
        /\ Len(SubSeq(chs, k + 1, N)) = IF k + 1 <= N THEN N - (k + 1) + 1 ELSE 0
        /\ \A i \in 1 .. N - (k + 1) + 1 : SubSeq(chs, k + 1, N)[i] = chs[(k + 1) + i - 1]
    BY <1>2, <2>1, SubSeqProperties
  <2>3. N - (k + 1) + 1 = N - k /\ (k + 1 <= N \/ N - k = 0)
    BY <1>2
  <2>4. \A i \in 1 .. N - k : (k + 1) + i - 1 = k + i
    BY <1>2
  <2> QED
    BY <1>1, <1>2, <2>2, <2>3, <2>4
<1> HIDE DEF N
<1>n. N = Len(chs) /\ N \in Nat
  BY <1>2 DEF N
<1>4. \A n \in 1 .. N - k : k + n \in 1 .. N
  BY <1>n
<1>5. k <= expired
  <2>1. CASE k > 0
    BY <1>1, <1>n, <2>1 DEF Prunable
  <2> QED
    BY <2>1, <1>n
<1>6. expired' \in 0 .. Len(changes')
  BY <1>1, <1>3, <1>5, <1>n DEF StillExpired
<1>7. prunedThrough' \in 0 .. top /\ prunedThrough <= prunedThrough'
  <2>1. CASE k > 0
    <3>1. k \in 1 .. Len(chs)
      BY <1>n, <2>1
    <3> QED
      BY <1>1, <1>2, <2>1, <3>1
  <2>2. CASE ~(k > 0)
    BY <1>1, <2>2
  <2> QED
    BY <2>1, <2>2
<1>8. \A n \in 1 .. N - k : prunedThrough' < chs[k + n].sequence /\ chs[k + n].sequence <= top
  <2> SUFFICES ASSUME NEW n \in 1 .. N - k
               PROVE  prunedThrough' < chs[k + n].sequence /\ chs[k + n].sequence <= top
    OBVIOUS
  <2>1. k + n \in 1 .. Len(chs)
    BY <1>4, <1>n
  <2>2. CASE k > 0
    <3>1. k \in 1 .. Len(chs) /\ k < k + n
      BY <1>n, <2>2
    <3> QED
      BY <1>1, <2>1, <2>2, <3>1
  <2>3. CASE ~(k > 0)
    BY <1>1, <2>1, <2>3
  <2> QED
    BY <2>2, <2>3
<1>9. \A m, n \in 1 .. N - k : m < n => chs[k + m].sequence < chs[k + n].sequence
  <2> SUFFICES ASSUME NEW m \in 1 .. N - k, NEW n \in 1 .. N - k, m < n
               PROVE  chs[k + m].sequence < chs[k + n].sequence
    OBVIOUS
  <2>1. k + m \in 1 .. Len(chs) /\ k + n \in 1 .. Len(chs) /\ k + m < k + n
    BY <1>4, <1>n
  <2> QED
    BY <2>1
<1>10. History'
  BY <1>3, <1>6, <1>7, <1>8, <1>9 DEF History
<1>11. \A m \in 1 .. Len(chs) :
          \/ chs[m].sequence <= prunedThrough'
          \/ \E n \in 1 .. Len(changes') : changes'[n] = chs[m]
  <2> SUFFICES ASSUME NEW m \in 1 .. Len(chs)
               PROVE  \/ chs[m].sequence <= prunedThrough'
                      \/ \E n \in 1 .. Len(changes') : changes'[n] = chs[m]
    OBVIOUS
  <2>1. CASE m > k
    <3>1. m - k \in 1 .. N - k /\ k + (m - k) = m
      BY <1>n, <2>1
    <3> QED
      BY <1>3, <3>1
  <2>2. CASE m <= k
    <3>1. k > 0 /\ k \in 1 .. Len(chs) /\ (m = k \/ m < k)
      BY <1>n, <2>2
    <3> QED
      BY <1>1, <1>2, <3>1
  <2> QED
    BY <1>n, <2>1, <2>2
<1>12. \A n \in 1 .. Len(changes') : \E m \in 1 .. Len(chs) : changes'[n] = chs[m]
  BY <1>3, <1>4, <1>n
<1> QED
  BY <1>7, <1>10, <1>11, <1>12

-----------------------------------------------------------------------------
(* Steps that show, confirm and forget nothing. *)

\* x is y up to its page's progress, or a read that nothing is known of yet.
Same(x, y) ==
    /\ x.kind = y.kind /\ x.since = y.since /\ x.org = y.org /\ x.rows = y.rows
    /\ x.answered = y.answered /\ x.snapshot = y.snapshot /\ x.before = y.before
    /\ y.stage = "open" => x.stage = "open"

Blank(x) ==
    /\ ~x.answered /\ x.kind # "adoption" /\ x.since <= sequence
    /\ x.rows \subseteq RowsOf(x.org) /\ x.snapshot = Nothing /\ x.before = Nothing

\* The numbers that the writes and the reads carry.
LEMMA Recorded ==
    ASSUME Shapes
    PROVE  /\ sequence \in Nat
           /\ \A r \in Rows : server[r] \in Nat
           /\ \A w \in Writes : \A r \in Rows : write[w].made[r] \in Nat
           /\ \A i \in Reads : /\ read[i].since \in Nat /\ read[i].rows \subseteq Rows
                               /\ \A r \in Rows : read[i].snapshot[r] \in Nat /\ read[i].before[r] \in Nat
<1>1. MaxVersion \in Nat /\ MaxSequence \in Nat
  BY StoreAssumption
<1>2. \A c \in Contents : \A r \in Rows : c[r] \in Nat
  BY <1>1 DEF Contents
<1>3. \A w \in Writes : write[w].made \in Contents
  BY DEF Shapes, WriteRecords
<1>4. \A i \in Reads : /\ read[i].snapshot \in Contents /\ read[i].before \in Contents
                       /\ read[i].since \in Nat /\ read[i].rows \subseteq Rows
  BY <1>1 DEF Shapes, ReadRecords
<1>5. server \in Contents /\ sequence \in Nat
  BY <1>1 DEF Shapes
<1> QED
  BY <1>2, <1>3, <1>4, <1>5

\* The numbers that the rows show.
LEMMA ShownNat == ASSUME Displayed PROVE \A r \in Rows : shown[r] \in Nat /\ floor[r] \in Nat
BY StoreAssumption DEF Displayed, Contents

\* Steps that show, confirm and forget nothing.
LEMMA Quiet ==
    ASSUME Shapes, Shapes', DInv,
           UNCHANGED <<shown, org, sequence, changes, prunedThrough, supersededBefore, floor>>,
           expired' \in 0 .. Len(changes), pending' \in Reads \cup {None},
           \A r \in Rows : server[r] <= server'[r],
           OwnWrites', OneNavigation',
           \A i \in Reads : Same(read'[i], read[i]) \/ Blank(read'[i])
    PROVE  DInv'
<1>0. \A r \in Rows : server[r] \in Nat /\ server'[r] \in Nat
  BY StoreAssumption DEF Shapes, Contents
<1>1. History'
  BY DEF DInv, History
<1>2. Displayed'
  BY DEF DInv, Own, Displayed
<1>3. OwnReads'
  <2> SUFFICES ASSUME NEW i \in Reads
      PROVE /\ read'[i].since <= sequence
            /\ read'[i].rows \subseteq RowsOf(read'[i].org)
            /\ read'[i].kind = "adoption" => read'[i].stage = "open" /\ read'[i].org = org
            /\ \A r \in Rows : /\ read'[i].snapshot[r] # 0 => r \in read'[i].rows
                               /\ read'[i].before[r] # 0 => r \in read'[i].rows
                               /\ read'[i].before[r] <= server'[r]
    BY DEF OwnReads, RowsOf
  <2>1. CASE Same(read'[i], read[i])
    <3>1. \A r \in Rows : read[i].before[r] <= server'[r]
      BY <1>0, Recorded DEF DInv, Own, OwnReads
    <3> QED
      BY <2>1, <3>1 DEF DInv, Own, OwnReads, Same
  <2>2. CASE Blank(read'[i])
    <3>1. \A r \in Rows : server'[r] >= 0
      BY <1>0
    <3> QED
      BY <2>2, <3>1 DEF Blank, Nothing
  <2> QED
    BY <2>1, <2>2
<1>4. OwnChanges' /\ OwnRowsOnly' /\ LastChangeStands' /\ NeverBehind'
  BY DEF DInv, Own, Stand, OwnChanges, OwnRowsOnly, LastChangeStands, NeverBehind, Makes, MakesAfter
<1>5. FloorsServed'
  BY <1>0, ShownNat DEF DInv, Own, FloorsServed
<1>6. SnapshotsStand'
  BY DEF DInv, Stand, SnapshotsStand, Superseded, Same, Blank, Makes, MakesAfter
<1>7. AdoptionsStand'
  BY DEF DInv, Stand, AdoptionsStand, Same, Blank
<1> QED
  BY <1>1, <1>2, <1>3, <1>4, <1>5, <1>6, <1>7 DEF DInv, Own, Stand

\* Writes that go stale or end keep what is known of writes.
LEMMA WritesEnd ==
    ASSUME OwnWrites, UNCHANGED <<org, server>>,
           \A w \in Writes : write'[w] = write[w] \/ write'[w] = Stale(write[w]) \/ write'[w] = NoWrite,
           \A r \in Rows : server[r] >= 0, Shapes
    PROVE  OwnWrites'
<1> SUFFICES ASSUME NEW w \in Writes
    PROVE /\ write'[w].current => write'[w].rows \subseteq RowsOf(org)
          /\ \A r \in Rows : /\ write'[w].made[r] <= server[r]
                             /\ write'[w].made[r] # 0 => r \in write'[w].rows
  BY DEF OwnWrites, RowsOf
<1>1. CASE write'[w] = write[w]
  BY <1>1 DEF OwnWrites
<1>2. CASE write'[w] = Stale(write[w])
  BY <1>2 DEF OwnWrites, Stale, Shapes, WriteRecords
<1>3. CASE write'[w] = NoWrite
  BY <1>3 DEF NoWrite, Nothing
<1> QED
  BY <1>1, <1>2, <1>3

\* The quiet steps.
LEMMA QuietSteps ==
    ASSUME IInv, Shapes', DInv,
           \/ TimePasses
           \/ \E o \in Orgs : LeavePage(o)
           \/ \E r \in Rows : OthersWrite(r)
           \/ \E w \in Writes : \/ \E R \in SUBSET Rows : StartWrite(w, R)
                                \/ ServerWrites(w) \/ WriteFails(w) \/ WriteForgotten(w)
           \/ \E i \in Reads : \/ \E R \in SUBSET Rows : BeginRead(i, R)
                               \/ \E o \in Orgs, R \in SUBSET Rows : RequestDelivery(i, o, R)
                               \/ \E renewed \in BOOLEAN : Arrive(i, renewed)
           \/ UNCHANGED vars
    PROVE  DInv'
<1> USE DEF shellVars, historyVars
<1>a. Shapes /\ OwnWrites /\ OwnReads /\ OneNavigation /\ pending \in Reads \cup {None} /\ expired \in 0 .. Len(changes)
  BY DEF IInv, DInv, Own, Displayed, History
<1>b. (\A r \in Rows : server[r] \in Nat) /\ sequence \in Nat /\ Len(changes) \in Nat
  BY <1>a, Recorded, HistoryFacts DEF DInv
<1>c. /\ \A x \in ReadRecords : Same(x, x) /\ Same(Stale(x), x)
      /\ Blank(NoRead)
  BY <1>b DEF Same, Stale, Blank, NoRead, ReadRecords
<1>d. \A i \in Reads : read[i] \in ReadRecords
  BY <1>a DEF Shapes
<1>e. /\ NoRead \in ReadRecords /\ NoRead.stage = "idle" /\ ~NoRead.answered
      /\ NoRead.snapshot = Nothing /\ NoRead.before = Nothing
  BY NothingIsContents DEF NoRead
<1>1. CASE TimePasses
  <2>1. OwnWrites' /\ OneNavigation'
    BY <1>a, <1>1 DEF TimePasses, OwnWrites, OneNavigation, RowsOf
  <2>2. expired' \in 0 .. Len(changes)
    BY <1>a, <1>b, <1>1 DEF TimePasses
  <2> QED
    BY <1>a, <1>b, <1>c, <1>d, <1>1, <2>1, <2>2, Quiet DEF TimePasses
<1>2. ASSUME NEW o \in Orgs, LeavePage(o) PROVE DInv'
  <2>1. OwnWrites'
    BY <1>a, <1>b, <1>2, WritesEnd DEF LeavePage, EndLifetime
  <2>2. ASSUME NEW i \in Reads
        PROVE /\ Same(read'[i], read[i]) \/ Blank(read'[i])
              /\ read'[i].stage # "left"
    <3>1. read'[i] = CASE read[i].stage = "left" -> NoRead
                       [] read[i].stage = "open" -> Stale(read[i])
                       [] OTHER -> read[i]
      BY <1>2 DEF LeavePage
    <3>2. CASE read[i].stage = "left"
      BY <1>c, <3>1, <3>2 DEF NoRead
    <3>3. CASE read[i].stage = "open"
      BY <1>c, <1>d, <3>1, <3>3, StaleRecords
    <3>4. CASE read[i].stage \notin {"left", "open"}
      BY <1>c, <1>d, <3>1, <3>4
    <3> QED
      BY <3>2, <3>3, <3>4
  <2>3. OneNavigation'
    BY <2>2 DEF OneNavigation
  <2> QED
    BY <1>a, <1>b, <1>2, <2>1, <2>2, <2>3, Quiet DEF LeavePage
<1>3. ASSUME NEW r \in Rows, OthersWrite(r) PROVE DInv'
  <2>1. \A q \in Rows : server[q] <= server'[q]
    BY <1>a, <1>b, <1>3 DEF OthersWrite, Shapes, Contents
  <2>2. OwnWrites' /\ OneNavigation'
    BY <1>a, <1>b, <1>3, <2>1, Recorded DEF OthersWrite, OwnWrites, OneNavigation, RowsOf
  <2> QED
    BY <1>a, <1>b, <1>c, <1>d, <1>3, <2>1, <2>2, Quiet DEF OthersWrite
<1>4. ASSUME NEW w \in Writes, NEW R \in SUBSET Rows, StartWrite(w, R) PROVE DInv'
  <2>1. OwnWrites'
    BY <1>a, <1>b, <1>4 DEF StartWrite, OwnWrites, RowsOf, Shapes, Nothing
  <2>2. OneNavigation'
    BY <1>a, <1>4 DEF StartWrite, OneNavigation
  <2> QED
    BY <1>a, <1>b, <1>c, <1>d, <1>4, <2>1, <2>2, Quiet DEF StartWrite
<1>5. ASSUME NEW w \in Writes, ServerWrites(w) PROVE DInv'
  <2>1. PICK S \in SUBSET write[w].rows \ {{}} :
          /\ server' = [r \in Rows |-> IF r \in S THEN server[r] + 1 ELSE server[r]]
          /\ write' = [write EXCEPT
                 ![w].stage = "applied",
                 ![w].made = [r \in Rows |-> IF r \in S THEN server[r] + 1 ELSE 0]]
    BY <1>5 DEF ServerWrites
  <2>2. \A r \in Rows : server[r] <= server'[r]
    BY <1>b, <2>1
  <2>3. OwnWrites'
    <3>1. /\ write'[w].rows = write[w].rows /\ write'[w].current = write[w].current
          /\ write'[w].made = [r \in Rows |-> IF r \in S THEN server[r] + 1 ELSE 0]
          /\ \A v \in Writes \ {w} : write'[v] = write[v]
      BY <1>a, <2>1 DEF Shapes, WriteRecords
    <3>2. \A v \in Writes, r \in Rows : write[v].made[r] <= server'[r]
      <4>1. \A r \in Rows : server'[r] \in Nat
        BY StoreAssumption DEF Shapes, Contents
      <4> QED
        BY <1>a, <1>b, <2>2, <4>1, Recorded DEF OwnWrites
    <3>3. \A r \in Rows : write'[w].made[r] <= server'[r] /\ (write'[w].made[r] # 0 => r \in write[w].rows)
      BY <1>b, <2>1, <3>1
    <3>4. org' = org
      BY <1>5 DEF ServerWrites
    <3> QED
      BY <1>a, <3>1, <3>2, <3>3, <3>4 DEF OwnWrites, RowsOf
  <2>4. OneNavigation'
    BY <1>a, <1>5 DEF ServerWrites, OneNavigation
  <2> QED
    BY <1>a, <1>b, <1>c, <1>d, <1>5, <2>2, <2>3, <2>4, Quiet DEF ServerWrites
<1>6. ASSUME NEW w \in Writes, WriteFails(w) \/ WriteForgotten(w) PROVE DInv'
  <2>1. OwnWrites'
    BY <1>a, <1>b, <1>6, WritesEnd DEF WriteFails, WriteForgotten, Shapes
  <2>2. OneNavigation'
    BY <1>a, <1>6 DEF WriteFails, WriteForgotten, OneNavigation
  <2> QED
    BY <1>a, <1>b, <1>c, <1>d, <1>6, <2>1, <2>2, Quiet DEF WriteFails, WriteForgotten
<1>7. ASSUME NEW i \in Reads, NEW R \in SUBSET Rows, BeginRead(i, R) PROVE DInv'
  <2>1. /\ Blank(read'[i]) /\ read'[i].stage = "open"
        /\ \A j \in Reads \ {i} : read'[j] = read[j]
    <3> DEFINE x == [NoRead EXCEPT !.kind = "range", !.stage = "open", !.org = org,
                                   !.rows = R, !.since = sequence, !.current = TRUE]
    <3>1. Blank(x) /\ x.stage = "open"
      <4>1. /\ x.kind = "range" /\ x.stage = "open" /\ x.org = org /\ x.rows = R /\ x.since = sequence
            /\ x.answered = NoRead.answered /\ x.snapshot = NoRead.snapshot /\ x.before = NoRead.before
        BY <1>e DEF ReadRecords
      <4>2. R \subseteq RowsOf(org)
        BY <1>7 DEF BeginRead
      <4> HIDE DEF x
      <4> QED
        BY <1>b, <1>e, <4>1, <4>2 DEF Blank
    <3>2. read' = [read EXCEPT ![i] = x]
      BY <1>7 DEF BeginRead
    <3> HIDE DEF x
    <3> QED
      BY <1>a, <3>1, <3>2 DEF Shapes
  <2>2. OwnWrites' /\ OneNavigation'
    BY <1>a, <1>7, <2>1 DEF BeginRead, OwnWrites, OneNavigation, RowsOf
  <2>3. \A j \in Reads : Same(read'[j], read[j]) \/ Blank(read'[j])
    BY <1>c, <1>d, <2>1
  <2> QED
    <3>1. UNCHANGED <<server, shown, org, sequence, changes, expired, prunedThrough, supersededBefore, floor>>
          /\ UNCHANGED pending
      BY <1>7 DEF BeginRead
    <3> QED
      BY <1>a, <1>b, <2>2, <2>3, <3>1, Quiet
<1>8. ASSUME NEW i \in Reads, NEW o \in Orgs, NEW R \in SUBSET Rows, RequestDelivery(i, o, R) PROVE DInv'
  <2>1. /\ Blank(read'[i]) /\ read'[i].since = sequence
        /\ \A j \in Reads \ {i} : /\ read'[j] = read[j] \/ read'[j] = NoRead
                                  /\ read'[j].stage # "left"
    <3> DEFINE x == [NoRead EXCEPT !.kind = "delivery", !.stage = "left", !.org = o,
                                   !.rows = R, !.since = sequence]
    <3>1. Blank(x) /\ x.since = sequence
      <4>1. /\ x.kind = "delivery" /\ x.org = o /\ x.rows = R /\ x.since = sequence
            /\ x.answered = NoRead.answered /\ x.snapshot = NoRead.snapshot /\ x.before = NoRead.before
        BY <1>e DEF ReadRecords
      <4>2. R \subseteq RowsOf(o)
        BY <1>8 DEF RequestDelivery
      <4> HIDE DEF x
      <4> QED
        BY <1>b, <1>e, <4>1, <4>2 DEF Blank
    <3>2. read'[i] = x
      BY <1>8 DEF RequestDelivery
    <3> HIDE DEF x
    <3>3. \A j \in Reads \ {i} : read'[j] = IF read[j].stage = "left" THEN NoRead ELSE read[j]
      BY <1>8 DEF RequestDelivery
    <3> QED
      BY <1>e, <3>1, <3>2, <3>3
  <2>2. OwnWrites' /\ OneNavigation'
    BY <1>a, <1>8, <2>1 DEF RequestDelivery, OwnWrites, OneNavigation, RowsOf
  <2>3. \A j \in Reads : Same(read'[j], read[j]) \/ Blank(read'[j])
    BY <1>c, <1>d, <2>1
  <2> QED
    <3>1. UNCHANGED <<server, shown, org, sequence, changes, expired, prunedThrough, supersededBefore, floor>>
          /\ UNCHANGED pending
      BY <1>8 DEF RequestDelivery
    <3> QED
      BY <1>a, <1>b, <2>2, <2>3, <3>1, Quiet
<1>9. ASSUME NEW i \in Reads, NEW renewed \in BOOLEAN, Arrive(i, renewed) PROVE DInv'
  <2>1. /\ Same(read'[i], read[i]) /\ read'[i].stage = "open"
        /\ \A j \in Reads \ {i} : read'[j] = read[j] \/ read'[j] = Stale(read[j])
    <3>1. /\ read'[i] = [read[i] EXCEPT !.stage = "open", !.current = TRUE]
          /\ \A j \in Reads \ {i} : read'[j] = read[j] \/ read'[j] = Stale(read[j])
      BY <1>9 DEF Arrive
    <3>2. Same(read'[i], read[i]) /\ read'[i].stage = "open"
      BY <1>d, <3>1 DEF Same, ReadRecords
    <3> QED
      BY <3>1, <3>2
  <2>2. \A j \in Reads : read'[j].stage # "left"
    <3>1. read[i].stage = "left"
      BY <1>9 DEF Arrive
    <3>2. \A j \in Reads \ {i} : read[j].stage # "left" /\ read'[j].stage = read[j].stage
      BY <1>a, <1>d, <2>1, <3>1, StaleRecords DEF OneNavigation
    <3> QED
      BY <2>1, <3>2
  <2>3. OwnWrites'
    <3>1. UNCHANGED <<org, server>> /\ \A w \in Writes : write'[w] = write[w] \/ write'[w] = Stale(write[w])
      BY <1>9 DEF Arrive, EndLifetime
    <3> QED
      BY <1>a, <1>b, <3>1, WritesEnd
  <2>4. OneNavigation'
    BY <2>2 DEF OneNavigation
  <2> QED
    <3>1. \A j \in Reads : Same(read'[j], read[j]) \/ Blank(read'[j])
      BY <1>c, <1>d, <2>1
    <3>2. UNCHANGED <<server, shown, org, sequence, changes, expired, prunedThrough, supersededBefore, floor>>
          /\ pending' = i
      BY <1>9 DEF Arrive
    <3> QED
      BY <1>a, <1>b, <2>3, <2>4, <3>1, <3>2, Quiet
<1>10. CASE UNCHANGED vars
  <2>1. OwnWrites' /\ OneNavigation'
    BY <1>a, <1>10 DEF vars, OwnWrites, OneNavigation, RowsOf
  <2> QED
    BY <1>a, <1>b, <1>c, <1>d, <1>10, <2>1, Quiet DEF vars
<1> QED
  BY <1>1, <1>2, <1>3, <1>4, <1>5, <1>6, <1>7, <1>8, <1>9, <1>10

-----------------------------------------------------------------------------
(* Adoptions begin, the server answers, reads close. *)

\* A full reread takes a number of its own, so no answer is newer than it.
LEMMA AdoptionBegins ==
    ASSUME IInv, Shapes', DInv, NEW i \in Reads, BeginAdoption(i)
    PROVE  DInv'
<1>a. Shapes /\ History /\ Displayed /\ OwnWrites /\ OwnReads /\ OneNavigation
  BY DEF IInv, DInv, Own
<1>b. (\A r \in Rows : server[r] \in Nat) /\ sequence \in Nat /\ Len(changes) \in Nat
  BY <1>a, Recorded, HistoryFacts
<1>1. /\ sequence' = sequence + 1 /\ ~remounted
      /\ UNCHANGED <<server, shown, org, remounted, changes, expired, prunedThrough, supersededBefore,
                     write, pending, floor>>
  BY DEF BeginAdoption, shellVars
<1>2. /\ \A j \in Reads \ {i} : read'[j] = read[j]
      /\ read'[i].kind = "adoption" /\ read'[i].stage = "open" /\ ~read'[i].answered
      /\ read'[i].org = org /\ read'[i].rows = RowsOf(org) /\ read'[i].since = sequence + 1
      /\ read'[i].snapshot = Nothing
      /\ read'[i].before = [r \in Rows |-> IF OrgOf[r] = org THEN server[r] ELSE 0]
  <2> DEFINE x == [NoRead EXCEPT !.kind = "adoption", !.stage = "open", !.org = org,
                                 !.rows = RowsOf(org), !.since = sequence + 1, !.current = TRUE,
                                 !.before = [r \in Rows |-> IF OrgOf[r] = org THEN server[r] ELSE 0]]
  <2>1. read' = [read EXCEPT ![i] = x]
    BY DEF BeginAdoption
  <2>2. NoRead \in ReadRecords /\ ~NoRead.answered /\ NoRead.snapshot = Nothing
    BY NothingIsContents DEF NoRead
  <2>3. /\ x.kind = "adoption" /\ x.stage = "open" /\ x.answered = NoRead.answered
        /\ x.org = org /\ x.rows = RowsOf(org) /\ x.since = sequence + 1
        /\ x.snapshot = NoRead.snapshot
        /\ x.before = [r \in Rows |-> IF OrgOf[r] = org THEN server[r] ELSE 0]
    BY <2>2 DEF ReadRecords
  <2> HIDE DEF x
  <2>4. read'[i] = x /\ \A j \in Reads \ {i} : read'[j] = read[j]
    BY <1>a, <2>1 DEF Shapes
  <2> QED
    BY <2>2, <2>3, <2>4
<1>3. History' /\ Displayed'
  <2>1. prunedThrough \in 0 .. sequence' /\ supersededBefore \in 0 .. sequence'
    BY <1>a, <1>b, <1>1 DEF History, Displayed
  <2>2. \A n \in 1 .. Len(changes) : changes[n].sequence <= sequence'
    BY <1>a, <1>b, <1>1, HistoryFacts DEF History
  <2> QED
    BY <1>a, <1>1, <2>1, <2>2 DEF History, Displayed
<1>4. OwnWrites' /\ OneNavigation'
  BY <1>a, <1>1, <1>2 DEF OwnWrites, OneNavigation, RowsOf
<1>5. OwnReads'
  <2>1. ASSUME NEW j \in Reads \ {i}
        PROVE /\ read'[j].since <= sequence + 1
              /\ read'[j].rows \subseteq RowsOf(read'[j].org)
              /\ read'[j].kind = "adoption" => read'[j].stage = "open" /\ read'[j].org = org
              /\ \A r \in Rows : /\ read'[j].snapshot[r] # 0 => r \in read'[j].rows
                                 /\ read'[j].before[r] # 0 => r \in read'[j].rows
                                 /\ read'[j].before[r] <= server[r]
    BY <1>a, <1>b, <1>2, Recorded DEF OwnReads
  <2>2. \A r \in Rows : /\ read'[i].snapshot[r] = 0
                        /\ read'[i].before[r] # 0 => r \in read'[i].rows
                        /\ read'[i].before[r] <= server[r]
    BY <1>b, <1>2 DEF Nothing, RowsOf
  <2> QED
    BY <1>1, <1>2, <1>b, <2>1, <2>2 DEF OwnReads, RowsOf
<1>6. OwnChanges' /\ OwnRowsOnly' /\ LastChangeStands' /\ NeverBehind' /\ FloorsServed'
  BY <1>1 DEF DInv, Own, Stand, OwnChanges, OwnRowsOnly, LastChangeStands, NeverBehind, FloorsServed,
              Makes, MakesAfter
<1>7. SnapshotsStand'
  BY <1>1, <1>2 DEF DInv, Stand, SnapshotsStand, Superseded, Makes, MakesAfter
<1>8. AdoptionsStand'
  <2>1. \A j \in Reads : read'[j].answered => j # i /\ read'[j] = read[j] /\ read[j].since < sequence + 1
    BY <1>a, <1>b, <1>2, Recorded DEF OwnReads
  <2> SUFFICES ASSUME NEW a \in Reads, NEW j \in Reads, read'[a].kind = "adoption",
                      read'[j].answered, read'[j].since >= read'[a].since, NEW r \in read'[j].rows
               PROVE  read'[j].snapshot[r] >= read'[a].before[r]
    BY DEF AdoptionsStand
  <2>2. read'[j] = read[j] /\ read[j].since < sequence + 1 /\ read[j].since \in Nat
    BY <1>a, <2>1, Recorded
  <2>3. a # i
    BY <1>b, <1>2, <2>2
  <2>4. read'[a] = read[a]
    BY <1>2, <2>3
  <2> QED
    BY <2>2, <2>4 DEF DInv, Stand, AdoptionsStand
<1> QED
  BY <1>3, <1>4, <1>5, <1>6, <1>7, <1>8 DEF DInv, Own, Stand

\* The server answers with what it has.
LEMMA AnswerStands ==
    ASSUME IInv, Shapes', DInv, NEW i \in Reads, ServerAnswers(i)
    PROVE  DInv'
<1>a. Shapes /\ History /\ Displayed /\ OwnWrites /\ OwnReads /\ OneNavigation
  BY DEF IInv, DInv, Own
<1>1. UNCHANGED <<server, shown, org, remounted, sequence, changes, expired, prunedThrough,
                  supersededBefore, write, pending, floor>>
  BY DEF ServerAnswers, shellVars, historyVars
<1>2. /\ \A j \in Reads \ {i} : read'[j] = read[j]
      /\ read'[i].snapshot = [r \in Rows |-> IF r \in read[i].rows THEN server[r] ELSE 0]
      /\ \A j \in Reads : /\ read'[j].kind = read[j].kind /\ read'[j].stage = read[j].stage
                          /\ read'[j].org = read[j].org /\ read'[j].rows = read[j].rows
                          /\ read'[j].since = read[j].since /\ read'[j].before = read[j].before
  BY <1>a DEF ServerAnswers, Shapes, ReadRecords
<1>3. History' /\ Displayed' /\ OwnWrites' /\ OneNavigation'
  BY <1>a, <1>1, <1>2 DEF History, Displayed, OwnWrites, OneNavigation, RowsOf
<1>4. OwnReads'
  <2>1. \A j \in Reads, r \in Rows : read'[j].snapshot[r] # 0 => r \in read[j].rows
    BY <1>a, <1>2 DEF OwnReads
  <2> QED
    BY <1>a, <1>1, <1>2, <2>1 DEF OwnReads, RowsOf
<1>5. OwnChanges' /\ OwnRowsOnly' /\ LastChangeStands' /\ NeverBehind' /\ FloorsServed'
  BY <1>1 DEF DInv, Own, Stand, OwnChanges, OwnRowsOnly, LastChangeStands, NeverBehind, FloorsServed,
              Makes, MakesAfter
<1>6. \A r \in read[i].rows : r \in Rows /\ read'[i].snapshot[r] = server[r]
  BY <1>a, <1>2, Recorded
<1>7. SnapshotsStand'
  <2>1. \A r \in read[i].rows : read'[i].snapshot[r] >= floor[r]
    BY <1>a, <1>6, Recorded, ShownNat DEF DInv, Own, FloorsServed
  <2> SUFFICES ASSUME NEW j \in Reads, read'[j].answered, ~Superseded(j)', prunedThrough' <= read'[j].since,
                      NEW r \in read'[j].rows,
                      ~\E n \in 1 .. Len(changes') : MakesAfter(n, r, read[j].since)'
               PROVE  read'[j].snapshot[r] >= floor'[r]
    BY <1>2 DEF SnapshotsStand
  <2>2. CASE j = i
    BY <1>1, <1>2, <2>1, <2>2
  <2>3. CASE j # i
    <3>1. read'[j] = read[j] /\ read[j].answered /\ r \in read[j].rows
      BY <1>2, <2>3
    <3>2. ~Superseded(j) /\ prunedThrough <= read[j].since
      BY <1>1, <3>1 DEF Superseded
    <3>3. ~\E n \in 1 .. Len(changes) : MakesAfter(n, r, read[j].since)
      BY <1>1, <3>1 DEF MakesAfter, Makes
    <3> QED
      BY <1>1, <3>1, <3>2, <3>3 DEF DInv, Stand, SnapshotsStand
  <2> QED
    BY <2>2, <2>3
<1>8. AdoptionsStand'
  <2>1. \A j \in Reads : \A r \in read[i].rows : read'[i].snapshot[r] >= read[j].before[r]
    BY <1>a, <1>6, Recorded DEF OwnReads
  <2> QED
    BY <1>2, <2>1 DEF DInv, Stand, AdoptionsStand
<1> QED
  BY <1>3, <1>4, <1>5, <1>7, <1>8 DEF DInv, Own, Stand

\* Old changes are forgotten.
Kept ==
    /\ prunedThrough <= prunedThrough'
    /\ \A n \in 1 .. Len(changes') : \E m \in 1 .. Len(changes) : changes'[n] = changes[m]
    /\ \A m \in 1 .. Len(changes) : \/ changes[m].sequence <= prunedThrough'
                                    \/ \E n \in 1 .. Len(changes') : changes'[n] = changes[m]

\* Pruning the history forgets a prefix of it.
LEMMA PruneIsKept ==
    ASSUME Shapes, History, NEW readers, Prune(changes, readers), sequence' = sequence
    PROVE  Kept /\ History'
BY HistoryFacts, PruneKeeps DEF History, Kept

\* A change after what is dropped is kept, and the last one stays the last.
LEMMA KeptMakes ==
    ASSUME Shapes, Shapes', History, History', Kept, NEW r \in Rows
    PROVE  /\ \A since \in Nat :
                /\ prunedThrough' <= since
                /\ \E n \in 1 .. Len(changes) : MakesAfter(n, r, since)
                => \E n \in 1 .. Len(changes') : changes'[n].sequence > since /\ Makes(n, r)'
           /\ \A n \in 1 .. Len(changes') :
                /\ Makes(n, r)'
                /\ \A m \in 1 .. Len(changes') :
                       Makes(m, r)' => changes'[m].sequence <= changes'[n].sequence
                => \E k \in 1 .. Len(changes) :
                      /\ changes[k] = changes'[n] /\ Makes(k, r)
                      /\ \A m \in 1 .. Len(changes) :
                             Makes(m, r) => changes[m].sequence <= changes[k].sequence
<1>1. /\ prunedThrough' \in Nat
      /\ \A n \in 1 .. Len(changes) : changes[n].sequence \in Nat
      /\ \A n \in 1 .. Len(changes') : changes'[n].sequence \in Nat /\ prunedThrough' < changes'[n].sequence
  <2>1. prunedThrough' \in Nat
    BY StoreAssumption DEF Shapes, History
  <2>2. \A n \in 1 .. Len(changes) : changes[n].sequence \in Nat
    BY HistoryFacts
  <2>3. \A n \in 1 .. Len(changes') : changes'[n].sequence \in Nat
    BY <2>2 DEF Kept
  <2> QED
    BY <2>1, <2>2, <2>3 DEF History
<1>2. ASSUME NEW since \in Nat, prunedThrough' <= since,
             NEW n \in 1 .. Len(changes), MakesAfter(n, r, since)
      PROVE  \E k \in 1 .. Len(changes') : changes'[k].sequence > since /\ Makes(k, r)'
  <2>1. ~(changes[n].sequence <= prunedThrough')
    BY <1>1, <1>2 DEF MakesAfter
  <2>2. PICK k \in 1 .. Len(changes') : changes'[k] = changes[n]
    BY <2>1 DEF Kept
  <2> QED
    BY <1>2, <2>2 DEF MakesAfter, Makes
<1>3. ASSUME NEW n \in 1 .. Len(changes'), Makes(n, r)',
             \A m \in 1 .. Len(changes') : Makes(m, r)' => changes'[m].sequence <= changes'[n].sequence
      PROVE  \E k \in 1 .. Len(changes) :
                /\ changes[k] = changes'[n] /\ Makes(k, r)
                /\ \A m \in 1 .. Len(changes) : Makes(m, r) => changes[m].sequence <= changes[k].sequence
  <2>1. PICK k \in 1 .. Len(changes) : changes'[n] = changes[k]
    BY DEF Kept
  <2>2. ASSUME NEW m \in 1 .. Len(changes), Makes(m, r) PROVE changes[m].sequence <= changes[k].sequence
    <3>1. CASE changes[m].sequence <= prunedThrough'
      BY <1>1, <2>1, <3>1
    <3>2. CASE \E j \in 1 .. Len(changes') : changes'[j] = changes[m]
      BY <1>3, <2>1, <2>2, <3>2 DEF Makes
    <3> QED
      BY <3>1, <3>2 DEF Kept
  <2> QED
    BY <1>3, <2>1, <2>2 DEF Makes
<1> QED
  BY <1>2, <1>3

\* A read that closes lets go of changes that only it still needed.
LEMMA ReadCloses ==
    ASSUME IInv, Shapes', DInv, NEW i \in Reads, CloseRead(i)
    PROVE  DInv'
<1>a. Shapes /\ History /\ Displayed /\ OwnWrites /\ OwnReads /\ OneNavigation
  BY DEF IInv, DInv, Own
<1>1. /\ UNCHANGED <<server, shown, org, remounted, sequence, supersededBefore, write, floor>>
      /\ Prune(changes, Open \ {i})
      /\ pending' \in Reads \cup {None}
  BY <1>a DEF CloseRead, shellVars, Displayed
<1>2. \A j \in Reads : read'[j] = IF j = i THEN NoRead ELSE read[j]
  BY <1>a DEF CloseRead, Shapes
<1>3. Kept /\ History'
  BY <1>a, <1>1, PruneIsKept
<1>e. /\ NoRead.kind = "none" /\ NoRead.stage = "idle" /\ ~NoRead.answered /\ NoRead.since = 0
      /\ NoRead.rows = {} /\ NoRead.snapshot = Nothing /\ NoRead.before = Nothing
  BY DEF NoRead
<1>4. Displayed' /\ OwnWrites' /\ OneNavigation'
  BY <1>a, <1>1, <1>2, <1>e DEF Displayed, OwnWrites, OneNavigation, RowsOf
<1>5. OwnReads'
  <2>1. sequence >= 0 /\ \A r \in Rows : Nothing[r] = 0 /\ server[r] >= 0
    BY <1>a, Recorded DEF Nothing
  <2> QED
    BY <1>a, <1>1, <1>2, <1>e, <2>1 DEF OwnReads, RowsOf
<1>6. OwnChanges'
  BY <1>1, <1>3 DEF DInv, Own, OwnChanges, Kept, Makes
<1>7. OwnRowsOnly' /\ NeverBehind' /\ FloorsServed'
  BY <1>1 DEF DInv, Own, Stand, OwnRowsOnly, NeverBehind, FloorsServed
<1>8. LastChangeStands'
  <2> SUFFICES ASSUME NEW n \in 1 .. Len(changes'), NEW r \in Rows, MakesAfter(n, r, supersededBefore)',
                      \A m \in 1 .. Len(changes') : Makes(m, r)' => changes'[m].sequence <= changes'[n].sequence
               PROVE  changes'[n].made[r] = floor'[r]
    BY DEF LastChangeStands
  <2>1. PICK k \in 1 .. Len(changes) :
           /\ changes[k] = changes'[n] /\ Makes(k, r)
           /\ \A m \in 1 .. Len(changes) : Makes(m, r) => changes[m].sequence <= changes[k].sequence
    BY <1>a, <1>3, KeptMakes DEF MakesAfter
  <2>2. MakesAfter(k, r, supersededBefore)
    BY <1>1, <2>1 DEF MakesAfter
  <2> QED
    BY <1>1, <2>1, <2>2 DEF DInv, Stand, LastChangeStands
<1>9. SnapshotsStand'
  <2> SUFFICES ASSUME NEW j \in Reads, read'[j].answered, ~Superseded(j)', prunedThrough' <= read'[j].since,
                      NEW r \in read'[j].rows,
                      ~\E n \in 1 .. Len(changes') : MakesAfter(n, r, read[j].since)'
               PROVE  read'[j].snapshot[r] >= floor'[r]
    BY DEF SnapshotsStand
  <2>1. j # i /\ read'[j] = read[j] /\ read[j].since \in Nat /\ r \in Rows
    BY <1>a, <1>2, <1>e, Recorded
  <2>2. prunedThrough <= read[j].since /\ ~Superseded(j)
    <3>1. prunedThrough \in Nat /\ prunedThrough' \in Nat
      BY <1>a, <1>3, <1>1, HistoryFacts DEF History
    <3> QED
      BY <1>1, <1>3, <2>1, <3>1 DEF Kept, Superseded
  <2>3. ~\E n \in 1 .. Len(changes) : MakesAfter(n, r, read[j].since)
    BY <1>a, <1>3, <2>1, KeptMakes DEF MakesAfter
  <2> QED
    BY <1>1, <2>1, <2>2, <2>3 DEF DInv, Stand, SnapshotsStand
<1>10. AdoptionsStand'
  BY <1>2, <1>e DEF DInv, Stand, AdoptionsStand
<1> QED
  BY <1>3, <1>4, <1>5, <1>6, <1>7, <1>8, <1>9, <1>10 DEF DInv, Own, Stand

-----------------------------------------------------------------------------
(* Confirmations. *)

\* The response of a write confirms a change that is newer than every snapshot.
LEMMA ConfirmationStands ==
    ASSUME IInv, Shapes', DInv, NEW w \in Writes, WriteConfirmed(w)
    PROVE  DInv'
<1> DEFINE made == write[w].made
           N == Len(changes)
           latest == [sequence |-> sequence + 1, made |-> made]
           chs == Append(changes, latest)
<1>a. Shapes /\ History /\ Displayed /\ OwnWrites /\ OwnReads /\ OneNavigation
  BY DEF IInv, DInv, Own
<1>1. /\ sequence' = sequence + 1 /\ sequence + 1 \in 1 .. MaxSequence
      /\ UNCHANGED <<server, org, remounted, supersededBefore, read, pending>>
      /\ write[w].current /\ ~remounted
      /\ shown' = Applied(shown, made) /\ floor' = Applied(floor, made)
      /\ Prune(chs, Open)
      /\ write' = [write EXCEPT ![w] = NoWrite]
  BY StoreAssumption DEF IInv, EndedIsStale, Shapes, WriteConfirmed, Settles, Commit, shellVars
<1>2. /\ made \in Contents
      /\ \A r \in Rows : /\ made[r] \in 0 .. MaxVersion /\ made[r] <= server[r]
                         /\ made[r] # 0 => OrgOf[r] = org
  BY <1>a, <1>1 DEF Shapes, WriteRecords, OwnWrites, RowsOf, Contents
<1>3. /\ N \in Nat /\ Len(chs) = N + 1 /\ chs \in Seq(ChangeRecords)
      /\ \A n \in 1 .. N : chs[n] = changes[n]
      /\ chs[N + 1] = latest
      /\ latest \in ChangeRecords /\ latest.sequence = sequence + 1 /\ latest.made = made
  <2>1. latest \in ChangeRecords /\ latest.sequence = sequence + 1 /\ latest.made = made
    BY <1>1, <1>2 DEF ChangeRecords
  <2>2. N \in Nat
    BY <1>a, HistoryFacts
  <2> HIDE DEF latest
  <2> QED
    BY <1>a, <2>1, <2>2, AppendProperties DEF History
<1> HIDE DEF made, latest, chs, N
<1>n. N = Len(changes)
  BY DEF N
<1>4. \A m \in 1 .. N + 1 : \/ m \in 1 .. N /\ chs[m] = changes[m] /\ chs[m].sequence <= sequence
                            \/ m = N + 1 /\ chs[m].sequence = sequence + 1 /\ chs[m].made = made
  BY <1>a, <1>3, <1>n DEF History
<1>5. /\ sequence \in Nat /\ prunedThrough \in Nat
      /\ \A m \in 1 .. N + 1 : chs[m].sequence \in Nat /\ prunedThrough < chs[m].sequence
      /\ \A n \in 1 .. N : changes[n].sequence \in Nat
  <2>1. sequence \in Nat /\ prunedThrough \in Nat /\ prunedThrough <= sequence
    BY <1>a, HistoryFacts DEF History
  <2>2. \A n \in 1 .. N : changes[n].sequence \in Nat /\ prunedThrough < changes[n].sequence
    BY <1>a, <1>n, HistoryFacts DEF History
  <2> QED
    BY <1>4, <2>1, <2>2
<1>6. /\ History'
      /\ prunedThrough <= prunedThrough'
      /\ \A n \in 1 .. Len(changes') : \E m \in 1 .. N + 1 : changes'[n] = chs[m]
      /\ \A m \in 1 .. N + 1 : \/ chs[m].sequence <= prunedThrough'
                               \/ \E n \in 1 .. Len(changes') : changes'[n] = chs[m]
  <2>1. expired \in 0 .. Len(chs) /\ prunedThrough \in 0 .. sequence + 1 /\ sequence + 1 \in Nat
    BY <1>a, <1>3, <1>5, <1>n DEF History
  <2>2. \A n \in 1 .. Len(chs) : prunedThrough < chs[n].sequence /\ chs[n].sequence <= sequence + 1
    BY <1>3, <1>4, <1>5
  <2>3. \A m, n \in 1 .. Len(chs) : m < n => chs[m].sequence < chs[n].sequence
    <3> SUFFICES ASSUME NEW m \in 1 .. N + 1, NEW n \in 1 .. N + 1, m < n
                 PROVE  chs[m].sequence < chs[n].sequence
      BY <1>3
    <3>1. m \in 1 .. N /\ chs[m] = changes[m] /\ chs[m].sequence <= sequence
      BY <1>3, <1>4
    <3>2. CASE n \in 1 .. N
      BY <1>a, <1>3, <1>n, <3>1, <3>2 DEF History
    <3>3. CASE n = N + 1
      BY <1>3, <1>4, <1>5, <3>1, <3>3
    <3> QED
      BY <1>3, <3>2, <3>3
  <2>4. Prune(chs, Open) /\ chs \in Seq(ChangeRecords) /\ sequence' = sequence + 1
    BY <1>1, <1>3
  <2> DEFINE top == sequence + 1
  <2>5. /\ top \in Nat /\ expired \in 0 .. Len(chs) /\ prunedThrough \in 0 .. top /\ sequence' = top
        /\ \A n \in 1 .. Len(chs) : prunedThrough < chs[n].sequence /\ chs[n].sequence <= top
    BY <2>1, <2>2, <2>4
  <2> HIDE DEF top
  <2>6. /\ History'
        /\ prunedThrough <= prunedThrough'
        /\ \A n \in 1 .. Len(changes') : \E m \in 1 .. Len(chs) : changes'[n] = chs[m]
        /\ \A m \in 1 .. Len(chs) :
              \/ chs[m].sequence <= prunedThrough'
              \/ \E n \in 1 .. Len(changes') : changes'[n] = chs[m]
    BY <2>3, <2>4, <2>5, PruneKeeps
  <2> QED
    BY <1>3, <2>6
<1>7. /\ Len(changes') \in Nat /\ prunedThrough' \in Nat
      /\ \A n \in 1 .. Len(changes') : changes'[n].sequence \in Nat /\ prunedThrough' < changes'[n].sequence
  <2>1. prunedThrough' \in Nat
    BY <1>1, <1>5, <1>6 DEF History
  <2>2. \A n \in 1 .. Len(changes') : changes'[n].sequence \in Nat
    BY <1>5, <1>6
  <2> QED
    BY <1>6, <2>1, <2>2, LenProperties DEF History
<1>8. \A r \in Rows : /\ shown'[r] = IF made[r] # 0 THEN made[r] ELSE shown[r]
                      /\ floor'[r] = IF made[r] # 0 THEN made[r] ELSE floor[r]
  BY <1>1 DEF Applied
<1>9. Displayed'
  <2>1. shown' \in Contents /\ floor' \in Contents
    BY <1>a, <1>1, <1>2 DEF Applied, Displayed, Contents
  <2>2. supersededBefore \in 0 .. sequence + 1
    BY <1>a, <1>5 DEF Displayed
  <2> QED
    BY <1>a, <1>1, <2>1, <2>2 DEF Displayed
<1>10. OwnWrites'
  <2>1. write'[w] = NoWrite /\ \A v \in Writes \ {w} : write'[v] = write[v]
    BY <1>a, <1>1 DEF Shapes
  <2>2. ~NoWrite.current /\ \A r \in Rows : NoWrite.made[r] = 0 /\ 0 <= server[r]
    BY <1>a, Recorded DEF NoWrite, Nothing
  <2> QED
    BY <1>a, <1>1, <2>1, <2>2 DEF OwnWrites, RowsOf
<1>11. OwnReads' /\ OneNavigation'
  <2>1. \A i \in Reads : read[i].since <= sequence + 1
    BY <1>a, <1>5, Recorded DEF OwnReads
  <2> QED
    BY <1>a, <1>1, <2>1 DEF OwnReads, OneNavigation, RowsOf
<1>12. OwnChanges'
  BY <1>1, <1>2, <1>4, <1>6, <1>n DEF DInv, Own, OwnChanges, Makes
<1>13. OwnRowsOnly' /\ NeverBehind' /\ FloorsServed'
  <2>1. \A r \in Rows : shown[r] \in Nat /\ floor[r] \in Nat /\ made[r] \in Nat
    BY <1>a, <1>2, ShownNat, StoreAssumption
  <2> QED
    BY <1>1, <1>2, <1>8, <2>1 DEF DInv, Own, Stand, OwnRowsOnly, NeverBehind, FloorsServed
<1>14. ASSUME NEW m \in 1 .. N + 1, NEW since \in Nat, prunedThrough' <= since, since < chs[m].sequence,
              NEW r \in Rows, chs[m].made[r] # 0
       PROVE  \E n \in 1 .. Len(changes') : changes'[n].sequence > since /\ changes'[n].made[r] # 0
  <2>1. ~(chs[m].sequence <= prunedThrough')
    BY <1>5, <1>7, <1>14
  <2>2. PICK n \in 1 .. Len(changes') : changes'[n] = chs[m]
    BY <1>6, <2>1
  <2> QED
    BY <1>14, <2>2, <1>5
<1>15. SnapshotsStand'
  <2> SUFFICES ASSUME NEW j \in Reads, read[j].answered, ~Superseded(j), prunedThrough' <= read[j].since,
                      NEW r \in read[j].rows,
                      ~\E n \in 1 .. Len(changes') :
                            changes'[n].sequence > read[j].since /\ changes'[n].made[r] # 0
               PROVE  read[j].snapshot[r] >= floor'[r]
    BY <1>1 DEF SnapshotsStand, Superseded, Makes, MakesAfter
  <2>1. read[j].since \in Nat /\ r \in Rows /\ read[j].since < sequence + 1 /\ prunedThrough <= read[j].since
    BY <1>a, <1>5, <1>6, <1>7, Recorded DEF OwnReads
  <2>2. made[r] = 0
    BY <1>3, <1>4, <1>14, <2>1
  <2>3. ~\E n \in 1 .. N : MakesAfter(n, r, read[j].since)
    BY <1>3, <1>14, <2>1 DEF MakesAfter, Makes
  <2> QED
    BY <1>8, <1>n, <2>1, <2>2, <2>3 DEF DInv, Stand, SnapshotsStand
<1>16. AdoptionsStand'
  BY <1>1 DEF DInv, Stand, AdoptionsStand
<1>17. LastChangeStands'
  <2> SUFFICES ASSUME NEW n \in 1 .. Len(changes'), NEW r \in Rows,
                      changes'[n].sequence > supersededBefore, changes'[n].made[r] # 0,
                      \A m \in 1 .. Len(changes') :
                          changes'[m].made[r] # 0 => changes'[m].sequence <= changes'[n].sequence
               PROVE  changes'[n].made[r] = floor'[r]
    BY <1>1 DEF LastChangeStands, Makes, MakesAfter
  <2>1. PICK m \in 1 .. N + 1 : changes'[n] = chs[m]
    BY <1>6
  <2>2. ASSUME NEW k \in 1 .. N + 1, chs[k].made[r] # 0
        PROVE  chs[k].sequence <= chs[m].sequence
    <3>1. CASE chs[k].sequence <= prunedThrough'
      BY <1>5, <1>7, <2>1, <3>1
    <3>2. CASE \E q \in 1 .. Len(changes') : changes'[q] = chs[k]
      BY <2>1, <2>2, <3>2
    <3> QED
      BY <1>6, <3>1, <3>2
  <2>3. CASE m = N + 1
    BY <1>3, <1>4, <1>8, <2>1, <2>3
  <2>4. CASE m \in 1 .. N
    <3>1. made[r] = 0
      BY <1>3, <1>4, <1>5, <2>2, <2>4
    <3>2. \A k \in 1 .. N : Makes(k, r) => changes[k].sequence <= changes[m].sequence
      BY <1>3, <2>2, <2>4 DEF Makes
    <3>3. MakesAfter(m, r, supersededBefore)
      BY <1>3, <2>1, <2>4 DEF MakesAfter, Makes
    <3>4. changes[m].made[r] = floor[r]
      BY <1>n, <2>4, <3>2, <3>3 DEF DInv, Stand, LastChangeStands
    <3> QED
      BY <1>3, <1>8, <2>1, <2>4, <3>1, <3>4
  <2> QED
    BY <1>4, <2>3, <2>4
<1> QED
  BY <1>6, <1>9, <1>10, <1>11, <1>12, <1>13, <1>15, <1>16, <1>17 DEF DInv, Own, Stand

-----------------------------------------------------------------------------
(* Loads. *)

\* Nothing answers a read that was not requested.
IdleUnasked == \A i \in Reads : read[i].stage = "idle" => ~read[i].answered

\* Only what was requested is answered, and what ends is blank again.
LEMMA IdleStep ==
    ASSUME Shapes, Shapes', IdleUnasked, [Next]_vars
    PROVE  IdleUnasked'
<1>1. ~NoRead.answered /\ NoRead.stage = "idle"
  BY DEF NoRead
<1>2. \A x \in ReadRecords : Stale(x).stage = x.stage /\ Stale(x).answered = x.answered
  BY DEF Stale, ReadRecords
<1>3. ASSUME \A i \in Reads : \/ read'[i].stage = read[i].stage /\ read'[i].answered = read[i].answered
                              \/ read'[i].stage # "idle"
                              \/ ~read'[i].answered
      PROVE  IdleUnasked'
  BY <1>3 DEF IdleUnasked
<1>4. ASSUME NEW o \in Orgs, LeavePage(o) PROVE IdleUnasked'
  <2>1. \A i \in Reads : read'[i] = NoRead \/ read'[i] = Stale(read[i]) \/ read'[i] = read[i]
    BY <1>4 DEF LeavePage
  <2> QED
    BY <1>1, <1>2, <1>3, <2>1 DEF Shapes
<1>5. ASSUME NEW w \in Writes, WriteStep(w) PROVE IdleUnasked'
  <2>1. read' = read
    BY <1>5 DEF WriteStep, StartWrite, ServerWrites, WriteConfirmed, WriteFails, WriteForgotten
  <2> QED
    BY <1>3, <2>1
<1>6. ASSUME NEW i \in Reads, NEW items, NEW o, Load(i, items, o) PROVE IdleUnasked'
  <2>1. \A j \in Reads : read'[j] = NoRead \/ read'[j] = Stale(read[j]) \/ read'[j] = read[j]
    BY <1>6 DEF Load
  <2> QED
    BY <1>1, <1>2, <1>3, <2>1 DEF Shapes
<1>7. ASSUME NEW i \in Reads, ReadStep(i) PROVE IdleUnasked'
  <2>1. ASSUME NEW R \in SUBSET Rows, BeginRead(i, R) PROVE IdleUnasked'
    <3> DEFINE x == [NoRead EXCEPT !.kind = "range", !.stage = "open", !.org = org,
                                   !.rows = R, !.since = sequence, !.current = TRUE]
    <3>1. x.stage = "open"
      BY DEF NoRead
    <3>2. read' = [read EXCEPT ![i] = x]
      BY <2>1 DEF BeginRead
    <3> HIDE DEF x
    <3>3. \A j \in Reads : read'[j] = IF j = i THEN x ELSE read[j]
      BY <3>2 DEF Shapes
    <3> QED
      BY <1>3, <3>1, <3>3
  <2>2. ASSUME NEW o \in Orgs, NEW R \in SUBSET Rows, RequestDelivery(i, o, R) PROVE IdleUnasked'
    <3> DEFINE x == [NoRead EXCEPT !.kind = "delivery", !.stage = "left", !.org = o,
                                   !.rows = R, !.since = sequence]
    <3>1. x.stage = "left"
      BY DEF NoRead
    <3>2. read' = [j \in Reads |-> IF j = i THEN x ELSE IF read[j].stage = "left" THEN NoRead ELSE read[j]]
      BY <2>2 DEF RequestDelivery
    <3> HIDE DEF x
    <3>3. \A j \in Reads : read'[j] = x \/ read'[j] = NoRead \/ read'[j] = read[j]
      BY <3>2
    <3> QED
      BY <1>1, <1>3, <3>1, <3>3
  <2>3. ASSUME NEW renewed \in BOOLEAN, Arrive(i, renewed) PROVE IdleUnasked'
    <3> DEFINE x == [read[i] EXCEPT !.stage = "open", !.current = TRUE]
    <3>1. x.stage = "open"
      BY DEF Shapes, ReadRecords
    <3>2. read' = [j \in Reads |->
                      IF j = i THEN x
                      ELSE IF renewed \/ read[i].org # page \/ read[j].kind = "delivery"
                           THEN Stale(read[j]) ELSE read[j]]
      BY <2>3 DEF Arrive
    <3> HIDE DEF x
    <3>3. \A j \in Reads : read'[j] = x \/ read'[j] = Stale(read[j]) \/ read'[j] = read[j]
      BY <3>2
    <3> QED
      BY <1>2, <1>3, <3>1, <3>3 DEF Shapes
  <2>4. ASSUME BeginAdoption(i) PROVE IdleUnasked'
    <3> DEFINE x == [NoRead EXCEPT !.kind = "adoption", !.stage = "open", !.org = org,
                                   !.rows = RowsOf(org), !.since = sequence + 1, !.current = TRUE,
                                   !.before = [r \in Rows |-> IF OrgOf[r] = org THEN server[r] ELSE 0]]
    <3>1. x.stage = "open"
      BY DEF NoRead
    <3>2. read' = [read EXCEPT ![i] = x]
      BY <2>4 DEF BeginAdoption
    <3> HIDE DEF x
    <3>3. \A j \in Reads : read'[j] = IF j = i THEN x ELSE read[j]
      BY <3>2 DEF Shapes
    <3> QED
      BY <1>3, <3>1, <3>3
  <2>5. ASSUME ServerAnswers(i) PROVE IdleUnasked'
    <3>1. read[i].stage # "idle" /\ \A j \in Reads : read'[j].stage = read[j].stage
      BY <2>5 DEF ServerAnswers, Shapes, ReadRecords
    <3>2. \A j \in Reads \ {i} : read'[j] = read[j]
      BY <2>5 DEF ServerAnswers, Shapes
    <3> QED
      BY <1>3, <3>1, <3>2
  <2>6. ASSUME CloseRead(i) PROVE IdleUnasked'
    <3>1. \A j \in Reads : read'[j] = IF j = i THEN NoRead ELSE read[j]
      BY <2>6 DEF CloseRead, Shapes
    <3> QED
      BY <1>1, <1>3, <3>1
  <2> QED
    BY <1>6, <1>7, <2>1, <2>2, <2>3, <2>4, <2>5, <2>6 DEF ReadStep, ApplyDelivery, ApplyRange, Adopt
<1>8. ASSUME TimePasses \/ (\E r \in Rows : OthersWrite(r)) \/ UNCHANGED vars PROVE IdleUnasked'
  BY <1>3, <1>8 DEF TimePasses, OthersWrite, vars
<1> QED
  BY <1>4, <1>5, <1>7, <1>8 DEF Next

\* A load that leaves no row behind, whatever it shows, leaves every usable
\* snapshot as good as before.
LEMMA LoadStands ==
    ASSUME IInv, Shapes', DInv, IdleUnasked, NEW i \in Open, NEW items \in Contents, NEW o, Load(i, items, o),
           floor' \in Contents, supersededBefore' \in 0 .. sequence, pending' \in Reads \cup {None},
           \A r \in Rows : items[r] # 0 => OrgOf[r] = o,
           \A r \in Rows : floor'[r] <= items[r] /\ floor'[r] <= server[r],
           o # org => floor' = Nothing,
           Resets(o) \/ supersededBefore <= supersededBefore',
           o = org => \A j \in Reads \ {i} :
               read[j].answered /\ ~Superseded(j) /\ supersededBefore' <= read[j].since
                   /\ prunedThrough <= read[j].since =>
                       \A r \in read[j].rows :
                           \/ \E n \in 1 .. Len(changes) : MakesAfter(n, r, read[j].since)
                           \/ floor'[r] <= read[j].snapshot[r],
           ~Resets(o) => \A n \in 1 .. Len(changes), r \in Rows :
               /\ MakesAfter(n, r, supersededBefore')
               /\ \A m \in 1 .. Len(changes) : Makes(m, r) => changes[m].sequence <= changes[n].sequence
               => changes[n].made[r] = floor'[r]
    PROVE  DInv'
<1>a. /\ Shapes /\ History /\ Displayed /\ OwnWrites /\ OwnReads /\ OneNavigation
      /\ i \in Reads /\ read[i].stage = "open"
  BY DEF IInv, DInv, Own, Open
<1>1. /\ shown' = items /\ org' = o /\ ~remounted'
      /\ UNCHANGED <<server, sequence>>
  BY <1>a DEF Load, IInv, Shapes
<1>b. /\ sequence \in Nat /\ prunedThrough \in Nat /\ prunedThrough <= sequence
      /\ supersededBefore \in Nat /\ supersededBefore <= sequence /\ supersededBefore' \in Nat
      /\ \A r \in Rows : server[r] \in Nat /\ floor'[r] \in Nat /\ items[r] \in Nat
  <2>1. \A c \in Contents, r \in Rows : c[r] \in Nat
    BY StoreAssumption DEF Contents
  <2>2. \A r \in Rows : floor'[r] \in Nat /\ items[r] \in Nat
    BY <2>1
  <2> QED
    BY <1>a, <2>2, Recorded, HistoryFacts DEF History, Displayed
<1>e. /\ NoRead.kind = "none" /\ NoRead.stage = "idle" /\ ~NoRead.answered /\ NoRead.since = 0
      /\ NoRead.rows = {} /\ NoRead.before = Nothing /\ NoRead.snapshot = Nothing
      /\ \A r \in Rows : Nothing[r] = 0
  BY DEF NoRead, Nothing
<1>2. \A j \in Reads : \/ read'[j] = NoRead
                       \/ /\ j # i /\ (Resets(o) => j \notin Open)
                          /\ read'[j] = read[j] \/ read'[j] = Stale(read[j])
  BY <1>a DEF Load
<1>3. \A x \in ReadRecords :
         /\ Stale(x).kind = x.kind /\ Stale(x).stage = x.stage /\ Stale(x).since = x.since
         /\ Stale(x).org = x.org /\ Stale(x).rows = x.rows /\ Stale(x).answered = x.answered
         /\ Stale(x).snapshot = x.snapshot /\ Stale(x).before = x.before
  BY DEF Stale, ReadRecords
<1>4. \A j \in Reads : \/ read'[j] = NoRead
                       \/ /\ j # i /\ (Resets(o) => read[j].stage # "open")
                          /\ read'[j].kind = read[j].kind /\ read'[j].stage = read[j].stage
                          /\ read'[j].since = read[j].since /\ read'[j].org = read[j].org
                          /\ read'[j].rows = read[j].rows /\ read'[j].answered = read[j].answered
                          /\ read'[j].snapshot = read[j].snapshot /\ read'[j].before = read[j].before
  BY <1>a, <1>2, <1>3 DEF Open, Shapes
<1>5. History' /\ (~Resets(o) => Kept) /\ (Resets(o) => Len(changes') = 0)
  <2>1. CASE Resets(o)
    <3>1. changes' = <<>> /\ expired' = 0 /\ prunedThrough' = 0
      BY <2>1 DEF Load
    <3>2. changes' \in Seq(ChangeRecords) /\ Len(changes') = 0
      BY <3>1
    <3> QED
      BY <1>1, <1>b, <2>1, <3>1, <3>2 DEF History
  <2>2. CASE ~Resets(o)
    BY <1>a, <1>1, <2>2, PruneIsKept DEF Load
  <2> QED
    BY <2>1, <2>2
<1>6. Displayed'
  BY <1>1 DEF Displayed
<1>7. OwnWrites'
  <2>1. CASE Resets(o)
    <3>1. \A w \in Writes : write'[w] = Stale(write[w])
      BY <2>1 DEF Load
    <3>2. \A x \in WriteRecords : ~Stale(x).current /\ Stale(x).made = x.made /\ Stale(x).rows = x.rows
      BY DEF Stale, WriteRecords
    <3> QED
      BY <1>a, <1>1, <3>1, <3>2 DEF OwnWrites, Shapes
  <2>2. CASE ~Resets(o)
    BY <1>a, <1>1, <2>2 DEF Load, OwnWrites, Resets, RowsOf
  <2> QED
    BY <2>1, <2>2
<1>8. OwnReads'
  <2> SUFFICES ASSUME NEW j \in Reads
      PROVE /\ read'[j].since <= sequence
            /\ read'[j].rows \subseteq RowsOf(read'[j].org)
            /\ read'[j].kind = "adoption" => read'[j].stage = "open" /\ read'[j].org = o
            /\ \A r \in Rows : /\ read'[j].snapshot[r] # 0 => r \in read'[j].rows
                               /\ read'[j].before[r] # 0 => r \in read'[j].rows
                               /\ read'[j].before[r] <= server[r]
    BY <1>1 DEF OwnReads, RowsOf
  <2>1. CASE read'[j] = NoRead
    BY <1>b, <1>e, <2>1
  <2>2. CASE read'[j] # NoRead
    <3>1. read[j].kind = "adoption" => o = org
      BY <1>a, <1>4, <2>2 DEF OwnReads, Resets
    <3> QED
      BY <1>a, <1>4, <2>2, <3>1 DEF OwnReads
  <2> QED
    BY <2>1, <2>2
<1>9. OwnChanges'
  <2>1. CASE Resets(o)
    BY <1>5, <2>1 DEF OwnChanges
  <2>2. CASE ~Resets(o)
    BY <1>1, <1>5, <2>2 DEF DInv, Own, OwnChanges, Kept, Makes, Resets
  <2> QED
    BY <2>1, <2>2
<1>10. OwnRowsOnly' /\ NeverBehind' /\ FloorsServed'
  BY <1>1, <1>b DEF OwnRowsOnly, NeverBehind, FloorsServed
<1>11. OneNavigation'
  BY <1>a, <1>1, <1>4, <1>e DEF OneNavigation
<1>12. SnapshotsStand'
  <2> SUFFICES ASSUME NEW j \in Reads, read'[j].answered, supersededBefore' <= read'[j].since,
                      prunedThrough' <= read'[j].since, NEW r \in read'[j].rows,
                      ~\E n \in 1 .. Len(changes') : changes'[n].sequence > read'[j].since /\ Makes(n, r)'
               PROVE  read'[j].snapshot[r] >= floor'[r]
    <3>1. \A j \in Reads : read'[j].since \in Nat
      BY <1>a, <1>4, <1>e, Recorded
    <3> QED
      BY <1>b, <3>1 DEF SnapshotsStand, Superseded, MakesAfter
  <2>1. /\ j # i /\ (Resets(o) => read[j].stage # "open") /\ read[j].answered
        /\ read'[j].since = read[j].since /\ read'[j].rows = read[j].rows
        /\ read'[j].snapshot = read[j].snapshot
    BY <1>4, <1>e
  <2>2. r \in Rows /\ read[j].since \in Nat /\ read[j].snapshot[r] \in Nat
    BY <1>a, <2>1, Recorded
  <2>3. CASE o # org
    BY <1>e, <2>1, <2>2, <2>3
  <2>4. CASE o = org /\ remounted
    <3>1. read[j].stage = "left"
      BY <1>a, <2>1, <2>4 DEF IdleUnasked, Resets, IInv, Shapes, ReadRecords
    <3>2. read[j].since = sequence
      BY <1>a, <2>4, <3>1 DEF OneNavigation
    <3>3. ~\E n \in 1 .. Len(changes) : MakesAfter(n, r, read[j].since)
      BY <1>a, <1>b, <3>2, HistoryFacts DEF History, MakesAfter
    <3> QED
      BY <1>b, <2>1, <2>4, <3>2, <3>3 DEF Superseded
  <2>5. CASE ~Resets(o)
    <3>1. Kept /\ o = org /\ prunedThrough' \in Nat
      BY <1>1, <1>5, <1>b, <2>5 DEF Resets, History
    <3>2. prunedThrough <= read[j].since /\ ~Superseded(j)
      BY <1>b, <2>1, <2>2, <2>5, <3>1 DEF Kept, Superseded
    <3>3. ~\E n \in 1 .. Len(changes) : MakesAfter(n, r, read[j].since)
      BY <1>a, <1>5, <2>1, <2>2, <3>1, KeptMakes
    <3> QED
      BY <1>b, <2>1, <2>2, <3>1, <3>2, <3>3
  <2> QED
    BY <2>3, <2>4, <2>5 DEF Resets
<1>13. AdoptionsStand'
  <2> SUFFICES ASSUME NEW a \in Reads, NEW j \in Reads, read'[a].kind = "adoption", read'[j].answered,
                      read'[j].since >= read'[a].since, NEW r \in read'[j].rows
               PROVE  read'[j].snapshot[r] >= read'[a].before[r]
    BY DEF AdoptionsStand
  <2> QED
    BY <1>4, <1>e DEF DInv, Stand, AdoptionsStand
<1>14. LastChangeStands'
  <2> SUFFICES ASSUME NEW n \in 1 .. Len(changes'), NEW r \in Rows, changes'[n].sequence > supersededBefore',
                      Makes(n, r)',
                      \A m \in 1 .. Len(changes') : Makes(m, r)' => changes'[m].sequence <= changes'[n].sequence
               PROVE  changes'[n].made[r] = floor'[r]
    BY DEF LastChangeStands, MakesAfter
  <2>1. ~Resets(o) /\ Kept
    BY <1>5
  <2>2. PICK k \in 1 .. Len(changes) :
           /\ changes[k] = changes'[n] /\ Makes(k, r)
           /\ \A m \in 1 .. Len(changes) : Makes(m, r) => changes[m].sequence <= changes[k].sequence
    BY <1>a, <1>5, <2>1, KeptMakes
  <2>3. MakesAfter(k, r, supersededBefore')
    BY <2>2 DEF MakesAfter
  <2> QED
    BY <2>1, <2>2, <2>3
<1> QED
  BY <1>5, <1>6, <1>7, <1>8, <1>9, <1>10, <1>11, <1>12, <1>13, <1>14 DEF DInv, Own, Stand

-----------------------------------------------------------------------------
(* What loads show, and the theorems. *)

\* What a usable snapshot makes of the rows, and where each row comes from.
LEMMA ReconciledStands ==
    ASSUME IInv, DInv, NEW i \in Reads, read[i].answered, read[i].org = org, ~TooOld(i)
    PROVE  /\ Reconciled(i) \in Contents
           /\ \A r \in Rows :
                /\ Reconciled(i)[r] # 0 => OrgOf[r] = org
                /\ floor[r] <= Reconciled(i)[r]
                /\ ~Superseded(i) /\ (\A n \in 1 .. Len(changes) : ~MakesAfter(n, r, read[i].since)) =>
                      Reconciled(i)[r] = IF r \in read[i].rows THEN read[i].snapshot[r] ELSE shown[r]
<1>a. /\ Shapes /\ History /\ Displayed /\ OwnReads /\ OwnChanges /\ OwnRowsOnly
      /\ NeverBehind /\ SnapshotsStand /\ LastChangeStands
  BY DEF IInv, DInv, Own, Stand
<1>b. /\ read[i].since \in Nat /\ read[i].rows \subseteq RowsOf(org) /\ read[i].snapshot \in Contents
      /\ shown \in Contents /\ prunedThrough \in Nat /\ supersededBefore \in Nat
      /\ \A r \in Rows : shown[r] \in Nat /\ floor[r] \in Nat /\ read[i].snapshot[r] \in Nat
      /\ \A r \in Rows : floor[r] <= shown[r]
  <2>1. shown \in Contents /\ supersededBefore \in Nat
    BY <1>a, Recorded DEF Displayed
  <2>2. read[i].snapshot \in Contents /\ read[i].rows \subseteq RowsOf(org)
    BY <1>a DEF Shapes, ReadRecords, OwnReads
  <2> QED
    BY <1>a, <2>1, <2>2, Recorded, HistoryFacts, ShownNat DEF NeverBehind
<1>1. CASE Superseded(i)
  BY <1>a, <1>b, <1>1 DEF Reconciled, OwnRowsOnly
<1>2. CASE ~Superseded(i)
  <2> DEFINE items == [r \in Rows |-> IF r \in read[i].rows THEN read[i].snapshot[r] ELSE shown[r]]
             out == Reapplied(items, read[i].since)
  <2>1. items \in Contents
    BY <1>b DEF Contents
  <2>2. Reconciled(i) = out
    BY <1>2 DEF Reconciled
  <2>3. \A r \in Rows : items[r] = IF r \in read[i].rows THEN read[i].snapshot[r] ELSE shown[r]
    OBVIOUS
  <2> HIDE DEF items
  <2>4. /\ out \in Contents
        /\ \A r \in Rows :
             \/ /\ out[r] = items[r]
                /\ \A n \in 1 .. Len(changes) : ~MakesAfter(n, r, read[i].since)
             \/ \E n \in 1 .. Len(changes) :
                  /\ MakesAfter(n, r, read[i].since)
                  /\ out[r] = changes[n].made[r]
                  /\ \A m \in 1 .. Len(changes) : Makes(m, r) => changes[m].sequence <= changes[n].sequence
    BY <1>a, <1>b, <2>1, ReappliedRow
  <2> HIDE DEF out
  <2>5. prunedThrough <= read[i].since /\ supersededBefore <= read[i].since
    BY <1>b, <1>2 DEF TooOld, Superseded
  <2>6. ASSUME NEW r \in Rows
        PROVE  /\ out[r] # 0 => OrgOf[r] = org
               /\ floor[r] <= out[r]
               /\ (\A n \in 1 .. Len(changes) : ~MakesAfter(n, r, read[i].since)) => out[r] = items[r]
    <3>1. ASSUME out[r] = items[r], \A n \in 1 .. Len(changes) : ~MakesAfter(n, r, read[i].since)
          PROVE  (out[r] # 0 => OrgOf[r] = org) /\ floor[r] <= out[r]
      <4>1. CASE r \in read[i].rows
        <5>1. floor[r] <= read[i].snapshot[r]
          BY <1>a, <1>b, <1>2, <2>5, <3>1, <4>1 DEF SnapshotsStand
        <5> QED
          BY <1>b, <2>3, <3>1, <4>1, <5>1 DEF RowsOf
      <4>2. CASE r \notin read[i].rows
        BY <1>a, <1>b, <2>3, <3>1, <4>2 DEF OwnRowsOnly
      <4> QED
        BY <4>1, <4>2
    <3>2. ASSUME NEW n \in 1 .. Len(changes), MakesAfter(n, r, read[i].since), out[r] = changes[n].made[r],
                 \A m \in 1 .. Len(changes) : Makes(m, r) => changes[m].sequence <= changes[n].sequence
          PROVE  (out[r] # 0 => OrgOf[r] = org) /\ floor[r] <= out[r]
      <4>1. MakesAfter(n, r, supersededBefore)
        BY <1>a, <1>b, <2>5, <3>2, HistoryFacts DEF MakesAfter
      <4>2. changes[n].made[r] = floor[r]
        BY <1>a, <3>2, <4>1 DEF LastChangeStands
      <4> QED
        BY <1>a, <1>b, <3>2, <4>2 DEF OwnChanges, MakesAfter
    <3> QED
      BY <2>4, <3>1, <3>2
  <2> QED
    BY <2>2, <2>3, <2>4, <2>6
<1> QED
  BY <1>1, <1>2

\* Deliveries and range reads.
LEMMA DeliveredStands ==
    ASSUME IInv, Shapes', DInv, IdleUnasked, NEW i \in Reads, ApplyDelivery(i) \/ ApplyRange(i)
    PROVE  DInv'
<1> DEFINE o == read[i].org
           items == Delivered(i)
<1>a. /\ Shapes /\ History /\ Displayed /\ OwnReads /\ FloorsServed /\ SnapshotsStand /\ LastChangeStands
  BY DEF IInv, DInv, Own, Stand
<1>1. /\ i \in Open /\ read[i].answered /\ (org = o => ~TooOld(i))
      /\ Load(i, items, o)
      /\ floor' = IF o = org THEN floor ELSE Nothing
      /\ (supersededBefore' = 0 /\ Resets(o)) \/ supersededBefore' = supersededBefore
      /\ pending' \in Reads \cup {None}
  BY <1>a DEF ApplyDelivery, ApplyRange, Ready, NewFloor, Displayed
<1>b. /\ supersededBefore \in Nat /\ supersededBefore <= sequence /\ sequence \in Nat
      /\ \A r \in Rows : server[r] \in Nat /\ Nothing[r] = 0 /\ floor[r] \in Nat /\ read[i].snapshot[r] \in Nat
      /\ read[i].snapshot \in Contents /\ \A j \in Reads : read[j].since \in Nat
  <2>1. read[i].snapshot \in Contents /\ supersededBefore \in 0 .. sequence
    BY <1>a DEF Shapes, ReadRecords, Displayed
  <2> QED
    BY <1>a, <2>1, Recorded, ShownNat DEF Nothing
<1>2. /\ items \in Contents
      /\ \A r \in Rows : items[r] # 0 => OrgOf[r] = o
      /\ \A r \in Rows : floor'[r] <= items[r] /\ floor'[r] <= server[r]
  <2>1. CASE org = o
    <3>1. items = Reconciled(i)
      BY <2>1 DEF Delivered
    <3> HIDE DEF items
    <3> QED
      BY <1>a, <1>1, <2>1, <3>1, ReconciledStands DEF FloorsServed
  <2>2. CASE org # o
    <3>1. items = read[i].snapshot
      BY <2>2 DEF Delivered
    <3>2. \A r \in Rows : read[i].snapshot[r] # 0 => OrgOf[r] = o
      BY <1>a DEF OwnReads, RowsOf
    <3> HIDE DEF items
    <3> QED
      BY <1>1, <1>b, <2>2, <3>1, <3>2
  <2> QED
    BY <2>1, <2>2
<1> HIDE DEF items
<1>3. floor' \in Contents /\ supersededBefore' \in 0 .. sequence
  BY <1>a, <1>1, <1>b, NothingIsContents DEF Displayed
<1>4. (o # org => floor' = Nothing) /\ (Resets(o) \/ supersededBefore <= supersededBefore')
  BY <1>1, <1>b
<1>5. o = org => \A j \in Reads \ {i} :
         read[j].answered /\ ~Superseded(j) /\ supersededBefore' <= read[j].since
             /\ prunedThrough <= read[j].since =>
                 \A r \in read[j].rows :
                     \/ \E n \in 1 .. Len(changes) : MakesAfter(n, r, read[j].since)
                     \/ floor'[r] <= read[j].snapshot[r]
  BY <1>a, <1>1 DEF SnapshotsStand
<1>6. ~Resets(o) => \A n \in 1 .. Len(changes), r \in Rows :
         /\ MakesAfter(n, r, supersededBefore')
         /\ \A m \in 1 .. Len(changes) : Makes(m, r) => changes[m].sequence <= changes[n].sequence
         => changes[n].made[r] = floor'[r]
  <2>1. ~Resets(o) => supersededBefore' = supersededBefore /\ floor' = floor
    BY <1>1 DEF Resets
  <2> QED
    BY <1>a, <2>1 DEF LastChangeStands
<1> QED
  BY <1>1, <1>2, <1>3, <1>4, <1>5, <1>6, LoadStands

\* A full reread, which every later load is at least as new as.
LEMMA AdoptedStands ==
    ASSUME IInv, Shapes', DInv, IdleUnasked, NEW i \in Reads, Adopt(i)
    PROVE  DInv'
<1> DEFINE items == Reconciled(i)
           since == read[i].since
           Later(r) == \E n \in 1 .. Len(changes) : MakesAfter(n, r, since)
<1>a. /\ Shapes /\ History /\ Displayed /\ OwnReads /\ FloorsServed
      /\ SnapshotsStand /\ AdoptionsStand /\ LastChangeStands
  BY DEF IInv, DInv, Own, Stand
<1>1. /\ i \in Open /\ read[i].answered /\ read[i].kind = "adoption" /\ read[i].org = org /\ ~TooOld(i)
      /\ Load(i, items, org)
      /\ supersededBefore' = IF since > supersededBefore THEN since ELSE supersededBefore
      /\ pending' \in Reads \cup {None}
  BY <1>a DEF Adopt, Ready, Displayed, OwnReads
<1>2. \A r \in Rows : floor'[r] = IF Superseded(i) \/ Later(r) THEN floor[r] ELSE read[i].before[r]
  BY DEF Adopt, MakesAfter, Makes
<1>b. /\ supersededBefore \in Nat /\ supersededBefore <= sequence /\ sequence \in Nat
      /\ since \in Nat /\ since <= sequence
      /\ \A r \in Rows : /\ server[r] \in Nat /\ floor[r] \in 0 .. MaxVersion /\ shown[r] \in Nat
                         /\ read[i].before[r] \in 0 .. MaxVersion /\ read[i].before[r] <= server[r]
                         /\ read[i].before[r] # 0 => r \in read[i].rows
      /\ \A j \in Reads : read[j].since \in Nat /\ \A r \in Rows : read[j].snapshot[r] \in Nat
      /\ MaxVersion \in Nat
  <2>1. read[i].before \in Contents /\ supersededBefore \in 0 .. sequence /\ floor \in Contents
    BY <1>a DEF Shapes, ReadRecords, Displayed
  <2>2. \A r \in Rows : read[i].before[r] \in 0 .. MaxVersion /\ floor[r] \in 0 .. MaxVersion
    BY <2>1 DEF Contents
  <2> QED
    BY <1>a, <2>1, <2>2, Recorded, ShownNat, StoreAssumption DEF OwnReads
<1>3. /\ items \in Contents
      /\ \A r \in Rows :
           /\ items[r] # 0 => OrgOf[r] = org
           /\ floor[r] <= items[r]
           /\ ~Superseded(i) /\ ~Later(r) =>
                 items[r] = IF r \in read[i].rows THEN read[i].snapshot[r] ELSE shown[r]
  BY <1>1, ReconciledStands
<1>4. \A r \in Rows : items[r] \in Nat
  BY <1>3, StoreAssumption DEF Contents
<1> HIDE DEF items, since, Later
<1>s. since = read[i].since
  BY DEF since
<1>5. \A r \in Rows : floor'[r] <= items[r] /\ floor'[r] <= server[r]
  <2> SUFFICES ASSUME NEW r \in Rows PROVE floor'[r] <= items[r] /\ floor'[r] <= server[r]
    OBVIOUS
  <2>1. CASE Superseded(i) \/ Later(r)
    BY <1>a, <1>2, <1>3, <2>1 DEF FloorsServed
  <2>2. CASE ~Superseded(i) /\ ~Later(r)
    <3>1. floor'[r] = read[i].before[r]
      BY <1>2, <2>2
    <3>2. CASE r \in read[i].rows
      <4>1. read[i].snapshot[r] >= read[i].before[r]
        BY <1>a, <1>1, <1>b, <3>2, <1>s DEF AdoptionsStand
      <4> QED
        BY <1>3, <1>b, <2>2, <3>1, <3>2, <4>1
    <3>3. CASE r \notin read[i].rows
      BY <1>4, <1>b, <3>1, <3>3
    <3> QED
      BY <3>2, <3>3
  <2> QED
    BY <2>1, <2>2
<1>6. floor' \in Contents /\ supersededBefore' \in 0 .. sequence
  <2>1. \A r \in Rows : floor'[r] \in 0 .. MaxVersion
    BY <1>2, <1>b
  <2>2. floor' = floor \/ floor' = [r \in Rows |-> floor'[r]]
    <3>1. CASE Superseded(i)
      BY <3>1 DEF Adopt
    <3>2. CASE ~Superseded(i)
      <4> DEFINE f(r) == IF \E n \in 1 .. Len(changes) :
                              changes[n].sequence > read[i].since /\ changes[n].made[r] # 0
                         THEN floor[r] ELSE read[i].before[r]
      <4>1. floor' = [r \in Rows |-> f(r)]
        BY <3>2 DEF Adopt
      <4> HIDE DEF f
      <4> QED
        BY <4>1
    <3> QED
      BY <3>1, <3>2
  <2>3. floor' \in Contents
    BY <1>a, <2>1, <2>2 DEF Contents, Displayed
  <2> QED
    BY <1>1, <1>b, <2>3
<1>7. supersededBefore <= supersededBefore' /\ since <= supersededBefore'
      /\ (Superseded(i) => supersededBefore' = supersededBefore)
  BY <1>1, <1>b, <1>s DEF Superseded
<1>8. ASSUME NEW j \in Reads \ {i}, read[j].answered, ~Superseded(j), supersededBefore' <= read[j].since,
             prunedThrough <= read[j].since, NEW r \in read[j].rows
      PROVE  \/ \E n \in 1 .. Len(changes) : MakesAfter(n, r, read[j].since)
             \/ floor'[r] <= read[j].snapshot[r]
  <2>1. r \in Rows
    BY <1>a, Recorded
  <2>2. CASE Superseded(i) \/ Later(r)
    BY <1>a, <1>2, <1>8, <2>1, <2>2 DEF SnapshotsStand
  <2>3. CASE ~Superseded(i) /\ ~Later(r)
    <3>1. read[j].since >= read[i].since
      BY <1>6, <1>7, <1>8, <1>b, <1>s
    <3>2. read[j].snapshot[r] >= read[i].before[r]
      BY <1>a, <1>1, <1>8, <3>1 DEF AdoptionsStand
    <3> QED
      BY <1>2, <1>b, <2>1, <2>3, <3>2
  <2> QED
    BY <2>2, <2>3
<1>9. ASSUME NEW n \in 1 .. Len(changes), NEW r \in Rows, MakesAfter(n, r, supersededBefore'),
             \A m \in 1 .. Len(changes) : Makes(m, r) => changes[m].sequence <= changes[n].sequence
      PROVE  changes[n].made[r] = floor'[r]
  <2>1. MakesAfter(n, r, supersededBefore) /\ MakesAfter(n, r, since)
    BY <1>a, <1>6, <1>7, <1>9, <1>b, HistoryFacts DEF MakesAfter
  <2>2. Later(r)
    BY <2>1 DEF Later
  <2> QED
    BY <1>a, <1>2, <1>9, <2>1, <2>2 DEF LastChangeStands
<1> QED
  BY <1>1, <1>3, <1>5, <1>6, <1>7, <1>8, <1>9, LoadStands

\* Every step keeps what is known of the rows.
LEMMA DataStep ==
    ASSUME IInv, Shapes', DInv, IdleUnasked, [Next]_vars
    PROVE  DInv'
BY QuietSteps, AdoptionBegins, AnswerStands, ReadCloses, ConfirmationStands, DeliveredStands, AdoptedStands
DEF Next, WriteStep, ReadStep

\* The rows' invariant holds in every reachable state of the store.
THEOREM DataInvariance == Spec => [](IInv /\ IdleUnasked /\ DInv)
<1>1. Init => IdleUnasked /\ DInv
  <2> SUFFICES ASSUME Init PROVE IdleUnasked /\ DInv
    OBVIOUS
  <2>0. /\ MaxVersion \in Nat \ {0} /\ \A r \in Rows : server[r] = 1 /\ Nothing[r] = 0
        /\ shown = Nothing /\ floor = Nothing /\ Nothing \in Contents
        /\ sequence = 0 /\ prunedThrough = 0 /\ supersededBefore = 0 /\ expired = 0 /\ pending = None
        /\ changes = <<>> /\ changes \in Seq(ChangeRecords) /\ Len(changes) = 0
    BY StoreAssumption, NothingIsContents DEF Init, Nothing
  <2>1. \A i \in Reads : /\ read[i].kind = "none" /\ read[i].stage = "idle" /\ ~read[i].answered
                         /\ read[i].since = 0 /\ read[i].rows = {}
                         /\ read[i].snapshot = Nothing /\ read[i].before = Nothing
    BY DEF Init, NoRead
  <2>2. \A w \in Writes : write[w].made = Nothing /\ ~write[w].current
    BY DEF Init, NoWrite
  <2>3. History /\ Displayed
    BY <2>0 DEF History, Displayed
  <2>4. OwnWrites /\ OwnReads
    BY <2>0, <2>1, <2>2 DEF OwnWrites, OwnReads
  <2>5. OwnChanges /\ OwnRowsOnly /\ FloorsServed /\ OneNavigation /\ NeverBehind /\ LastChangeStands
    BY <2>0, <2>1 DEF OwnChanges, OwnRowsOnly, FloorsServed, OneNavigation, NeverBehind, LastChangeStands
  <2>6. SnapshotsStand /\ AdoptionsStand /\ IdleUnasked
    BY <2>1 DEF SnapshotsStand, AdoptionsStand, IdleUnasked
  <2> QED
    BY <2>3, <2>4, <2>5, <2>6 DEF DInv, Own, Stand
<1>2. IInv /\ IdleUnasked /\ DInv /\ [Next]_vars => (IdleUnasked /\ DInv)'
  BY ShapesStep, IdleStep, DataStep DEF IInv
<1> QED
  BY <1>1, <1>2, Invariance, PTL DEF Spec

\* The variables of ConfirmedStore keep their types.
THEOREM TypeCorrect == Spec => []TypeOK
<1>1. IInv /\ DInv => TypeOK
  <2> SUFFICES ASSUME IInv, DInv PROVE TypeOK
    OBVIOUS
  <2>1. Shapes /\ History /\ Displayed
    BY DEF IInv, DInv, Own
  <2>2. sequence \in 0 .. MaxSequence /\ MaxSequence \in Nat
    BY <2>1, StoreAssumption DEF Shapes
  <2>3. prunedThrough \in 0 .. MaxSequence /\ supersededBefore \in 0 .. MaxSequence
    BY <2>1, <2>2 DEF History, Displayed
  <2>4. /\ write \in [Writes -> [stage : {"idle", "sent", "applied"}, rows : SUBSET Rows,
                                 made : Contents, current : BOOLEAN]]
    BY <2>1 DEF Shapes, WriteRecords
  <2>5. read \in [Reads -> [kind : {"none", "delivery", "range", "adoption"},
                            stage : {"idle", "left", "open"}, since : 0 .. MaxSequence,
                            org : Orgs \cup {None}, rows : SUBSET Rows, answered : BOOLEAN,
                            snapshot : Contents, before : Contents, current : BOOLEAN]]
    <3>1. \A x \in ReadRecords :
             x \in [kind : {"none", "delivery", "range", "adoption"},
                    stage : {"idle", "left", "open"}, since : 0 .. MaxSequence,
                    org : Orgs \cup {None}, rows : SUBSET Rows, answered : BOOLEAN,
                    snapshot : Contents, before : Contents, current : BOOLEAN]
      BY DEF ReadRecords
    <3>2. read \in [Reads -> ReadRecords]
      BY <2>1 DEF Shapes
    <3> QED
      BY <3>1, <3>2
  <2> QED
    BY <2>1, <2>2, <2>3, <2>4, <2>5 DEF TypeOK, Shapes, History, Displayed, ChangeRecords
<1> QED
  BY <1>1, DataInvariance, PTL

\* The store never holds a row of another Organization, for any number of
\* Organizations, writes and reads.
THEOREM OwnRows == Spec => []OwnRowsOnly
<1>1. DInv => OwnRowsOnly
  BY DEF DInv, Own
<1> QED
  BY <1>1, DataInvariance, PTL

\* No load takes a row back, in whatever order any number of requests leave,
\* are served and come back, and however many confirmed changes are forgotten.
THEOREM Behind == Spec => []NeverBehind
<1>1. DInv => NeverBehind
  BY DEF DInv, Stand
<1> QED
  BY <1>1, DataInvariance, PTL

==============================================================================
