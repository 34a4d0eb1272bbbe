--------------------------- MODULE ConfirmedStore ---------------------------
(***************************************************************************)
(* The browser store behind the calendar, dashboard and special-day pages  *)
(* (createStore).  Rows come from page deliveries, from range reads and    *)
(* from full rereads, each a snapshot the server took at some moment; the  *)
(* tab's own writes are confirmed by their responses.  Requests and        *)
(* responses of all of them overtake each other, so the store numbers the  *)
(* changes it confirmed and re-applies to each snapshot those that came    *)
(* after the snapshot's request left.                                      *)
(*                                                                         *)
(* A row's content is the number of writes the server has made to it; that *)
(* a write may delete the row makes no difference to the store, and 0 is a *)
(* row the store does not have.  organizationVersion, loadVersion and the  *)
(* lifetime only grow and are only compared with a remembered value; the   *)
(* model keeps the answer of that comparison as a flag of who remembers.   *)
(***************************************************************************)
EXTENDS Naturals, Sequences, FiniteSets

CONSTANTS
    Rows, Orgs,
    OrgOf,        \* the Organization of each row
    Writes,       \* concurrent writes of this tab
    Reads,        \* concurrent reads of this tab
    None,
    MaxVersion,   \* bound: writes to a row, the first included
    MaxSequence   \* bound: numbers the tab gives out

ASSUME StoreAssumption ==
    /\ OrgOf \in [Rows -> Orgs]
    /\ None \notin Orgs \cup Reads
    /\ MaxVersion \in Nat \ {0}
    /\ MaxSequence \in Nat

VARIABLES
    server,      \* the server's content of every row
    shown,       \* loadedState
    org,         \* orgId of the store
    page,        \* the Organization whose shell is mounted
    remounted,   \* loadedLifetime # organizationLifetime()
    sequence,    \* the tab's confirmed sequence, as in its cookie
    changes,     \* confirmedChanges
    expired,     \* how many of them passed the retention time
    prunedThrough,
    supersededBefore,
    log,         \* writes with an entry in the mutation log
    write,       \* each write
    read,        \* each read
    pending,     \* the delivery the hydrator waits for
    floor        \* history: what each row must not fall behind

historyVars == <<sequence, changes, expired, prunedThrough>>
shellVars == <<page, remounted>>
vars == <<server, shown, org, shellVars, historyVars, supersededBefore, log,
          write, read, pending, floor>>

Contents == [Rows -> 0..MaxVersion]
Nothing == [r \in Rows |-> 0]
RowsOf(o) == {r \in Rows : OrgOf[r] = o}

NoWrite == [stage |-> "idle", rows |-> {}, made |-> Nothing, current |-> FALSE]
NoRead == [kind |-> "none", stage |-> "idle", since |-> 0, org |-> None,
           rows |-> {}, answered |-> FALSE, snapshot |-> Nothing,
           before |-> Nothing, current |-> FALSE]

TypeOK ==
    /\ server \in Contents /\ shown \in Contents /\ floor \in Contents
    /\ org \in Orgs \cup {None} /\ page \in Orgs /\ remounted \in BOOLEAN
    /\ sequence \in 0..MaxSequence
    /\ changes \in Seq([sequence : 1..MaxSequence, made : Contents])
    /\ expired \in 0..Len(changes)
    /\ prunedThrough \in 0..MaxSequence
    /\ supersededBefore \in 0..MaxSequence
    /\ log \subseteq Writes
    /\ write \in [Writes -> [stage : {"idle", "sent", "applied"},
                             rows : SUBSET Rows, made : Contents,
                             current : BOOLEAN]]
    /\ read \in [Reads ->
            [kind : {"none", "delivery", "range", "adoption"},
             stage : {"idle", "left", "open"},
             since : 0..MaxSequence, org : Orgs \cup {None},
             rows : SUBSET Rows, answered : BOOLEAN, snapshot : Contents,
             before : Contents, current : BOOLEAN]]
    /\ pending \in Reads \cup {None}

----------------------------------------------------------------------------
(* The history of confirmed changes. *)

\* applyConfirmedChange
Applied(items, made) == [r \in Rows |-> IF made[r] # 0 THEN made[r] ELSE items[r]]

\* Every retained change numbered after `since`, re-applied in order.
Reapplied(items, since) ==
    LET upTo[n \in 0..Len(changes)] ==
            IF n = 0 THEN items
            ELSE IF changes[n].sequence > since
                 THEN Applied(upTo[n - 1], changes[n].made)
                 ELSE upTo[n - 1]
    IN  upTo[Len(changes)]

Open == {i \in Reads : read[i].stage = "open"}

\* Faulty variant: a read that is still open does not keep its changes.
PrunableFaulty(chs, readers, n) == n <= expired

\* The change at n may go: its time passed and every open read is past it.
Prunable(chs, readers, n) ==
    n <= expired /\ \A i \in readers : chs[n].sequence <= read[i].since

\* How many changes remain past their time once the first k are dropped.
StillExpired(k) == expired - k

\* pruneConfirmedChanges, for the changes chs while `readers` are open.
Prune(chs, readers) ==
    \E k \in 0..Len(chs) :
        /\ \A n \in 1..k : Prunable(chs, readers, n)
        /\ k < Len(chs) => ~Prunable(chs, readers, k + 1)
        /\ changes' = SubSeq(chs, k + 1, Len(chs))
        /\ expired' = StillExpired(k)
        /\ prunedThrough' = IF k > 0 THEN chs[k].sequence ELSE prunedThrough

\* commit
Commit(made) ==
    /\ sequence < MaxSequence
    /\ sequence' = sequence + 1
    /\ Prune(Append(changes, [sequence |-> sequence + 1, made |-> made]), Open)
    /\ shown' = Applied(shown, made)
    /\ floor' = Applied(floor, made)

TimePasses ==
    /\ expired < Len(changes)
    /\ expired' = expired + 1
    /\ UNCHANGED <<server, shown, org, shellVars, sequence, changes,
                   prunedThrough, supersededBefore, log, write, read, pending,
                   floor>>

----------------------------------------------------------------------------
(* Loading and leaving. *)

\* Faulty variant: only another Organization counts.
ResetsFaulty(o) == o # org

\* The loads that forget the history and every mutation of the last visit.
Resets(o) == o # org \/ remounted

Stale(x) == [x EXCEPT !.current = FALSE]

\* load, by the read i that is then closed.  Any load makes a waiting
\* delivery stale (its storeLoadVersion differs); a reset forgets the open
\* reads, whose callers belong to the shell that was left.
Load(i, items, o) ==
    /\ shown' = items
    /\ org' = o
    /\ remounted' = FALSE
    /\ IF Resets(o)
       THEN /\ changes' = <<>> /\ expired' = 0 /\ prunedThrough' = 0
            /\ log' = {}
            /\ write' = [w \in Writes |-> Stale(write[w])]
            /\ read' = [j \in Reads |->
                           IF j = i \/ j \in Open THEN NoRead ELSE read[j]]
       ELSE /\ Prune(changes, Open \ {i})
            /\ UNCHANGED <<log, write>>
            /\ read' = [j \in Reads |->
                           IF j = i THEN NoRead
                           ELSE IF read[j].kind = "delivery" /\ j \in Open
                                THEN Stale(read[j]) ELSE read[j]]
    /\ UNCHANGED <<server, page, sequence>>

\* The shell of the visit ends: what it started never settles.
EndLifetime ==
    /\ remounted' = TRUE
    /\ write' = [w \in Writes |-> Stale(write[w])]

\* Navigating away from the pages of this store, perhaps to another
\* Organization; requests of the navigation before it are abandoned.
LeavePage(o) ==
    /\ page' = o
    /\ pending' = None
    /\ IF o # page THEN EndLifetime ELSE UNCHANGED <<remounted, write>>
    /\ read' = [i \in Reads |->
                   CASE read[i].stage = "left" -> NoRead
                     [] read[i].stage = "open" -> Stale(read[i])
                     [] OTHER -> read[i]]
    /\ read' # read \/ o # page
    /\ UNCHANGED <<server, shown, org, historyVars, supersededBefore, log, floor>>

----------------------------------------------------------------------------
(* Writes. *)

\* The pages offer a write once the rows of this visit are loaded.
StartWrite(w, R) ==
    /\ write[w].stage = "idle" /\ w \notin log
    /\ org = page /\ ~remounted
    /\ R # {} /\ R \subseteq RowsOf(org)
    /\ write' = [write EXCEPT ![w] = [stage |-> "sent", rows |-> R,
                                      made |-> Nothing, current |-> TRUE]]
    /\ log' = log \cup {w}
    /\ UNCHANGED <<server, shown, org, shellVars, historyVars,
                   supersededBefore, read, pending, floor>>

\* A batch may be applied in part.
ServerWrites(w) ==
    /\ write[w].stage = "sent"
    /\ \E S \in SUBSET write[w].rows \ {{}} :
        /\ \A r \in S : server[r] < MaxVersion
        /\ server' = [r \in Rows |-> IF r \in S THEN server[r] + 1 ELSE server[r]]
        /\ write' = [write EXCEPT
               ![w].stage = "applied",
               ![w].made = [r \in Rows |-> IF r \in S THEN server[r] + 1 ELSE 0]]
    /\ UNCHANGED <<shown, org, shellVars, historyVars, supersededBefore, log,
                   read, pending, floor>>

OthersWrite(r) ==
    /\ server[r] < MaxVersion
    /\ server' = [server EXCEPT ![r] = @ + 1]
    /\ UNCHANGED <<shown, org, shellVars, historyVars, supersededBefore, log,
                   write, read, pending, floor>>

\* Faulty variant: the response of a visit the user left still counts.
SettlesFaulty(w) == TRUE

\* withinOrganization
Settles(w) == write[w].current

\* The response confirms what the server did.
WriteConfirmed(w) ==
    /\ write[w].stage = "applied"
    /\ Settles(w)
    /\ Commit(write[w].made)
    /\ write' = [write EXCEPT ![w] = NoWrite]
    /\ log' = log \ {w}
    /\ UNCHANGED <<server, org, shellVars, supersededBefore, read, pending>>

\* A refusal, or a lost response of a write the server may have made.
WriteFails(w) ==
    /\ write[w].stage # "idle"
    /\ Settles(w)
    /\ write' = [write EXCEPT ![w] = NoWrite]
    /\ log' = log \ {w}
    /\ UNCHANGED <<server, shown, org, shellVars, historyVars,
                   supersededBefore, read, pending, floor>>

\* The response of a visit the user left reaches nobody.
WriteForgotten(w) ==
    /\ write[w].stage # "idle"
    /\ ~Settles(w)
    /\ write' = [write EXCEPT ![w] = NoWrite]
    /\ UNCHANGED <<server, shown, org, shellVars, historyVars,
                   supersededBefore, log, read, pending, floor>>

----------------------------------------------------------------------------
(* Reads. *)

\* A navigation or invalidation requests the page's rows; the request
\* carries the tab's cookie.  It abandons the one before it.
RequestDelivery(i, o, R) ==
    /\ read[i].stage = "idle"
    /\ R # {} /\ R \subseteq RowsOf(o)
    /\ read' = [j \in Reads |->
           IF j = i
           THEN [NoRead EXCEPT !.kind = "delivery", !.stage = "left", !.org = o,
                               !.rows = R, !.since = sequence]
           ELSE IF read[j].stage = "left" THEN NoRead ELSE read[j]]
    /\ UNCHANGED <<server, shown, org, shellVars, historyVars,
                   supersededBefore, log, write, pending, floor>>

\* The page arrives, with its rows still streaming.  Another Organization,
\* user or session mounts a new shell.
Arrive(i, renewed) ==
    /\ read[i].stage = "left"
    /\ page' = read[i].org
    /\ read' = [j \in Reads |->
           IF j = i THEN [read[i] EXCEPT !.stage = "open", !.current = TRUE]
           ELSE IF renewed \/ read[i].org # page \/ read[j].kind = "delivery"
                THEN Stale(read[j]) ELSE read[j]]
    /\ pending' = i
    /\ IF renewed \/ read[i].org # page
       THEN EndLifetime ELSE UNCHANGED <<remounted, write>>
    /\ UNCHANGED <<server, shown, org, historyVars, supersededBefore, log, floor>>

BeginRead(i, R) ==
    /\ read[i].stage = "idle"
    /\ org = page /\ ~remounted
    /\ R # {} /\ R \subseteq RowsOf(org)
    /\ read' = [read EXCEPT ![i] =
           [NoRead EXCEPT !.kind = "range", !.stage = "open", !.org = org,
                          !.rows = R, !.since = sequence, !.current = TRUE]]
    /\ UNCHANGED <<server, shown, org, shellVars, historyVars,
                   supersededBefore, log, write, pending, floor>>

\* beginAdoption takes a number of its own.
BeginAdoption(i) ==
    /\ read[i].stage = "idle"
    /\ org = page /\ ~remounted
    /\ sequence < MaxSequence
    /\ sequence' = sequence + 1
    /\ read' = [read EXCEPT ![i] =
           [NoRead EXCEPT !.kind = "adoption", !.stage = "open", !.org = org,
                          !.rows = RowsOf(org), !.since = sequence + 1,
                          !.current = TRUE,
                          !.before = [r \in Rows |-> IF OrgOf[r] = org THEN server[r] ELSE 0]]]
    /\ UNCHANGED <<server, shown, org, shellVars, changes, expired,
                   prunedThrough, supersededBefore, log, write, pending, floor>>

ServerAnswers(i) ==
    /\ read[i].stage # "idle" /\ ~read[i].answered
    /\ read' = [read EXCEPT
           ![i].answered = TRUE,
           ![i].snapshot = [r \in Rows |-> IF r \in read[i].rows
                                           THEN server[r] ELSE 0]]
    /\ UNCHANGED <<server, shown, org, shellVars, historyVars,
                   supersededBefore, log, write, pending, floor>>

\* Faulty variant: an adopted read supersedes nothing.
SupersededFaulty(i) == FALSE

Superseded(i) == read[i].since < supersededBefore

TooOld(i) == ~Superseded(i) /\ read[i].since < prunedThrough

\* reconcile
Reconciled(i) ==
    IF Superseded(i) THEN shown
    ELSE Reapplied([r \in Rows |-> IF r \in read[i].rows
                                   THEN read[i].snapshot[r] ELSE shown[r]],
                   read[i].since)

\* What the callers load: a store of another Organization has nothing to keep.
Delivered(i) == IF org = read[i].org THEN Reconciled(i) ELSE read[i].snapshot

Ready(i) ==
    /\ i \in Open /\ read[i].answered /\ read[i].current
    /\ org = read[i].org => ~TooOld(i)

NewFloor(o) == IF o = org THEN floor ELSE Nothing

ApplyDelivery(i) ==
    /\ read[i].kind = "delivery" /\ pending = i /\ Ready(i)
    /\ Load(i, Delivered(i), read[i].org)
    /\ supersededBefore' = IF Resets(read[i].org) THEN 0 ELSE supersededBefore
    /\ floor' = NewFloor(read[i].org)
    /\ pending' = None

ApplyRange(i) ==
    /\ read[i].kind = "range" /\ Ready(i)
    /\ Load(i, Delivered(i), read[i].org)
    /\ floor' = NewFloor(read[i].org)
    /\ UNCHANGED <<supersededBefore, pending>>

\* From here on no row falls behind what the server had when the adopted
\* read was requested, the tab's own later confirmations aside.
Adopt(i) ==
    /\ read[i].kind = "adoption" /\ Ready(i)
    /\ Load(i, Reconciled(i), org)
    /\ supersededBefore' = IF read[i].since > supersededBefore
                           THEN read[i].since ELSE supersededBefore
    /\ floor' = IF Superseded(i) THEN floor
                ELSE [r \in Rows |->
                   IF \E n \in 1..Len(changes) :
                         /\ changes[n].sequence > read[i].since
                         /\ changes[n].made[r] # 0
                   THEN floor[r] ELSE read[i].before[r]]
    /\ UNCHANGED pending

\* The hydrator drops the delivery, the request fails, or the snapshot is
\* too old.  A reread whose shell was left never gets to its close().
CloseRead(i) ==
    /\ i \in Open
    /\ read[i].kind = "adoption" => read[i].current
    /\ read' = [read EXCEPT ![i] = NoRead]
    /\ pending' = IF pending = i THEN None ELSE pending
    /\ Prune(changes, Open \ {i})
    /\ UNCHANGED <<server, shown, org, shellVars, sequence, supersededBefore,
                   log, write, floor>>

----------------------------------------------------------------------------

Init ==
    /\ server = [r \in Rows |-> 1]
    /\ shown = Nothing /\ org = None
    /\ page \in Orgs /\ remounted = FALSE
    /\ sequence = 0 /\ changes = <<>> /\ expired = 0
    /\ prunedThrough = 0 /\ supersededBefore = 0
    /\ log = {}
    /\ write = [w \in Writes |-> NoWrite]
    /\ read = [i \in Reads |-> NoRead]
    /\ pending = None
    /\ floor = Nothing

WriteStep(w) ==
    \/ \E R \in SUBSET Rows : StartWrite(w, R)
    \/ ServerWrites(w) \/ WriteConfirmed(w) \/ WriteFails(w) \/ WriteForgotten(w)

ReadStep(i) ==
    \/ \E R \in SUBSET Rows : BeginRead(i, R)
    \/ \E o \in Orgs, R \in SUBSET Rows : RequestDelivery(i, o, R)
    \/ \E renewed \in BOOLEAN : Arrive(i, renewed)
    \/ BeginAdoption(i) \/ ServerAnswers(i)
    \/ ApplyDelivery(i) \/ ApplyRange(i) \/ Adopt(i) \/ CloseRead(i)

Next ==
    \/ TimePasses
    \/ \E o \in Orgs : LeavePage(o)
    \/ \E r \in Rows : OthersWrite(r)
    \/ \E w \in Writes : WriteStep(w)
    \/ \E i \in Reads : ReadStep(i)

Spec == Init /\ [][Next]_vars

----------------------------------------------------------------------------
(* Properties. *)

\* No snapshot takes a row back behind the change of it that the tab
\* confirmed last, nor behind what the server had when an adopted reread was
\* requested, in whatever order requests left, were served and came back.
NeverBehind == \A r \in Rows : shown[r] >= floor[r]

\* The store of one Organization never holds a row of another, though writes
\* and reads of the one before are still under way.
OwnRowsOnly == \A r \in Rows : shown[r] # 0 => OrgOf[r] = org

\* The displayed optimistic entries are the writes under way: once a visit
\* has loaded its rows, nothing of an earlier visit is displayed for ever.
LogIsLive ==
    ~remounted => log = {w \in Writes : write[w].stage # "idle" /\ write[w].current}

\* Forgetting old changes never makes an open read too old: only reads that
\* were too old when they opened are refused.
OpenReadsStayUsable ==
    [][\A i \in Open : i \in Open' /\ read[i].since >= prunedThrough =>
           read'[i].since >= prunedThrough']_vars

=============================================================================
