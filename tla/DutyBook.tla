------------------------------ MODULE DutyBook ------------------------------
(***************************************************************************)
(* The roster of one duty as its planners may think of it: one book, in    *)
(* which every change is made at once and to what the book says then.      *)
(* Days are assigned by hand or by the roster's count; two days are        *)
(* exchanged; and an exchange can be taken back, which gives both days     *)
(* exactly what they had, for as long as the book still says what the      *)
(* exchange wrote.                                                         *)
(***************************************************************************)
CONSTANTS Days, People, NoOne

VARIABLES
    book,      \* who has each day and whether the roster picked that Person
    exchanges  \* what both days had before each exchange that can be undone

Entry == [by : People \cup {NoOne}, src : {"manual", "roster"}]

Manual(k) == [by |-> k, src |-> "manual"]

Init ==
    /\ book \in [Days -> {Manual(k) : k \in People \cup {NoOne}}]
    /\ exchanges = {}

Changed == {d \in Days : book'[d].by # book[d].by}

\* The days that get somebody else lose their exchanges, the others stay.
Rewrite ==
    /\ book' \in [Days -> Entry]
    /\ \A d \in Days \ Changed : book'[d] = book[d]
    /\ exchanges' = {x \in exchanges : DOMAIN x \cap Changed = {}}

ByHand == Rewrite /\ \A d \in Changed : book'[d].src = "manual"

ByRoster == Rewrite /\ \A d \in Changed : book'[d].by # NoOne

Exchange(d, e) ==
    /\ d # e /\ NoOne \notin {book[d].by, book[e].by}
    /\ book[d].by # book[e].by
    /\ \A x \in exchanges : DOMAIN x \cap {d, e} = {}
    /\ book' = [book EXCEPT ![d] = Manual(book[e].by), ![e] = Manual(book[d].by)]
    /\ exchanges' = exchanges \cup {[a \in {d, e} |-> book[a]]}

Undo(x) ==
    /\ \A d, e \in DOMAIN x : d # e => book[d] = Manual(x[e].by)
    /\ book' = [d \in Days |-> IF d \in DOMAIN x THEN x[d] ELSE book[d]]
    /\ exchanges' = exchanges \ {x}

Next ==
    \/ ByHand \/ ByRoster
    \/ \E d, e \in Days : Exchange(d, e)
    \/ \E x \in exchanges : Undo(x)

Spec == Init /\ [][Next]_<<book, exchanges>>
=============================================================================
