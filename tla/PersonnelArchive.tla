-------------------------- MODULE PersonnelArchive --------------------------
(***************************************************************************)
(* What the archive promises of a Person and the records about them, with  *)
(* no times, locks or requests under way.  Archiving a Person takes its    *)
(* active records along, restoring the Person brings back those and no     *)
(* others, and only an archived Person is removed, with every record.  A   *)
(* deletion request is decided once, and an approval and what it asks for  *)
(* are one step.                                                           *)
(***************************************************************************)
CONSTANTS
    People, Files, FollowUps, Notes,
    PersonOf,  \* the Person each record is about
    Asks,      \* deletion requests
    TargetOf   \* the Person or the file each is about

VARIABLES
    standing,  \* whether each Person is active, archived or gone
    kept,      \* the same of each record, archived with its Person or alone
    finished,  \* follow-ups that are completed
    asked      \* what became of each deletion request

rows == <<standing, kept, finished>>

Records == Files \cup FollowUps \cup Notes
Kept(r) == kept[r] \in {"active", "with", "alone"}

Init ==
    /\ standing = [p \in People |-> "active"]
    /\ kept = [r \in Records |-> "unborn"]
    /\ finished = {}
    /\ asked = [a \in Asks |-> "new"]

Create(r) ==
    /\ kept[r] = "unborn" /\ standing[PersonOf[r]] # "gone"
    /\ kept' = [kept EXCEPT ![r] = "active"]
    /\ UNCHANGED <<standing, finished>>

\* Completed follow-ups stay.
Archive(p) ==
    /\ standing[p] # "gone"
    /\ standing' = [standing EXCEPT ![p] = "archived"]
    /\ kept' = [r \in Records |->
                  IF PersonOf[r] = p /\ kept[r] = "active" /\ r \notin finished
                  THEN "with" ELSE kept[r]]
    /\ UNCHANGED finished

Restore(p) ==
    /\ standing[p] = "archived"
    /\ standing' = [standing EXCEPT ![p] = "active"]
    /\ kept' = [r \in Records |->
                  IF PersonOf[r] = p /\ kept[r] = "with" THEN "active" ELSE kept[r]]
    /\ UNCHANGED finished

Remove(p) ==
    /\ standing[p] = "archived"
    /\ standing' = [standing EXCEPT ![p] = "gone"]
    /\ kept' = [r \in Records |-> IF PersonOf[r] = p /\ Kept(r) THEN "gone" ELSE kept[r]]
    /\ finished' = {r \in finished : PersonOf[r] # p}

\* A record is archived, restored or completed by itself.
Alter(r) ==
    /\ Kept(r)
    /\ \/ kept' = [kept EXCEPT ![r] = "alone"] /\ UNCHANGED finished
       \/ /\ kept' = [kept EXCEPT ![r] = "active"]
          /\ \/ UNCHANGED finished
             \/ r \in FollowUps /\ finished' \in {finished \cup {r}, finished \ {r}}
    /\ UNCHANGED standing

Drop(r) ==
    /\ Kept(r)
    /\ kept' = [kept EXCEPT ![r] = "gone"]
    /\ finished' = finished \ {r}
    /\ UNCHANGED standing

\* Nobody deletes an active file by themselves.
Discard(r) == (r \in Files => kept[r] # "active") /\ Drop(r)

Ask(a) ==
    /\ asked[a] = "new"
    /\ \A b \in Asks : TargetOf[b] = TargetOf[a] => asked[b] # "pending"
    /\ asked' = [asked EXCEPT ![a] = "pending"]
    /\ UNCHANGED rows

TurnDown(a) ==
    /\ asked[a] = "pending"
    /\ asked' \in {[asked EXCEPT ![a] = x] : x \in {"denied", "cancelled"}}
    /\ UNCHANGED rows

Approve(a) ==
    /\ asked[a] = "pending"
    /\ asked' = [asked EXCEPT ![a] = "approved"]
    /\ IF TargetOf[a] \in People THEN Archive(TargetOf[a]) ELSE Drop(TargetOf[a])

Next ==
    \/ /\ \/ \E p \in People : Archive(p) \/ Restore(p) \/ Remove(p)
          \/ \E r \in Records : Create(r) \/ Alter(r) \/ Discard(r)
       /\ UNCHANGED asked
    \/ \E a \in Asks : Ask(a) \/ TurnDown(a) \/ Approve(a)

Spec == Init /\ [][Next]_<<rows, asked>>
=============================================================================
