------------------------- MODULE MCDeletionRequests -------------------------
(* One Person with a file and a follow-up, and an actor with every right while
   admitted.  A behaviour makes two requests for the Person or one for the file. *)
EXTENDS DeletionRequests, TLC

CONSTANTS p1, d1, f1, u1, a1, a2, a3

MCPersonOf == [r \in Records |-> p1]
MCAskedBy == [a \in Asks |-> u1]
MCTargetOf == a1 :> p1 @@ a2 :> p1 @@ a3 :> d1
MCSymmetry == Permutations(Requests) \cup Permutations({a1, a2})
MCUsed(a) ==
    ask[a] # "new" \/ \E q \in Requests : job[q].op = "submit" /\ job[q].ask = a
MCKindsApart == MCUsed(a3) => ~MCUsed(a1) /\ ~MCUsed(a2)
=============================================================================
