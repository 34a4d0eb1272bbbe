---------------------------- MODULE MCMembership ----------------------------
(* Two founding members and two invitations of a third user. *)
EXTENDS Membership, TLC

CONSTANTS u1, u2, u3, f1, f2, i1, i2

MCUserOf == f1 :> u1 @@ f2 :> u2 @@ i1 :> u3 @@ i2 :> u3
MCFirstRole == f1 :> "owner" @@ f2 :> "member"
MCOffer == i1 :> "admin" @@ i2 :> "member"
\* the second invitation follows the first, and only the first can lapse
MCInOrder == (state[i1] = "new" => state[i2] = "new") /\ i2 \notin overdue
MCSymmetry == Permutations(Requests)
=============================================================================
