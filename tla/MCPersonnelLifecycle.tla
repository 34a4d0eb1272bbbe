------------------------ MODULE MCPersonnelLifecycle ------------------------
(* One Person with a file and a follow-up. *)
EXTENDS PersonnelLifecycle, TLC

CONSTANTS p1, d1, f1

MCPersonOf == [r \in Records |-> p1]
MCSymmetry == Permutations(Requests)
=============================================================================
