-------------------------- MODULE MCPasswordChange --------------------------
(* Three sessions, two requests under way at a time and two attempts. *)
EXTENDS PasswordChange, TLC

MCSymmetry == Permutations(Sessions) \cup Permutations(Requests)
=============================================================================
