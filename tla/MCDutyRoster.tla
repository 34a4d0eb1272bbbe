---------------------------- MODULE MCDutyRoster ----------------------------
(* Instances of DutyRoster for TLC. *)
EXTENDS DutyRoster, TLC

MCSymmetry == Permutations(Planners) \cup Permutations(People)
=============================================================================
