--------------------------- MODULE MCAccountSetup ---------------------------
(* Instances of AccountSetup for TLC. *)
EXTENDS AccountSetup, TLC

CONSTANTS r1, r2, a1, a2, b1

\* Links a1 and a2 belong to one request and b1 to another.
MCRequestOf == [l \in Links |-> IF l = b1 THEN r2 ELSE r1]

EmailSymmetry == Permutations(Emails)
=============================================================================
