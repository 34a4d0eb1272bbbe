--------------------------- MODULE MCConfirmedStore -------------------------
(* Instances of ConfirmedStore for TLC. *)
EXTENDS ConfirmedStore, TLC

CONSTANTS A, B, a1, a2, b1, i1, i2

\* Rows a1 and a2 belong to Organization A and b1 to B.
MCOrgOf == [r \in Rows |-> IF r = b1 THEN B ELSE A]

\* Reads are interchangeable.
ReadSymmetry == Permutations(Reads)
\* Rows of one Organization are interchangeable too.
RowSymmetry == Permutations({a1, a2}) \cup Permutations(Reads)
=============================================================================
