-------------------------- MODULE MCFileRetirement --------------------------
(* Instances of FileRetirement for TLC. *)
EXTENDS FileRetirement

CONSTANTS p, q, r1, r2, r3

\* Row r2 is of another Person than the others.
MCPersonOf == [r \in Rows |-> IF r = r2 THEN q ELSE p]
MCKeyPerson == [k \in Keys |-> p]

\* Row r1 names key 1, and so does r2, a legacy row of another Person.
SharedPath == [r \in Rows |-> IF r = r3 THEN NoKey ELSE 1]
=============================================================================
