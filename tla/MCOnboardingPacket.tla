-------------------------- MODULE MCOnboardingPacket -------------------------
(* An instance of OnboardingPacket for TLC. *)
EXTENDS OnboardingPacket, TLC

CONSTANTS A, B, d1, d2

\* d1 belongs to template A, every other definition to B.
MCHome == [d \in Definitions |-> IF d = d1 THEN A ELSE B]

Training == [label |-> "step", type |-> "training", stages |-> <<>>]
Paperwork == [label |-> "step", type |-> "paperwork", stages |-> <<"s1", "s2">>]
Shorter == [label |-> "step", type |-> "paperwork", stages |-> <<"s2">>]

Checkbox == [label |-> "step", type |-> "checkbox", stages |-> <<>>]

StepForms == {Training, Checkbox, Paperwork, Shorter}

\* Template B is still empty.
MCFirstForm == [d \in Definitions |-> IF d = d1 THEN Paperwork ELSE None]

\* Requests and rows are interchangeable.
PacketSymmetry == Permutations(Requests) \cup Permutations(Rows)
=============================================================================
