---------------------- MODULE MCStructuredPublication ----------------------
(* Three runs, two of which publish the same source, to a target that exists *)
(* and one that does not.                                                  *)
EXTENDS StructuredPublication, TLC

CONSTANTS r1, r2, r3, s1, s2

\* The two runs of one source may be exchanged.
SameSource == Permutations({r1, r2})

MCSourceOf == [p \in {r1, r2, r3} |-> IF p = r3 THEN s2 ELSE s1]

MCFound == {<<Old, Absent>>}
=============================================================================
