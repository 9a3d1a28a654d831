----------------------------- MODULE MCL1Commit -----------------------------
(* Properties of L1Commit for TLC.                                         *)
EXTENDS L1Commit, TLC

Symmetry == Permutations(Proc) \cup Permutations(Draft) \cup Permutations(Stamp)

=============================================================================
