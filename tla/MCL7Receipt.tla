---------------------------- MODULE MCL7Receipt ----------------------------
(* L7Receipt for TLC: interchangeable attempts. *)
EXTENDS L7Receipt, TLC

Attempts == Permutations(Attempt)
=============================================================================
