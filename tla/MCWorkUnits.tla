---------------------------- MODULE MCWorkUnits ----------------------------
(* WorkUnits with one root that splits into two leaves and, where Root has *)
(* two members, an indivisible one.                                        *)
EXTENDS WorkUnits

CONSTANTS u1, u2, u3, u4

MCChildren == [u \in Unit |-> IF u = u1 THEN <<u3, u4>> ELSE <<>>]

MCRootOf == [u \in Unit |-> IF u = u2 THEN u2 ELSE u1]

=============================================================================
