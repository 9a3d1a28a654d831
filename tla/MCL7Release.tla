---------------------------- MODULE MCL7Release ----------------------------
(* L7Release with one action of every kind. *)
EXTENDS L7Release

MCKind == <<"named", "update", "item">>
=============================================================================
