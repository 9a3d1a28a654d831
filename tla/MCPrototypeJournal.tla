------------------------- MODULE MCPrototypeJournal -------------------------
(* PrototypeJournal for TLC.                                               *)
EXTENDS PrototypeJournal

=============================================================================
