---------------------------- MODULE MCHrNotify ----------------------------
(* Instances of HrNotify for TLC.  Slot 2 has its port on chip 0, slot 1 on *)
(* chip 1, slot 6 has none.                                                 *)
EXTENDS HrNotify

MCBoards == {1, 2, 6}
=============================================================================
