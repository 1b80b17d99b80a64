--------------------------- MODULE MCLinkRepair ---------------------------
(* LinkRepair for TLC: a board on chip 0, and one with two nodes on chip 1, *)
(* which is reached over chip 0.                                            *)
EXTENDS LinkRepair

MCWatched      == << <<0, 2>>, <<1, 1>> >>
MCWatchedOne   == << <<1, 1>> >>
MCLocalIDs     ==
  [p \in Ports |-> IF p[1] = 0 THEN <<32>> ELSE <<16, 17>>]
=============================================================================
