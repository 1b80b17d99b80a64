---------------------------- MODULE MCSharedRegs ---------------------------
(* Instances of SharedRegs for TLC: two neighbouring registers.             *)
EXTENDS SharedRegs

MCFlows    == {"parent", "child"}
MCAddrs    == {0, 4}
MCValues   == {0, 1}
MCUse      == [parent |-> {0, 1}, child |-> {1}]
=============================================================================
