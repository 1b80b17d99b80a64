---------------------------- MODULE MCPortControl --------------------------
(* Instances of PortControl for TLC: the boot alone, and any two flows.     *)
EXTENDS PortControl

MCFlowSets == {{"menu"}, {"thread", "child"}, {"thread", "menu"}, {"child", "menu"}}
=============================================================================
