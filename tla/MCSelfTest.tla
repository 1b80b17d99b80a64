---------------------------- MODULE MCSelfTest -----------------------------
(* Instances of SelfTest for TLC: no link up, all of them, or one.          *)
EXTENDS SelfTest

MCUpSets == {{}, Links} \cup {{l} : l \in Links}
=============================================================================
