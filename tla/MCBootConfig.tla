---------------------------- MODULE MCBootConfig ---------------------------
(* Instances of BootConfig for TLC: key '4' switches the enumeration off.   *)
EXTENDS BootConfig

MCDelaySettings == {<<0, 10>>}
=============================================================================
