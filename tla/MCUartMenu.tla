----------------------------- MODULE MCUartMenu -----------------------------
(* UartMenu for TLC: the letters of the label, the star, a viewing key, a   *)
(* configuration key, the key that leaves, and one that means nothing.      *)
EXTENDS UartMenu

MCKeys == {"e", "n", "t", "r", "*", "1", "5", "Q", "x"}
=============================================================================
