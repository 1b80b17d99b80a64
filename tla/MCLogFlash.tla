----------------------------- MODULE MCLogFlash -----------------------------
(* LogFlash for TLC: a sector with room for five log words, so that it is   *)
(* filled, exactly and not, by messages of odd and even lengths; the length *)
(* of 'C' is that of the longest log, and does not fit the read buffer.     *)
EXTENDS LogFlash

MCSectorSize == 18
MCOpenLength == 10
MCReadBuffer == 9
MCUnwritten  == 99
MCLogLengths == {0, 1, 3, 4}
=============================================================================
