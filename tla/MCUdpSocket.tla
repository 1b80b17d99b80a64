---------------------------- MODULE MCUdpSocket ----------------------------
(* Instances of UdpSocket for TLC.                                          *)
EXTENDS UdpSocket

CONSTANTS h1, h2

MCHosts       == {h1, h2}
MCSenderPorts == {6000}
MCBindArgs    == {<<h1, 6000>>, <<h2, 0>>, <<Bad, 6000>>}
MCGroupArgs   == {h2}
=============================================================================
