-------------------------- MODULE MCPacketManager --------------------------
(* Small instances of PacketManager for TLC.                               *)
EXTENDS PacketManager

MCDeltas == {-2, 1}
MCFarDeltas == {4}
=============================================================================
