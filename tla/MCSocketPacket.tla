--------------------------- MODULE MCSocketPacket ---------------------------
(* Instances of SocketPacket for TLC: Room is 2, so that requests of up to *)
(* 5 bytes need one, two or three fragments and two lengths fit exactly.   *)
EXTENDS SocketPacket
=============================================================================
