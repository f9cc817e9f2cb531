------------------------- MODULE MCPacketInspection -------------------------
(***************************************************************************)
(* A capture with room for one packet that can hold a ClientHello with a   *)
(* server name, or for two short ones.  Lengths lie on both sides of every *)
(* check; length fields are zero, small, or larger than any packet.        *)
(***************************************************************************)
EXTENDS PacketInspection

MCRecordLengths == {0, 13, 33, 34, 42, 53, 54, 70, 104, 112, 116, 70000}

=============================================================================
