---------------------------- MODULE MCPacketReading ----------------------------
(* Ids: absent, a node's number, and the numbers of two ports.             *)
EXTENDS PacketSchemas

MCId == {0, 1, 2, 6, 8}
MCNode == {2, 3}
MCName == {"anna"}
MCContent == {"a", "b"}
=============================================================================
