---------------------------- MODULE MCNodeRegistry ----------------------------
(* Messages for the runs of NodeRegistry: NodeInfo messages of one node    *)
(* with either name, of the other, which is in the list, without a user,   *)
(* and one message of every other kind.                                    *)
EXTENDS NodeRegistry

MCNode == {1, 2}
MCName == {"anna", "base"}
MCContent == {"a"}

(* A local node with names and a place, and one whose lines could not be   *)
(* read; a list with a place.                                              *)
MCLocalInfos == {[long |-> "anna", short |-> "base", place |-> 1],
                 [long |-> NoName, short |-> NoName, place |-> NoPlace]}
MCLists == {2 :> [long |-> "base", place |-> 1]}

Info(n, long, short, place) ==
  [num |-> n, user |-> [set |-> TRUE, long |-> long, short |-> short], place |-> place]
InfoMessage(i, info) == [id |-> i, field |-> NodeInfoField, text |-> "ok", info |-> info]

Infos == {Info(1, "anna", NoName, 1), Info(1, NoName, "base", NoPlace),
          [num |-> 2, user |-> NoUser, place |-> 1]}
Packet(i, port, place) == [id |-> i, field |-> PacketField, text |-> "ok", port |-> port, valid |-> TRUE,
                           place |-> place, content |-> "a"]

(* A name of node 1 that is not text, for instance cut inside a character. *)
Garbled(i) == [InfoMessage(i, Info(1, "base", "base", 1)) EXCEPT !.text = "bad"]

(* Radios that leave the id of their messages out.                         *)
NoId == {0}
PlainMessages == {InfoMessage(0, i) : i \in Infos}
                 \cup {Garbled(0), Packet(0, WaypointPort, 2), Packet(0, TextPort, NoPlace)}
                 \cup {[id |-> 0, field |-> MyInfoField, text |-> "ok", num |-> 1], [id |-> 0, field |-> ConfigCompleteField, text |-> "ok"]}

(* Radios that number them: an id may be that of a node.                   *)
NumberedId == {2}
NumberedMessages == {InfoMessage(2, i) : i \in Infos}
                    \cup {Garbled(2), Packet(2, WaypointPort, 2), Packet(2, TextPort, NoPlace)}
                    \cup {[id |-> 2, field |-> MyInfoField, text |-> "ok", num |-> 1], [id |-> 2, field |-> ConfigCompleteField, text |-> "ok"]}
=============================================================================
