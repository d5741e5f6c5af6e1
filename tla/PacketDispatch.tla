---------------------------- MODULE PacketDispatch ----------------------------
(***************************************************************************)
(* What readLoop (serial/serial.go) makes of one protobuf message of the   *)
(* radio: the decoders of package decoder, and which callbacks are called. *)
(*                                                                         *)
(* The radio sends FromRadio messages.  Of their encoding only what the    *)
(* decoders can tell apart is kept: the field number under which the       *)
(* variant is encoded (packet 2, my_info 3, node_info 4, log_record 6,     *)
(* metadata 13, ... up to 17), the optional id, field 1, and whether the   *)
(* text inside is text.  It matters because each decoder, when the bytes   *)
(* are not the FromRadio it looks for, or when proto.Unmarshal refuses     *)
(* them, reads THE SAME BYTES as another message type: a field of another  *)
(* wire type is skipped, a field of the same number and wire type is taken *)
(* over, and a message with text that is not valid UTF-8 is refused.       *)
(* PacketSchemas derives the same from the schemas of the messages.        *)
(*                                                                         *)
(* A decoder returns the set of its results: empty is an error.            *)
(***************************************************************************)
EXTENDS Integers, Sequences

CONSTANTS Id,        \* values of FromRadio.id; 0 when the field is absent
          Node,      \* node numbers
          Name,      \* names of nodes; NoName is the empty one
          Content    \* what texts, telemetry, admin messages and alerts say

NoName == "none"

(* What a callback gets instead of a content when a message is misread: an *)
(* absent payload, the bytes of the whole MeshPacket, or the device        *)
(* metrics and the like that the bytes of another message spell.           *)
Nothing == "nothing"
Wrapped == "wrapped"
Misread == "misread"

ASSUME IdAssumption == Id \subseteq Nat
ASSUME NodeAssumption == Node \subseteq Nat \ {0}
ASSUME NameAssumption == NoName \notin Name
ASSUME ContentAssumption == Content \cap {Nothing, Wrapped, Misread} = {}

Versions == {"none", "latest", "2.1"}   \* what main passes: none known, or by firmware
NoUser == [set |-> FALSE, long |-> NoName, short |-> NoName]
User == [set : {TRUE}, long : Name \cup {NoName}, short : Name \cup {NoName}]
NoPlace == 0
Place == {NoPlace, 1, 2}
NodeInfo == [num : Node, user : User \cup {NoUser}, place : Place]

TextPort == 1
AdminPort == 6
WaypointPort == 8
AlertPort == 11
TelemetryPort == 67
Port == {TextPort, AdminPort, WaypointPort, AlertPort, TelemetryPort, 3}

PacketField == 2
MyInfoField == 3
NodeInfoField == 4
LogRecordField == 6
ConfigCompleteField == 7
MetadataField == 13

(* What a message's bytes are as text: "bad" when a text inside it is not  *)
(* valid UTF-8, so that proto.Unmarshal refuses the FromRadio, "plain"     *)
(* when all of its bytes are, so that they would pass for a text.          *)
Text == {"ok", "bad", "plain"}
TextFields == {MyInfoField, NodeInfoField, 5, LogRecordField, 9, 10, MetadataField, 14, 15, 16, 17}

(* Messages of the radio.  port 0 stands for an encrypted packet, which has *)
(* no Data; valid says whether the payload parses as the type of its port, *)
(* which is a waypoint's place or a content.                               *)
Packets == [id : Id, field : {PacketField}, text : {"ok"},
            port : Port \cup {0}, valid : BOOLEAN, place : Place, content : Content]
MyInfos == [id : Id, field : {MyInfoField}, text : Text, num : Node]
NodeInfos == [id : Id, field : {NodeInfoField}, text : Text, info : NodeInfo]
Others == {m \in [id : Id, field : 5..17, text : Text] : m.text = "bad" => m.field \in TextFields}
FromRadio == Packets \cup MyInfos \cup NodeInfos \cup Others

Parses(m) == m.text # "bad"

(* Telemetry has its variants in the length-delimited fields 2 to 8; the   *)
(* FromRadio fields 7 and 8 are varints.                                   *)
ReadsAsTelemetry(m) == m.field \in 2..6

IsPacket(m, port) == m.field = PacketField /\ m.port = port

-----------------------------------------------------------------------------
(* The decoders.                                                           *)

Supported(version) == version \in {"none", "latest", "2.1"}

(* Read as NodeInfo, field 1 is the node number and field 2 the user.      *)
ReadAsNodeInfo(m) == [num |-> m.id, place |-> NoPlace,
                      user |-> [set |-> m.field = PacketField, long |-> NoName, short |-> NoName]]

DecodeNodeInfoEvenEmpty(m, version) ==
  IF ~Supported(version) THEN {}
  ELSE IF m.field = NodeInfoField /\ Parses(m) THEN {m.info}
  ELSE {ReadAsNodeInfo(m)}
DecodeNodeInfoUnchecked(m, version) ==
  IF ~Supported(version) THEN {}
  ELSE IF m.field = NodeInfoField THEN {m.info}
  ELSE IF m.field = PacketField \/ m.id # 0 THEN {ReadAsNodeInfo(m)}
  ELSE {}
DecodeNodeInfo(m, version) ==
  IF ~Supported(version) THEN {}
  ELSE IF m.field = NodeInfoField /\ Parses(m) THEN {m.info}
  ELSE IF m.field = PacketField \/ m.id # 0 THEN {ReadAsNodeInfo(m)}
  ELSE {}

(* Read as MyNodeInfo, field 1 is the node number and field 13 a text.     *)
DecodeMyInfoEvenZero(m, version) ==
  IF version \notin {"none", "latest"} THEN {}
  ELSE IF m.field = MyInfoField /\ Parses(m) THEN {m.num}
  ELSE IF m.field = MetadataField => m.text = "plain" THEN {m.id}
  ELSE {}
DecodeMyInfo(m, version) ==
  IF version \notin {"none", "latest"} THEN {}
  ELSE IF m.field = MyInfoField /\ Parses(m) THEN {m.num}
  ELSE IF m.id # 0 /\ (m.field = MetadataField => m.text = "plain") THEN {m.id}
  ELSE {}

(* The payload of a packet of the port.  Read as Data, field 1 is the port *)
(* number and field 2 the payload.                                         *)
Payload(m, port) ==
  IF IsPacket(m, port) THEN {m.content}
  ELSE IF m.id = port THEN {IF m.field = PacketField THEN Wrapped ELSE Nothing}
  ELSE {}

DecodeText(m, version) == IF Supported(version) THEN Payload(m, TextPort) ELSE {}

DecodeTelemetryOfAnything(m, version) ==
  IF Supported(version) /\ ReadsAsTelemetry(m) THEN {Misread} ELSE {}
DecodeTelemetry(m, version) ==
  IF ~Supported(version) THEN {}
  ELSE IF IsPacket(m, TelemetryPort) /\ m.valid THEN {m.content}
  ELSE IF ReadsAsTelemetry(m) THEN {Misread}
  ELSE {}

(* Read as Data, the payload is empty or a MeshPacket; as Waypoints these  *)
(* have no place.  Read as Waypoint, field 1 is the id and field 6, a text, *)
(* the name.                                                               *)
DecodeWaypoint(m, version) ==
  IF ~Supported(version) THEN {}
  ELSE IF IsPacket(m, WaypointPort) /\ m.valid THEN {m.place}
  ELSE IF m.id = WaypointPort THEN {NoPlace}
  ELSE IF m.field = LogRecordField THEN (IF m.text = "plain" THEN {NoPlace} ELSE {})
  ELSE IF m.id # 0 THEN {NoPlace}
  ELSE {}

DecodeAdmin(m, version) == IF Supported(version) THEN Payload(m, AdminPort) ELSE {}

DecodeAlert(m, version) == IF Supported(version) THEN Payload(m, AlertPort) ELSE {}

-----------------------------------------------------------------------------
(* The callbacks, in the order in which they are called.  The node map is  *)
(* always given by main, so that NodeInfo is always tried.                 *)

Calls(callback, results) == {<<callback, r>> : r \in results}

FirstOf(alternatives) ==
  LET hits == {i \in DOMAIN alternatives : alternatives[i] # {}}
  IN IF hits = {} THEN {} ELSE alternatives[CHOOSE i \in hits : \A j \in hits : i <= j]

Typed(m, version) ==
  << Calls("text", DecodeText(m, version)),
     Calls("telemetry", DecodeTelemetry(m, version)),
     Calls("waypoint", DecodeWaypoint(m, version)),
     Calls("admin", DecodeAdmin(m, version)),
     Calls("alert", DecodeAlert(m, version)) >>

(* A frame: NodeInfo and MyInfo are tried besides the typed callbacks.     *)
DispatchFrame(m, version) ==
  Calls("nodeInfo", DecodeNodeInfo(m, version)) \cup
  Calls("myInfo", DecodeMyInfo(m, version)) \cup
  FirstOf(Typed(m, version))

(* A line whose text is a message framed by a 2.1 radio: the first decoder *)
(* that accepts it ends its handling, and text is tried last.  DecodeMyInfo *)
(* strips only the newer start bytes and accepts no such line.             *)
DispatchLine(m, version) ==
  LET t == Typed(m, version)
  IN FirstOf(<<Calls("nodeInfo", DecodeNodeInfo(m, version)), t[2], t[3], t[4], t[5], t[1]>>)
=============================================================================
