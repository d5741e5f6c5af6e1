----------------------------- MODULE PacketSchemas -----------------------------
(***************************************************************************)
(* The decoders of PacketDispatch against the schemas of WireSchema: what  *)
(* proto.Unmarshal makes of the bytes of one message when it is told to    *)
(* read them as another, and hence which messages each decoder accepts.    *)
(***************************************************************************)
EXTENDS PacketReading

Wire == INSTANCE WireSchema

(* Whether a field f of a message is not skipped when it is read as g.     *)
Taken(f, g) == f.number = g.number /\ f.kind.wire = g.kind.wire

TakenNumbers(w, r) == {f.number : f \in {f \in w.fields : \E g \in r.fields : Taken(f, g)}}

(* Whether bytes of kind w are refused when they are read as kind r: as a  *)
(* text that they are not, or as a message with such a text.               *)
RefusedAsText(w, r, text) ==
  r.what = "text" /\ (IF w = r THEN text = "bad" ELSE text # "plain")

RefusedAsMessage(w, r, text) ==
  /\ r.what = "message"
  /\ IF w = r THEN text = "bad" /\ r.hasText
     ELSE \/ w.what # "message"
          \/ \E f \in w.fields, g \in r.fields : Taken(f, g) /\ RefusedAsText(f.kind, g.kind, text)

Refused(w, r, text) == RefusedAsText(w, r, text) \/ RefusedAsMessage(w, r, text)

(* Whether the getter of field n, which returns 0 or nil for a field that  *)
(* is not set, returns something else for a message m of the radio read as *)
(* r: m has its id and one more field.                                     *)
IsSet(m, r, n) == /\ n \in TakenNumbers(Wire!FromRadio, r)
                  /\ (n = 1 /\ m.id # 0) \/ n = m.field

Reads(m, r) ==
  \A f \in Wire!FromRadio.fields, g \in r.fields :
    Taken(f, g) /\ f.number = m.field => ~Refused(f.kind, g.kind, m.text)

Variant(m, field) == Reads(m, Wire!FromRadio) /\ m.field = field
PayloadFits(m, port) == Variant(m, PacketField) /\ m.port = port /\ m.valid

-----------------------------------------------------------------------------
(* The messages inside a message that a decoder reads have no messages     *)
(* inside, unless they are what the radio sent: a refusal is found one     *)
(* level down.                                                             *)
ASSUME MessagesAreFlat ==
  \A r \in {Wire!NodeInfo, Wire!MyNodeInfo, Wire!Data, Wire!Telemetry, Wire!Waypoint} :
    \A f \in r.fields : \A g \in f.kind.fields : g.kind.what # "message"

(* Only variants with a text inside can be ill-formed, and no misreading   *)
(* takes a text or a coordinate from where the radio put something else:   *)
(* facts of the schemas that PacketDispatch builds in, evaluated by TLC.   *)
ASSUME MisreadingsHoldNoText ==
  /\ \A f \in Wire!FromRadio.fields : f.number \in 2..17 => (f.number \in TextFields <=> f.kind.hasText)
  /\ TakenNumbers(Wire!MeshPacket, Wire!User) \cap {1, 2, 3} = {}
  /\ TakenNumbers(Wire!MyNodeInfo, Wire!Position) \cap {1, 2} = {}
  /\ TakenNumbers(Wire!FromRadio, Wire!Waypoint) \cap {2, 3} = {}

-----------------------------------------------------------------------------
(* The conditions under which the decoders return a message                *)
(* (nodeinfo.go 28-35, myinfo.go 23-30, messages.go 36-52, 68-82, 96-121). *)

AcceptsNodeInfo(m) ==
  \/ Variant(m, NodeInfoField)
  \/ Reads(m, Wire!NodeInfo) /\ (IsSet(m, Wire!NodeInfo, 1) \/ IsSet(m, Wire!NodeInfo, 2))

AcceptsMyInfo(m) ==
  \/ Variant(m, MyInfoField)
  \/ Reads(m, Wire!MyNodeInfo) /\ IsSet(m, Wire!MyNodeInfo, 1)

ReadsAsData(m, port) == Reads(m, Wire!Data) /\ IsSet(m, Wire!Data, 1) /\ m.id = port

AcceptsPort(m, port) ==
  \/ Variant(m, PacketField) /\ m.port = port
  \/ ReadsAsData(m, port)

AcceptsTelemetry(m) ==
  \/ PayloadFits(m, TelemetryPort)
  \/ Reads(m, Wire!Telemetry) /\ \E n \in 2..8 : IsSet(m, Wire!Telemetry, n)

(* The payload of a Data is missing or the message's field 2.              *)
AcceptsWaypoint(m) ==
  \/ PayloadFits(m, WaypointPort)
  \/ ReadsAsData(m, WaypointPort)
     /\ (IsSet(m, Wire!Data, 2) => ~Refused(Wire!MeshPacket, Wire!Waypoint, m.text))
  \/ Reads(m, Wire!Waypoint) /\ (IsSet(m, Wire!Waypoint, 1) \/ IsSet(m, Wire!Waypoint, 6))

-----------------------------------------------------------------------------
(* Each decoder accepts the messages that the schemas let it accept, and   *)
(* no others, although most of them are of another type than the one it    *)
(* looks for.                                                              *)
DecodersFollowSchemas ==
  message # << >> /\ Supported(version) =>
    LET m == message IN
    /\ (DecodeNodeInfo(m, version) # {}) = AcceptsNodeInfo(m)
    /\ (DecodeMyInfo(m, version) # {}) = (version # "2.1" /\ AcceptsMyInfo(m))
    /\ (DecodeText(m, version) # {}) = AcceptsPort(m, TextPort)
    /\ (DecodeAdmin(m, version) # {}) = AcceptsPort(m, AdminPort)
    /\ (DecodeAlert(m, version) # {}) = AcceptsPort(m, AlertPort)
    /\ (DecodeTelemetry(m, version) # {}) = AcceptsTelemetry(m)
    /\ (DecodeWaypoint(m, version) # {}) = AcceptsWaypoint(m)
=============================================================================
