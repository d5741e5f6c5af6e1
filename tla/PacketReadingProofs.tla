-------------------------- MODULE PacketReadingProofs --------------------------
(***************************************************************************)
(* Proofs about PacketReading: for any ids, nodes and names; and that the  *)
(* decoders of PacketDispatch accept what the schemas of WireSchema let    *)
(* them accept.  For these the tables of the schemas are expanded once,    *)
(* in a lemma for each type that is read, which keeps of its fields what a *)
(* message of the radio can fill; what becomes of such a message, read as  *)
(* that type, follows from the tables alone.                               *)
(***************************************************************************)
EXTENDS PacketSchemas, PacketDispatchProofs

(* The callbacks are those of the message read last.                       *)
Read == /\ version \in Versions /\ asLine \in BOOLEAN
        /\ \/ message = << >> /\ callbacks = {}
           \/ /\ message \in FromRadio
              /\ callbacks = IF asLine THEN DispatchLine(message, version) ELSE DispatchFrame(message, version)

LEMMA ReadInvariant == Spec => []Read
<1>1. Init => Read
  BY DEF Init, Read
<1>2. Read /\ [Next]_vars => Read'
  <2> SUFFICES ASSUME Read, [Next]_vars PROVE Read'
    OBVIOUS
  <2>1. ASSUME NEW m \in FromRadio, ReadFrame(m) PROVE Read'
    <3>1. /\ version' \in Versions /\ message' = m /\ asLine' = FALSE
          /\ callbacks' = DispatchFrame(message', version')
      BY <2>1 DEF Read, ReadFrame
    <3> QED
      BY <3>1, Zenon DEF Read
  <2>2. ASSUME NEW m \in FromRadio, ReadLine(m) PROVE Read'
    <3>1. /\ version' \in Versions /\ message' = m /\ asLine' = TRUE
          /\ callbacks' = DispatchLine(message', version')
      BY <2>2 DEF Read, ReadLine
    <3> QED
      BY <3>1, Zenon DEF Read
  <2>3. CASE UNCHANGED vars
    BY <2>3 DEF Read, vars
  <2> QED
    BY <2>1, <2>2, <2>3 DEF Next
<1> QED
  BY <1>1, <1>2, PTL DEF Spec

LEMMA CalledAreResults ==
  ASSUME Read
  PROVE  /\ Called("nodeInfo") \subseteq DecodeNodeInfo(message, version)
         /\ Called("myInfo") \subseteq DecodeMyInfo(message, version)
         /\ Called("waypoint") \subseteq DecodeWaypoint(message, version)
<1>1. ASSUME NEW c \in callbacks
      PROVE  /\ c[1] = "nodeInfo" => c[2] \in DecodeNodeInfo(message, version)
             /\ c[1] = "myInfo" => c[2] \in DecodeMyInfo(message, version)
             /\ c[1] = "waypoint" => c[2] \in DecodeWaypoint(message, version)
  <2>1. c \in DispatchLine(message, version) \/ c \in DispatchFrame(message, version)
    BY <1>1 DEF Read
  <2> QED
    BY <2>1, FrameCalls, LineCalls
<1> QED
  BY <1>1 DEF Called

(* Callbacks are of the known kinds and get what main can use.             *)
THEOREM CallbackTypes == Spec => []TypeOK
<1>1. ASSUME Read PROVE TypeOK
  <2>1. message \in FromRadio \cup {<< >>} /\ version \in Versions /\ asLine \in BOOLEAN
    BY <1>1 DEF Read
  <2>2. ASSUME NEW c \in callbacks
        PROVE  /\ c[1] \in {"nodeInfo", "myInfo", "text", "telemetry", "waypoint", "admin", "alert"}
               /\ c[1] \in {"text", "telemetry", "admin", "alert"}
                    => c[2] \in Content \cup {Nothing, Wrapped, Misread}
    <3>1. c \in DispatchLine(message, version) \/ c \in DispatchFrame(message, version)
      BY <1>1, <2>2 DEF Read
    <3>2. message \in FromRadio
      BY <1>1, <2>2 DEF Read
    <3>3. c[1] \in WithContent => c[2] \in Contents(message, version)
      BY <3>1, FrameCalls, LineCalls
    <3> QED
      BY <3>1, <3>2, <3>3, FrameCalls, LineCalls, ContentTypes DEF WithContent
  <2>3. ASSUME NEW info \in Called("nodeInfo")
        PROVE  info.num \in Node \cup Id /\ info.place \in Place /\ (info.num # 0 \/ info.user.set)
    <3>1. message \in FromRadio
      BY <1>1, <2>3 DEF Read, Called
    <3>2. info \in DecodeNodeInfo(message, version)
      BY <1>1, <2>3, CalledAreResults
    <3>3. CASE message.field = NodeInfoField /\ info = message.info
      <4>1. info.num \in Node /\ info.place \in Place
        BY <3>1, <3>3, MessageFields, NodeInfoTypes
      <4> QED
        BY <4>1, NodeAssumption
    <3>4. CASE info = ReadAsNodeInfo(message) /\ (message.field = PacketField \/ message.id # 0)
      <4>1. /\ info.num = message.id /\ info.place = NoPlace
            /\ info.user.set = (message.field = PacketField)
        BY <3>4 DEF ReadAsNodeInfo
      <4>2. message.id \in Id
        BY <3>1, MessageFields
      <4> QED
        BY <3>4, <4>1, <4>2 DEF Place
    <3> QED
      BY <3>2, <3>3, <3>4 DEF DecodeNodeInfo
  <2> QED
    BY <2>1, <2>2, <2>3 DEF TypeOK
<1> QED
  BY <1>1, ReadInvariant, PTL

(* A message that proto.Unmarshal refuses leaves at most its id behind     *)
(* (nodeinfo.go 28-35, messages.go 96-118).                                *)
THEOREM IllFormedTextIsHarmless == Spec => []IllFormedTextForgesNothing
<1>1. ASSUME Read, message # << >>, ~Parses(message)
      PROVE  /\ \A info \in Called("nodeInfo") :
                  info.num = message.id /\ info.user = NoUser /\ info.place = NoPlace
             /\ Called("myInfo") \subseteq {message.id}
             /\ Called("waypoint") \subseteq {NoPlace}
  <2>1. message \in FromRadio /\ message.text = "bad"
    BY <1>1 DEF Read, Parses
  <2>2. message.field # PacketField
    <3>1. CASE message \in Packets
      BY <2>1, <3>1 DEF Packets
    <3>2. CASE message \in MyInfos \/ message \in NodeInfos \/ message \in Others
      BY <3>2 DEF MyInfos, NodeInfos, Others, PacketField, MyInfoField, NodeInfoField
    <3> QED
      BY <2>1, <3>1, <3>2 DEF FromRadio
  <2>3. ASSUME NEW info \in Called("nodeInfo")
        PROVE  info.num = message.id /\ info.user = NoUser /\ info.place = NoPlace
    <3>1. info = ReadAsNodeInfo(message)
      BY <1>1, <2>3, CalledAreResults DEF DecodeNodeInfo
    <3> QED
      BY <2>2, <3>1 DEF ReadAsNodeInfo, NoUser
  <2>4. Called("myInfo") \subseteq {message.id}
    BY <1>1, CalledAreResults DEF DecodeMyInfo
  <2>5. Called("waypoint") \subseteq {NoPlace}
    BY <1>1, <2>2, CalledAreResults DEF DecodeWaypoint, IsPacket
  <2> QED
    BY <2>3, <2>4, <2>5
<1>2. Read => IllFormedTextForgesNothing
  BY <1>1 DEF IllFormedTextForgesNothing
<1> QED
  BY <1>2, ReadInvariant, PTL

(* The kinds that matter reach their callback with what they say and with  *)
(* nothing else, whatever was tried before them and whatever else the same *)
(* bytes can be read as (serial.go 199-219, messages.go 36-52, 68-82).     *)
THEOREM FramesArrive == Spec => []FramesReachCallbacks
<1> SUFFICES ASSUME Read, FrameRead, Parses(message)
             PROVE  /\ message.field = NodeInfoField => Called("nodeInfo") = {message.info}
                    /\ message.field = MyInfoField /\ version # "2.1" => Called("myInfo") = {message.num}
                    /\ IsPacket(message, TextPort) => Called("text") = {message.content}
                    /\ IsPacket(message, TelemetryPort) /\ message.valid /\ message.id # TextPort
                         => Called("telemetry") = {message.content}
  <2>1. Read => FramesReachCallbacks
    BY DEF FramesReachCallbacks
  <2> QED
    BY <2>1, ReadInvariant, PTL
<1>1. callbacks = DispatchFrame(message, version) /\ Supported(version)
  BY DEF Read, FrameRead
<1>2. ASSUME message.field = NodeInfoField
      PROVE  Called("nodeInfo") = {message.info}
  <2>1. DecodeNodeInfo(message, version) = {message.info}
    BY <1>1, <1>2 DEF DecodeNodeInfo
  <2>2. <<"nodeInfo", message.info>> \in callbacks
    BY <1>1, <2>1, InfosArePassedOn
  <2>3. message.info \in Called("nodeInfo")
    BY <2>2 DEF Called
  <2> QED
    BY <2>1, <2>3, CalledAreResults
<1>3. ASSUME message.field = MyInfoField, version # "2.1"
      PROVE  Called("myInfo") = {message.num}
  <2>1. DecodeMyInfo(message, version) = {message.num}
    BY <1>1, <1>3 DEF DecodeMyInfo, Supported
  <2>2. <<"myInfo", message.num>> \in callbacks
    BY <1>1, <2>1, InfosArePassedOn
  <2>3. message.num \in Called("myInfo")
    BY <2>2 DEF Called
  <2> QED
    BY <2>1, <2>3, CalledAreResults
<1> DEFINE content == message.content
<1>4. ASSUME IsPacket(message, TextPort)
      PROVE  Called("text") = {content}
  <2>1. DecodeText(message, version) = {content}
    BY <1>1, <1>4 DEF DecodeText, Payload
  <2> HIDE DEF content
  <2>2. callbacks = Calls("nodeInfo", DecodeNodeInfo(message, version)) \cup
                    Calls("myInfo", DecodeMyInfo(message, version)) \cup {<<"text", content>>}
    BY <1>1, <2>1, TextThenTelemetry DEF DispatchFrame, Calls
  <2>3. \A d \in callbacks : d[1] = "text" <=> d = <<"text", content>>
    BY <2>2 DEF Calls
  <2>4. {d \in callbacks : d[1] = "text"} = {<<"text", content>>}
    BY <2>2, <2>3
  <2>5. Called("text") = {c[2] : c \in {<<"text", content>>}}
    BY <2>4 DEF Called
  <2>6. \A x : x \in {c[2] : c \in {<<"text", content>>}} <=> x = content
    BY <<"text", content>>[2] = content
  <2> QED
    BY <2>5, <2>6
<1>5. ASSUME IsPacket(message, TelemetryPort), message.valid, message.id # TextPort
      PROVE  Called("telemetry") = {content}
  <2>1. DecodeText(message, version) = {}
    BY <1>5 DEF DecodeText, Payload, IsPacket, TextPort, TelemetryPort
  <2>2. DecodeTelemetry(message, version) = {content}
    BY <1>1, <1>5 DEF DecodeTelemetry
  <2> HIDE DEF content
  <2>3. callbacks = Calls("nodeInfo", DecodeNodeInfo(message, version)) \cup
                    Calls("myInfo", DecodeMyInfo(message, version)) \cup {<<"telemetry", content>>}
    BY <1>1, <2>1, <2>2, TextThenTelemetry DEF DispatchFrame, Calls
  <2>4. \A d \in callbacks : d[1] = "telemetry" <=> d = <<"telemetry", content>>
    BY <2>3 DEF Calls
  <2>5. {d \in callbacks : d[1] = "telemetry"} = {<<"telemetry", content>>}
    BY <2>3, <2>4
  <2>6. Called("telemetry") = {c[2] : c \in {<<"telemetry", content>>}}
    BY <2>5 DEF Called
  <2>7. \A x : x \in {c[2] : c \in {<<"telemetry", content>>}} <=> x = content
    BY <<"telemetry", content>>[2] = content
  <2> QED
    BY <2>6, <2>7
<1> QED
  BY <1>2, <1>3, <1>4, <1>5

-----------------------------------------------------------------------------
(* The tables of WireSchema.  What a kind says of itself:                  *)
LEMMA ScalarKinds ==
  /\ Wire!Varint.wire = "varint" /\ Wire!Varint.what = "number" /\ ~Wire!Varint.hasText
  /\ Wire!Fixed32.wire = "fixed32" /\ Wire!Fixed32.what = "number" /\ ~Wire!Fixed32.hasText
  /\ Wire!Bytes.wire = "len" /\ Wire!Bytes.what = "bytes"
  /\ Wire!Text.wire = "len" /\ Wire!Text.what = "text" /\ Wire!Text.hasText
BY DEF Wire!Varint, Wire!Fixed32, Wire!Bytes, Wire!Text, Wire!Scalar

LEMMA MessageKind ==
  ASSUME NEW fields
  PROVE  /\ Wire!Message(fields).wire = "len" /\ Wire!Message(fields).what = "message"
         /\ Wire!Message(fields).fields = fields
         /\ Wire!Message(fields).hasText <=> \E f \in fields : f.kind.hasText
BY DEF Wire!Message

LEMMA AllField ==
  ASSUME NEW numbers, NEW kind
  PROVE  /\ \A f \in Wire!All(numbers, kind) : f.number \in numbers /\ f.kind = kind
         /\ \A n \in numbers : \E f \in Wire!All(numbers, kind) : f.number = n
<1>1. ASSUME NEW n \in numbers PROVE \E f \in Wire!All(numbers, kind) : f.number = n
  <2>1. [number |-> n, kind |-> kind] \in Wire!All(numbers, kind)
    BY DEF Wire!All
  <2> QED BY <2>1
<1>2. \A f \in Wire!All(numbers, kind) : f.number \in numbers /\ f.kind = kind
  BY DEF Wire!All
<1> QED BY <1>1, <1>2

LEMMA RadioFields ==
  ASSUME NEW f \in Wire!FromRadio.fields
  PROVE  /\ f.number \in 1..17
         /\ f.number \in {1, 7, 8} => f.kind = Wire!Varint
         /\ f.number \notin {1, 7, 8} => f.kind.wire = "len" /\ f.kind.what = "message"
         /\ f.number = 2 => f.kind = Wire!MeshPacket
         /\ f.number = 3 => f.kind = Wire!MyNodeInfo
         /\ f.number = 4 => f.kind = Wire!NodeInfo
         /\ f.number = 6 => f.kind = Wire!LogRecord
         /\ f.number = 13 => f.kind = Wire!DeviceMetadata
<1>1. \/ f.number \in {1, 7, 8} /\ f.kind = Wire!Varint
      \/ f.number = 2 /\ f.kind = Wire!MeshPacket
      \/ f.number = 3 /\ f.kind = Wire!MyNodeInfo
      \/ f.number = 4 /\ f.kind = Wire!NodeInfo
      \/ f.number = 5 /\ f.kind = Wire!Config
      \/ f.number = 6 /\ f.kind = Wire!LogRecord
      \/ f.number = 9 /\ f.kind = Wire!ModuleConfig
      \/ f.number = 10 /\ f.kind = Wire!Channel
      \/ f.number = 11 /\ f.kind = Wire!QueueStatus
      \/ f.number = 12 /\ f.kind = Wire!XModem
      \/ f.number = 13 /\ f.kind = Wire!DeviceMetadata
      \/ f.number = 14 /\ f.kind = Wire!MqttClientProxyMessage
      \/ f.number = 15 /\ f.kind = Wire!FileInfo
      \/ f.number = 16 /\ f.kind = Wire!ClientNotification
      \/ f.number = 17 /\ f.kind = Wire!DeviceUIConfig
  BY MessageKind, AllField DEF Wire!FromRadio
<1>2. /\ \A k \in {Wire!MeshPacket, Wire!MyNodeInfo, Wire!NodeInfo, Wire!Config, Wire!LogRecord} :
           k.wire = "len" /\ k.what = "message"
      /\ \A k \in {Wire!ModuleConfig, Wire!Channel, Wire!QueueStatus, Wire!XModem, Wire!DeviceMetadata} :
           k.wire = "len" /\ k.what = "message"
      /\ \A k \in {Wire!MqttClientProxyMessage, Wire!FileInfo, Wire!ClientNotification, Wire!DeviceUIConfig} :
           k.wire = "len" /\ k.what = "message"
  BY MessageKind DEF Wire!MeshPacket, Wire!MyNodeInfo, Wire!NodeInfo, Wire!Config, Wire!LogRecord,
     Wire!ModuleConfig, Wire!Channel, Wire!QueueStatus, Wire!XModem, Wire!DeviceMetadata,
     Wire!MqttClientProxyMessage, Wire!FileInfo, Wire!ClientNotification, Wire!DeviceUIConfig
<1> QED
  BY <1>1, <1>2

LEMMA RadioHasFields == \A n \in 1..17 : \E f \in Wire!FromRadio.fields : f.number = n
<1>1. \A n \in {1, 7, 8} : \E f \in Wire!FromRadio.fields : f.number = n
  BY MessageKind, AllField DEF Wire!FromRadio
<1>2. \A n \in 2..6 : \E f \in Wire!FromRadio.fields : f.number = n
  BY MessageKind, AllField DEF Wire!FromRadio
<1>3. \A n \in 9..12 : \E f \in Wire!FromRadio.fields : f.number = n
  BY MessageKind, AllField DEF Wire!FromRadio
<1>4. \A n \in 13..15 : \E f \in Wire!FromRadio.fields : f.number = n
  BY MessageKind, AllField DEF Wire!FromRadio
<1>5. \A n \in 16..17 : \E f \in Wire!FromRadio.fields : f.number = n
  BY MessageKind, AllField DEF Wire!FromRadio
<1> QED
  BY <1>1, <1>2, <1>3, <1>4, <1>5

(* When bytes are refused: never as a number or as bytes, and as a message *)
(* only for a text inside.                                                 *)
LEMMA NotRefused ==
  ASSUME NEW w, NEW r, NEW text
  PROVE  /\ r.what \notin {"text", "message"} => ~Refused(w, r, text)
         /\ /\ r.what = "message" /\ w.what = "message" /\ ~r.hasText
            /\ \A g \in r.fields : g.kind.what # "text"
            => ~Refused(w, r, text)
BY DEF Refused, RefusedAsText, RefusedAsMessage

(* What a message m of the radio leaves when it is read as a type r: its   *)
(* id and its other field, where the type has a field of that number and   *)
(* of the wire type that the radio uses.                                   *)
RadioWire(n) == IF n \in {1, 7, 8} THEN "varint" ELSE "len"

LEMMA RadioSets ==
  ASSUME NEW m \in FromRadio, NEW r, NEW n \in 1..17
  PROVE  IsSet(m, r, n) <=> /\ (n = 1 /\ m.id # 0) \/ n = m.field
                            /\ \E g \in r.fields : g.number = n /\ g.kind.wire = RadioWire(n)
<1>1. \A f \in Wire!FromRadio.fields : f.kind.wire = RadioWire(f.number)
  BY RadioFields, ScalarKinds DEF RadioWire
<1>2. ASSUME IsSet(m, r, n)
      PROVE  \E g \in r.fields : g.number = n /\ g.kind.wire = RadioWire(n)
  BY <1>1, <1>2 DEF IsSet, TakenNumbers, Taken
<1>3. ASSUME NEW g \in r.fields, g.number = n, g.kind.wire = RadioWire(n)
      PROVE  n \in TakenNumbers(Wire!FromRadio, r)
  <2>1. PICK f \in Wire!FromRadio.fields : f.number = n
    BY RadioHasFields
  <2>2. Taken(f, g)
    BY <1>1, <1>3, <2>1 DEF Taken
  <2> QED BY <2>1, <2>2 DEF TakenNumbers
<1> QED BY <1>2, <1>3 DEF IsSet

(* The fields of the types the decoders read, and of those inside, as far  *)
(* as a message of the radio can fill them.                                *)
LEMMA UserFields ==
  /\ Wire!User.what = "message" /\ Wire!User.wire = "len"
  /\ \A g \in Wire!User.fields : /\ g.kind \in {Wire!Varint, Wire!Bytes, Wire!Text}
                                 /\ g.kind = Wire!Text <=> g.number \in 1..3
<1>1. \A g \in Wire!User.fields : \/ g.kind \in {Wire!Varint, Wire!Bytes} /\ g.number \notin 1..3
                                  \/ g.kind = Wire!Text /\ g.number \in 1..3
  BY MessageKind, AllField DEF Wire!User
<1>2. Wire!Text \notin {Wire!Varint, Wire!Bytes}
  BY ScalarKinds
<1> QED BY <1>1, <1>2, MessageKind DEF Wire!User

(* No other message inside of one that a decoder reads holds a text.       *)
LEMMA OnlyNumbers ==
  ASSUME NEW r \in {Wire!Position, Wire!DeviceMetrics, Wire!EnvironmentMetrics, Wire!AirQualityMetrics,
                    Wire!PowerMetrics, Wire!LocalStats}
  PROVE  /\ r.what = "message" /\ r.wire = "len" /\ ~r.hasText
         /\ \A g \in r.fields : g.kind.what # "text"
<1>1. CASE r = Wire!Position
  <2>1. \A g \in r.fields : g.kind \in {Wire!Varint, Wire!Fixed32}
    BY <1>1, MessageKind, AllField DEF Wire!Position
  <2> QED BY <1>1, <2>1, ScalarKinds, MessageKind DEF Wire!Position
<1>2. CASE r = Wire!DeviceMetrics
  <2>1. \A g \in r.fields : g.kind \in {Wire!Varint, Wire!Fixed32}
    BY <1>2, MessageKind, AllField DEF Wire!DeviceMetrics
  <2> QED BY <1>2, <2>1, ScalarKinds, MessageKind DEF Wire!DeviceMetrics
<1>3. CASE r = Wire!EnvironmentMetrics
  <2>1. \A g \in r.fields : g.kind \in {Wire!Varint, Wire!Fixed32}
    BY <1>3, MessageKind, AllField DEF Wire!EnvironmentMetrics
  <2> QED BY <1>3, <2>1, ScalarKinds, MessageKind DEF Wire!EnvironmentMetrics
<1>4. CASE r = Wire!AirQualityMetrics
  <2>1. \A g \in r.fields : g.kind \in {Wire!Varint, Wire!Fixed32}
    BY <1>4, MessageKind, AllField DEF Wire!AirQualityMetrics
  <2> QED BY <1>4, <2>1, ScalarKinds, MessageKind DEF Wire!AirQualityMetrics
<1>5. CASE r = Wire!PowerMetrics
  <2>1. \A g \in r.fields : g.kind \in {Wire!Varint, Wire!Fixed32}
    BY <1>5, MessageKind, AllField DEF Wire!PowerMetrics
  <2> QED BY <1>5, <2>1, ScalarKinds, MessageKind DEF Wire!PowerMetrics
<1>6. CASE r = Wire!LocalStats
  <2>1. \A g \in r.fields : g.kind \in {Wire!Varint, Wire!Fixed32}
    BY <1>6, MessageKind, AllField DEF Wire!LocalStats
  <2> QED BY <1>6, <2>1, ScalarKinds, MessageKind DEF Wire!LocalStats
<1> QED BY <1>1, <1>2, <1>3, <1>4, <1>5, <1>6

LEMMA NodeInfoFields ==
  /\ \A g \in Wire!NodeInfo.fields :
       \/ g.kind \in {Wire!Varint, Wire!Fixed32, Wire!Position, Wire!DeviceMetrics}
       \/ g.kind = Wire!User /\ g.number = 2
  /\ \E g \in Wire!NodeInfo.fields : g.number = 1 /\ g.kind = Wire!Varint
  /\ \E g \in Wire!NodeInfo.fields : g.number = 2 /\ g.kind = Wire!User
<1> USE MessageKind, AllField DEF Wire!NodeInfo
<1>1. ASSUME NEW g \in Wire!NodeInfo.fields
      PROVE  \/ g.kind \in {Wire!Varint, Wire!Fixed32, Wire!Position, Wire!DeviceMetrics}
             \/ g.kind = Wire!User /\ g.number = 2
  OBVIOUS
<1>2. \E g \in Wire!NodeInfo.fields : g.number = 1 /\ g.kind = Wire!Varint
  OBVIOUS
<1>3. \E g \in Wire!NodeInfo.fields : g.number = 2 /\ g.kind = Wire!User
  OBVIOUS
<1> QED BY <1>1, <1>2, <1>3

LEMMA MyNodeInfoFields ==
  /\ \A g \in Wire!MyNodeInfo.fields :
       /\ g.kind \in {Wire!Varint, Wire!Bytes, Wire!Text}
       /\ g.kind = Wire!Text <=> g.number = 13
  /\ \E g \in Wire!MyNodeInfo.fields : g.number = 1 /\ g.kind = Wire!Varint
  /\ \E g \in Wire!MyNodeInfo.fields : g.number = 13 /\ g.kind = Wire!Text
<1> USE MessageKind, AllField DEF Wire!MyNodeInfo
<1>1. \A g \in Wire!MyNodeInfo.fields : \/ g.kind \in {Wire!Varint, Wire!Bytes} /\ g.number # 13
                                        \/ g.kind = Wire!Text /\ g.number = 13
  OBVIOUS
<1>2. Wire!Text \notin {Wire!Varint, Wire!Bytes}
  BY ScalarKinds
<1>3. \E g \in Wire!MyNodeInfo.fields : g.number = 1 /\ g.kind = Wire!Varint
  OBVIOUS
<1>4. \E g \in Wire!MyNodeInfo.fields : g.number = 13 /\ g.kind = Wire!Text
  OBVIOUS
<1> QED BY <1>1, <1>2, <1>3, <1>4

LEMMA DataFields ==
  /\ \A g \in Wire!Data.fields : g.kind \in {Wire!Varint, Wire!Bytes, Wire!Fixed32}
  /\ \E g \in Wire!Data.fields : g.number = 1 /\ g.kind = Wire!Varint
  /\ \E g \in Wire!Data.fields : g.number = 2 /\ g.kind = Wire!Bytes
BY MessageKind, AllField DEF Wire!Data

LEMMA WaypointFields ==
  /\ \A g \in Wire!Waypoint.fields :
       /\ g.kind \in {Wire!Varint, Wire!Fixed32, Wire!Text}
       /\ g.kind = Wire!Text <=> g.number \in {6, 7}
  /\ \E g \in Wire!Waypoint.fields : g.number = 1 /\ g.kind = Wire!Varint
  /\ \E g \in Wire!Waypoint.fields : g.number = 6 /\ g.kind = Wire!Text
<1> USE MessageKind, AllField DEF Wire!Waypoint
<1>1. \A g \in Wire!Waypoint.fields : \/ g.kind \in {Wire!Varint, Wire!Fixed32} /\ g.number \notin {6, 7}
                                      \/ g.kind = Wire!Text /\ g.number \in {6, 7}
  OBVIOUS
<1>2. Wire!Text \notin {Wire!Varint, Wire!Fixed32}
  BY ScalarKinds
<1>3. \E g \in Wire!Waypoint.fields : g.number = 1 /\ g.kind = Wire!Varint
  OBVIOUS
<1>4. \E g \in Wire!Waypoint.fields : g.number = 6 /\ g.kind = Wire!Text
  OBVIOUS
<1> QED BY <1>1, <1>2, <1>3, <1>4

LEMMA TelemetryFields ==
  /\ \A g \in Wire!Telemetry.fields :
       \/ g.number = 1 /\ g.kind = Wire!Fixed32
       \/ g.kind \in {Wire!DeviceMetrics, Wire!EnvironmentMetrics, Wire!AirQualityMetrics,
                      Wire!PowerMetrics, Wire!LocalStats}
       \/ g.number \in {7, 8} /\ g.kind.wire = "len"
  /\ \A n \in 2..6 : \E g \in Wire!Telemetry.fields : g.number = n /\ g.kind.wire = "len"
<1> USE MessageKind, AllField DEF Wire!Telemetry
<1>1. ASSUME NEW g \in Wire!Telemetry.fields
      PROVE  \/ g.number = 1 /\ g.kind = Wire!Fixed32
             \/ g.kind \in {Wire!DeviceMetrics, Wire!EnvironmentMetrics, Wire!AirQualityMetrics,
                            Wire!PowerMetrics, Wire!LocalStats}
             \/ g.number = 7 /\ g.kind = Wire!HealthMetrics
             \/ g.number = 8 /\ g.kind = Wire!HostMetrics
  OBVIOUS
<1>2. Wire!HealthMetrics.wire = "len" /\ Wire!HostMetrics.wire = "len"
  BY DEF Wire!HealthMetrics, Wire!HostMetrics
<1>3. /\ \E g \in Wire!Telemetry.fields : g.number = 2 /\ g.kind = Wire!DeviceMetrics
      /\ \E g \in Wire!Telemetry.fields : g.number = 3 /\ g.kind = Wire!EnvironmentMetrics
      /\ \E g \in Wire!Telemetry.fields : g.number = 4 /\ g.kind = Wire!AirQualityMetrics
      /\ \E g \in Wire!Telemetry.fields : g.number = 5 /\ g.kind = Wire!PowerMetrics
      /\ \E g \in Wire!Telemetry.fields : g.number = 6 /\ g.kind = Wire!LocalStats
  OBVIOUS
<1>4. \A n \in 2..6 : \E g \in Wire!Telemetry.fields : g.number = n /\ g.kind.wire = "len"
  BY <1>3, OnlyNumbers
<1> QED BY <1>1, <1>2, <1>4

LEMMA MeshPacketFields ==
  /\ Wire!MeshPacket.what = "message"
  /\ \A f \in Wire!MeshPacket.fields : f.number \in 1..3 \cup {6, 7} => f.kind.wire # "len"
  /\ \E f \in Wire!MeshPacket.fields : f.number = 1 /\ f.kind = Wire!Fixed32
<1>1. \A f \in Wire!MeshPacket.fields :
        \/ f.kind \in {Wire!Fixed32, Wire!Varint}
        \/ f.number \in {4, 5, 16}
  BY MessageKind, AllField DEF Wire!MeshPacket
<1>2. Wire!MeshPacket.what = "message" /\ \E f \in Wire!MeshPacket.fields : f.number = 1 /\ f.kind = Wire!Fixed32
  BY MessageKind, AllField DEF Wire!MeshPacket
<1> QED BY <1>1, <1>2, ScalarKinds

-----------------------------------------------------------------------------
(* What becomes of a message of the radio that is read as another type.    *)

LEMMA FieldRange ==
  ASSUME NEW m \in FromRadio
  PROVE  m.field \in 2..17 /\ m.text \in Text
BY DEF FromRadio, Packets, MyInfos, NodeInfos, Others, PacketField, MyInfoField, NodeInfoField, Text

(* No name of a user is read out of a packet.                              *)
LEMMA PacketAsUser ==
  ASSUME NEW text
  PROVE  ~Refused(Wire!MeshPacket, Wire!User, text)
<1>1. Wire!MeshPacket # Wire!User
  BY MeshPacketFields, UserFields, ScalarKinds
<1>2. ASSUME NEW f \in Wire!MeshPacket.fields, NEW g \in Wire!User.fields, Taken(f, g)
      PROVE  g.kind.what # "text"
  BY <1>2, MeshPacketFields, UserFields, ScalarKinds DEF Taken
<1> QED BY <1>1, <1>2, MeshPacketFields, UserFields DEF Refused, RefusedAsText, RefusedAsMessage

LEMMA ReadAsNodeInfoSucceeds ==
  ASSUME NEW m \in FromRadio
  PROVE  /\ Reads(m, Wire!NodeInfo)
         /\ IsSet(m, Wire!NodeInfo, 1) <=> m.id # 0
         /\ IsSet(m, Wire!NodeInfo, 2) <=> m.field = 2
<1>1. ASSUME NEW f \in Wire!FromRadio.fields, NEW g \in Wire!NodeInfo.fields, Taken(f, g)
      PROVE  ~Refused(f.kind, g.kind, m.text)
  <2>1. CASE g.kind \in {Wire!Varint, Wire!Fixed32}
    BY <2>1, NotRefused, ScalarKinds
  <2>2. CASE g.kind \in {Wire!Position, Wire!DeviceMetrics}
    <3>1. f.kind.what = "message"
      BY <1>1, <2>2, OnlyNumbers, RadioFields, ScalarKinds DEF Taken
    <3> QED BY <2>2, <3>1, OnlyNumbers, NotRefused
  <2>3. CASE g.kind = Wire!User /\ g.number = 2
    BY <1>1, <2>3, RadioFields, PacketAsUser DEF Taken
  <2> QED BY <2>1, <2>2, <2>3, NodeInfoFields
<1>2. IsSet(m, Wire!NodeInfo, 1) <=> m.id # 0
  BY RadioSets, FieldRange, NodeInfoFields, ScalarKinds DEF RadioWire
<1>3. IsSet(m, Wire!NodeInfo, 2) <=> m.field = 2
  BY RadioSets, FieldRange, NodeInfoFields, UserFields DEF RadioWire
<1> QED BY <1>1, <1>2, <1>3 DEF Reads

LEMMA ReadAsMyNodeInfo ==
  ASSUME NEW m \in FromRadio
  PROVE  /\ Reads(m, Wire!MyNodeInfo) <=> (m.field = MetadataField => m.text = "plain")
         /\ IsSet(m, Wire!MyNodeInfo, 1) <=> m.id # 0
<1>1. ASSUME NEW f \in Wire!FromRadio.fields, NEW g \in Wire!MyNodeInfo.fields, Taken(f, g), f.number # 13
      PROVE  ~Refused(f.kind, g.kind, m.text)
  BY <1>1, MyNodeInfoFields, NotRefused, ScalarKinds DEF Taken
<1>2. ASSUME NEW f \in Wire!FromRadio.fields, NEW g \in Wire!MyNodeInfo.fields, f.number = 13, g.number = 13
      PROVE  Taken(f, g) /\ (Refused(f.kind, g.kind, m.text) <=> m.text # "plain")
  BY <1>2, MyNodeInfoFields, RadioFields, ScalarKinds DEF Taken, Refused, RefusedAsText, RefusedAsMessage
<1>3. /\ \E f \in Wire!FromRadio.fields : f.number = 13
      /\ \E g \in Wire!MyNodeInfo.fields : g.number = 13
  BY RadioHasFields, MyNodeInfoFields
<1>4. IsSet(m, Wire!MyNodeInfo, 1) <=> m.id # 0
  BY RadioSets, FieldRange, MyNodeInfoFields, ScalarKinds DEF RadioWire
<1>5. Reads(m, Wire!MyNodeInfo) <=> (m.field = MetadataField => m.text = "plain")
  BY <1>1, <1>2, <1>3 DEF Reads, Taken, MetadataField
<1> QED BY <1>4, <1>5

LEMMA ReadAsDataSucceeds ==
  ASSUME NEW m \in FromRadio
  PROVE  /\ Reads(m, Wire!Data)
         /\ IsSet(m, Wire!Data, 1) <=> m.id # 0
         /\ IsSet(m, Wire!Data, 2) <=> m.field = 2
<1>1. Reads(m, Wire!Data)
  BY DataFields, NotRefused, ScalarKinds DEF Reads
<1>2. IsSet(m, Wire!Data, 1) <=> m.id # 0
  BY RadioSets, FieldRange, DataFields, ScalarKinds DEF RadioWire
<1>3. IsSet(m, Wire!Data, 2) <=> m.field = 2
  BY RadioSets, FieldRange, DataFields, ScalarKinds DEF RadioWire
<1> QED BY <1>1, <1>2, <1>3

LEMMA ReadAsTelemetrySucceeds ==
  ASSUME NEW m \in FromRadio
  PROVE  /\ Reads(m, Wire!Telemetry)
         /\ (\E n \in 2..8 : IsSet(m, Wire!Telemetry, n)) <=> m.field \in 2..6
<1>1. ASSUME NEW f \in Wire!FromRadio.fields, NEW g \in Wire!Telemetry.fields, Taken(f, g)
      PROVE  ~Refused(f.kind, g.kind, m.text)
  <2>1. CASE g.kind = Wire!Fixed32
    BY <2>1, NotRefused, ScalarKinds
  <2>2. CASE g.kind \in {Wire!DeviceMetrics, Wire!EnvironmentMetrics, Wire!AirQualityMetrics,
                         Wire!PowerMetrics, Wire!LocalStats}
    <3>1. f.kind.what = "message"
      BY <1>1, <2>2, OnlyNumbers, RadioFields, ScalarKinds DEF Taken
    <3> QED BY <2>2, <3>1, OnlyNumbers, NotRefused
  <2>3. CASE g.number \in {7, 8} /\ g.kind.wire = "len"
    BY <1>1, <2>3, RadioFields, ScalarKinds DEF Taken
  <2> QED BY <2>1, <2>2, <2>3, TelemetryFields
<1>2. ASSUME NEW n \in 2..6 PROVE IsSet(m, Wire!Telemetry, n) <=> n = m.field
  <2>1. \E g \in Wire!Telemetry.fields : g.number = n /\ g.kind.wire = RadioWire(n)
    BY TelemetryFields DEF RadioWire
  <2>2. n \in 1..17 /\ n # 1
    OBVIOUS
  <2> QED BY <2>1, <2>2, RadioSets
<1>3. ASSUME NEW n \in {7, 8} PROVE ~IsSet(m, Wire!Telemetry, n)
  <2>1. \A g \in Wire!Telemetry.fields : g.kind.wire # "varint"
    BY TelemetryFields, OnlyNumbers, ScalarKinds
  <2>2. n \in 1..17 /\ RadioWire(n) = "varint"
    BY DEF RadioWire
  <2> QED BY <2>1, <2>2, RadioSets
<1> QED BY <1>1, <1>2, <1>3 DEF Reads

(* Of a packet nothing is taken as a waypoint.                             *)
LEMMA PacketAsWaypoint ==
  ASSUME NEW text
  PROVE  ~Refused(Wire!MeshPacket, Wire!Waypoint, text)
<1>1. ASSUME NEW f \in Wire!MeshPacket.fields, NEW g \in Wire!Waypoint.fields, Taken(f, g)
      PROVE  g.kind.what # "text"
  BY <1>1, MeshPacketFields, WaypointFields, ScalarKinds DEF Taken
<1>2. Wire!MeshPacket # Wire!Waypoint
  BY MeshPacketFields, WaypointFields, ScalarKinds
<1>3. Wire!Waypoint.what = "message"
  BY MessageKind DEF Wire!Waypoint
<1> QED BY <1>1, <1>2, <1>3, MeshPacketFields DEF Refused, RefusedAsText, RefusedAsMessage

LEMMA ReadAsWaypoint ==
  ASSUME NEW m \in FromRadio
  PROVE  /\ Reads(m, Wire!Waypoint) <=> (m.field = LogRecordField => m.text = "plain")
         /\ IsSet(m, Wire!Waypoint, 1) <=> m.id # 0
         /\ IsSet(m, Wire!Waypoint, 6) <=> m.field = LogRecordField
<1>1. ASSUME NEW f \in Wire!FromRadio.fields, NEW g \in Wire!Waypoint.fields, Taken(f, g), f.number # 6
      PROVE  ~Refused(f.kind, g.kind, m.text)
  BY <1>1, WaypointFields, RadioFields, NotRefused, ScalarKinds DEF Taken
<1>2. ASSUME NEW f \in Wire!FromRadio.fields, NEW g \in Wire!Waypoint.fields, f.number = 6, g.number = 6
      PROVE  Taken(f, g) /\ (Refused(f.kind, g.kind, m.text) <=> m.text # "plain")
  BY <1>2, WaypointFields, RadioFields, ScalarKinds DEF Taken, Refused, RefusedAsText, RefusedAsMessage
<1>3. /\ \E f \in Wire!FromRadio.fields : f.number = 6
      /\ \E g \in Wire!Waypoint.fields : g.number = 6
  BY RadioHasFields, WaypointFields
<1>4. IsSet(m, Wire!Waypoint, 1) <=> m.id # 0
  BY RadioSets, FieldRange, WaypointFields, ScalarKinds DEF RadioWire
<1>5. IsSet(m, Wire!Waypoint, 6) <=> m.field = LogRecordField
  BY RadioSets, FieldRange, WaypointFields, ScalarKinds DEF RadioWire, LogRecordField
<1>6. Reads(m, Wire!Waypoint) <=> (m.field = LogRecordField => m.text = "plain")
  BY <1>1, <1>2, <1>3 DEF Reads, Taken, LogRecordField
<1> QED BY <1>4, <1>5, <1>6

(* A variant of FromRadio is read as what it is, unless a text in it is    *)
(* ill-formed.                                                             *)
LEMMA VariantsHaveText == Wire!MyNodeInfo.hasText /\ Wire!NodeInfo.hasText
<1>1. Wire!MyNodeInfo.hasText
  <2>1. \E g \in Wire!MyNodeInfo.fields : g.kind.hasText
    BY MyNodeInfoFields, ScalarKinds
  <2> QED BY <2>1, MessageKind DEF Wire!MyNodeInfo
<1>2. \E g \in Wire!User.fields : g.kind.hasText
  <2>1. \E g \in Wire!User.fields : g.number = 1
    BY MessageKind, AllField, 1 \in 1..3 DEF Wire!User
  <2> QED BY <2>1, UserFields, ScalarKinds
<1>3. Wire!User.hasText
  BY <1>2, MessageKind DEF Wire!User
<1>4. Wire!NodeInfo.hasText
  <2>1. \E g \in Wire!NodeInfo.fields : g.kind.hasText
    BY <1>3, NodeInfoFields
  <2> QED BY <2>1, MessageKind DEF Wire!NodeInfo
<1> QED BY <1>1, <1>4

LEMMA ReadAsVariant ==
  ASSUME NEW m \in FromRadio
  PROVE  /\ Variant(m, NodeInfoField) <=> m.field = NodeInfoField /\ Parses(m)
         /\ Variant(m, MyInfoField) <=> m.field = MyInfoField /\ Parses(m)
         /\ Variant(m, PacketField) <=> m.field = PacketField
<1>1. ASSUME NEW n \in {2, 3, 4}, m.field = n, m.text = "bad" => n # 2
      PROVE  Reads(m, Wire!FromRadio) <=> m.text # "bad"
  <2>1. ASSUME NEW f \in Wire!FromRadio.fields, NEW g \in Wire!FromRadio.fields, f.number = n, g.number = n
        PROVE  /\ f.kind = g.kind /\ Taken(f, g) /\ f.kind.what = "message"
               /\ n # 2 => f.kind.hasText
    BY <2>1, RadioFields, VariantsHaveText DEF Taken
  <2>2. ASSUME NEW f \in Wire!FromRadio.fields, NEW g \in Wire!FromRadio.fields, f.number = n, g.number = n
        PROVE  Refused(f.kind, g.kind, m.text) <=> m.text = "bad"
    BY <1>1, <2>1, <2>2 DEF Refused, RefusedAsText, RefusedAsMessage
  <2>3. \E f \in Wire!FromRadio.fields : f.number = n
    BY RadioHasFields
  <2> QED BY <1>1, <2>1, <2>2, <2>3 DEF Reads, Taken
<1>2. m.field = PacketField => m.text # "bad"
  BY DEF FromRadio, Packets, MyInfos, NodeInfos, Others, PacketField, MyInfoField, NodeInfoField
<1> QED BY <1>1, <1>2 DEF Variant, Parses, PacketField, MyInfoField, NodeInfoField

-----------------------------------------------------------------------------
(* Decoder by decoder.                                                     *)
LEMMA InfoDecodersFollow ==
  ASSUME NEW m \in FromRadio, NEW v \in Versions
  PROVE  /\ (DecodeNodeInfo(m, v) # {}) <=> AcceptsNodeInfo(m)
         /\ (DecodeMyInfo(m, v) # {}) <=> v # "2.1" /\ AcceptsMyInfo(m)
<1>1. (DecodeNodeInfo(m, v) # {}) <=> AcceptsNodeInfo(m)
  BY ReadAsVariant, ReadAsNodeInfoSucceeds DEF DecodeNodeInfo, AcceptsNodeInfo, Supported, Versions, PacketField
<1>2. (DecodeMyInfo(m, v) # {}) <=> v # "2.1" /\ AcceptsMyInfo(m)
  BY ReadAsVariant, ReadAsMyNodeInfo DEF DecodeMyInfo, AcceptsMyInfo, Versions
<1> QED BY <1>1, <1>2

LEMMA PortDecodersFollow ==
  ASSUME NEW m \in FromRadio, NEW v \in Versions
  PROVE  /\ (DecodeText(m, v) # {}) <=> AcceptsPort(m, TextPort)
         /\ (DecodeAdmin(m, v) # {}) <=> AcceptsPort(m, AdminPort)
         /\ (DecodeAlert(m, v) # {}) <=> AcceptsPort(m, AlertPort)
<1>1. ASSUME NEW port \in {TextPort, AdminPort, AlertPort}
      PROVE  AcceptsPort(m, port) <=> IsPacket(m, port) \/ m.id = port
  BY <1>1, ReadAsVariant, ReadAsDataSucceeds
     DEF AcceptsPort, ReadsAsData, IsPacket, TextPort, AdminPort, AlertPort
<1> QED BY <1>1 DEF DecodeText, DecodeAdmin, DecodeAlert, Payload, Supported, Versions

LEMMA PayloadDecodersFollow ==
  ASSUME NEW m \in FromRadio, NEW v \in Versions
  PROVE  /\ (DecodeTelemetry(m, v) # {}) <=> AcceptsTelemetry(m)
         /\ (DecodeWaypoint(m, v) # {}) <=> AcceptsWaypoint(m)
<1>1. ASSUME NEW port
      PROVE  PayloadFits(m, port) <=> IsPacket(m, port) /\ m.valid
  BY ReadAsVariant DEF PayloadFits, IsPacket
<1>2. (DecodeTelemetry(m, v) # {}) <=> AcceptsTelemetry(m)
  BY <1>1, ReadAsTelemetrySucceeds DEF DecodeTelemetry, AcceptsTelemetry, ReadsAsTelemetry, Supported, Versions
<1>3. ReadsAsData(m, WaypointPort) <=> m.id = WaypointPort
  BY ReadAsDataSucceeds DEF ReadsAsData, WaypointPort
<1>4. AcceptsWaypoint(m) <=> \/ IsPacket(m, WaypointPort) /\ m.valid
                             \/ m.id = WaypointPort
                             \/ /\ m.field = LogRecordField => m.text = "plain"
                                /\ m.id # 0 \/ m.field = LogRecordField
  BY <1>1, <1>3, PacketAsWaypoint, ReadAsWaypoint DEF AcceptsWaypoint
<1>5. (DecodeWaypoint(m, v) # {}) <=> AcceptsWaypoint(m)
  BY <1>4 DEF DecodeWaypoint, Supported, Versions
<1> QED BY <1>2, <1>5

(* Each decoder accepts the messages that the schemas let it accept, and   *)
(* no others (nodeinfo.go 28-35, myinfo.go 23-30, messages.go 36-121).     *)
THEOREM DecodersFollow == Spec => []DecodersFollowSchemas
<1>1. ASSUME Read PROVE DecodersFollowSchemas
  <2> SUFFICES ASSUME message # << >>
               PROVE  /\ (DecodeNodeInfo(message, version) # {}) = AcceptsNodeInfo(message)
                      /\ (DecodeMyInfo(message, version) # {}) = (version # "2.1" /\ AcceptsMyInfo(message))
                      /\ (DecodeText(message, version) # {}) = AcceptsPort(message, TextPort)
                      /\ (DecodeAdmin(message, version) # {}) = AcceptsPort(message, AdminPort)
                      /\ (DecodeAlert(message, version) # {}) = AcceptsPort(message, AlertPort)
                      /\ (DecodeTelemetry(message, version) # {}) = AcceptsTelemetry(message)
                      /\ (DecodeWaypoint(message, version) # {}) = AcceptsWaypoint(message)
    BY DEF DecodersFollowSchemas
  <2>1. message \in FromRadio /\ version \in Versions
    BY <1>1 DEF Read
  <2>2. AcceptsNodeInfo(message) \in BOOLEAN /\ AcceptsMyInfo(message) \in BOOLEAN
    BY DEF AcceptsNodeInfo, AcceptsMyInfo
  <2>3. \A port : AcceptsPort(message, port) \in BOOLEAN
    BY DEF AcceptsPort
  <2>4. AcceptsTelemetry(message) \in BOOLEAN /\ AcceptsWaypoint(message) \in BOOLEAN
    BY DEF AcceptsTelemetry, AcceptsWaypoint
  <2>5. /\ (DecodeNodeInfo(message, version) # {}) = AcceptsNodeInfo(message)
        /\ (DecodeMyInfo(message, version) # {}) = (version # "2.1" /\ AcceptsMyInfo(message))
    BY <2>1, <2>2, InfoDecodersFollow
  <2>6. /\ (DecodeText(message, version) # {}) = AcceptsPort(message, TextPort)
        /\ (DecodeAdmin(message, version) # {}) = AcceptsPort(message, AdminPort)
        /\ (DecodeAlert(message, version) # {}) = AcceptsPort(message, AlertPort)
    BY <2>1, <2>3, PortDecodersFollow
  <2>7. /\ (DecodeTelemetry(message, version) # {}) = AcceptsTelemetry(message)
        /\ (DecodeWaypoint(message, version) # {}) = AcceptsWaypoint(message)
    BY <2>1, <2>4, PayloadDecodersFollow
  <2> QED BY <2>5, <2>6, <2>7
<1>2. Read => DecodersFollowSchemas
  BY <1>1
<1> QED
  BY <1>2, ReadInvariant, PTL
=============================================================================
