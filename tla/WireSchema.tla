------------------------------ MODULE WireSchema ------------------------------
(***************************************************************************)
(* The encoding of the radio's messages: for every generated type that a   *)
(* FromRadio message or the payload of a decoded packet is made of, the    *)
(* numbers and kinds of its fields (proto/latest/meshtastic).              *)
(*                                                                         *)
(* A kind is what proto.Unmarshal tells apart: the wire type, which must   *)
(* be the expected one or the field is skipped; what it makes of a field   *)
(* of length-delimited bytes, where text has to be valid UTF-8 or the      *)
(* whole message is refused, and a message has to parse; and whether text  *)
(* can be found inside.                                                    *)
(*                                                                         *)
(* Of a generated type a table stands for the tags of the struct and of    *)
(* the wrappers of its oneof, and for the methods by which proto.Unmarshal *)
(* finds them. The programs read ten of the types through getters as well  *)
(* (FromRadio, MeshPacket, Data, NodeInfo, MyNodeInfo, User, Position,     *)
(* Telemetry, DeviceMetrics, Waypoint): those return the field's value, or *)
(* 0 or nil if it is not set, and hence need nothing but the kind (IsSet   *)
(* of PacketSchemas).                                                      *)
(***************************************************************************)
EXTENDS Integers

Scalar(wire, what) ==
  [wire |-> wire, what |-> what, hasText |-> what = "text", fields |-> {}]

Varint  == Scalar("varint", "number")
Fixed32 == Scalar("fixed32", "number")
Packed  == Scalar("len", "numbers")
Bytes   == Scalar("len", "bytes")
Text    == Scalar("len", "text")

Message(fields) ==
  [wire |-> "len", what |-> "message", fields |-> fields,
   hasText |-> \E f \in fields : f.kind.hasText]

(* Fields of the same kind.                                                *)
All(numbers, kind) == [number : numbers, kind : {kind}]

-----------------------------------------------------------------------------
(* Packets and nodes (mesh.pb.go, telemetry.pb.go).                        *)
Data == Message(All({1, 3, 9}, Varint) \cup All({2}, Bytes) \cup All(4..8, Fixed32))
MeshPacket ==
  Message(All((6..8) \cup {1, 2}, Fixed32) \cup
          All((9..15) \cup (17..20) \cup {3}, Varint) \cup All({5, 16}, Bytes) \cup
          All({4}, Data))
MyNodeInfo ==
  Message(All({1, 8, 11}, Varint) \cup All({12}, Bytes) \cup All({13}, Text))
User ==
  Message(All(1..3, Text) \cup All({4, 8}, Bytes) \cup All((5..7) \cup {9}, Varint))
Position ==
  Message(All({1, 2, 4, 7}, Fixed32) \cup All((8..23) \cup {3, 5, 6}, Varint))
DeviceMetrics == Message(All({1, 5}, Varint) \cup All(2..4, Fixed32))
NodeInfo ==
  Message(All((7..12) \cup {1}, Varint) \cup All({4, 5}, Fixed32) \cup All({2}, User) \cup
          All({3}, Position) \cup All({6}, DeviceMetrics))

-----------------------------------------------------------------------------
(* The configuration of the device (config.pb.go, device_ui.pb.go).        *)
Config_DeviceConfig ==
  Message(All((4..10) \cup {1, 2, 12, 13}, Varint) \cup All({11}, Text))
Config_PositionConfig == Message(All(1..13, Varint))
Config_PowerConfig ==
  Message(All((6..9) \cup {1, 2, 4, 32}, Varint) \cup All({3}, Fixed32))
Config_NetworkConfig_IpV4Config == Message(All(1..4, Fixed32))
Config_NetworkConfig ==
  Message(All({1, 6, 7, 10, 11}, Varint) \cup All((3..5) \cup {9}, Text) \cup
          All({8}, Config_NetworkConfig_IpV4Config))
Config_DisplayConfig == Message(All(1..12, Varint))
Config_LoRaConfig ==
  Message(All((1..5) \cup (7..13) \cup {15, 104, 105}, Varint) \cup
          All({6, 14}, Fixed32) \cup All({103}, Packed))
Config_BluetoothConfig == Message(All(1..3, Varint))
Config_SecurityConfig == Message(All(1..3, Bytes) \cup All((4..6) \cup {8}, Varint))
Config_SessionkeyConfig == Message({})
NodeFilter == Message(All((1..5) \cup {7}, Varint) \cup All({6}, Text))
NodeHighlight == Message(All(1..4, Varint) \cup All({5}, Text))
GeoPoint == Message(All(1..3, Varint))
Map == Message(All({2}, Text) \cup All({3}, Varint) \cup All({1}, GeoPoint))
DeviceUIConfig ==
  Message(All((1..11) \cup (16..18), Varint) \cup All({14}, Bytes) \cup
          All({12}, NodeFilter) \cup All({13}, NodeHighlight) \cup All({15}, Map))
Config ==
  Message(All({1}, Config_DeviceConfig) \cup All({2}, Config_PositionConfig) \cup
          All({3}, Config_PowerConfig) \cup All({4}, Config_NetworkConfig) \cup
          All({5}, Config_DisplayConfig) \cup All({6}, Config_LoRaConfig) \cup
          All({7}, Config_BluetoothConfig) \cup All({8}, Config_SecurityConfig) \cup
          All({9}, Config_SessionkeyConfig) \cup All({10}, DeviceUIConfig))

-----------------------------------------------------------------------------
(* A record of the log (mesh.pb.go).                                       *)
LogRecord == Message(All({1, 3}, Text) \cup All({2}, Fixed32) \cup All({4}, Varint))

-----------------------------------------------------------------------------
(* The configuration of its modules (module_config.pb.go).                 *)
ModuleConfig_MapReportSettings == Message(All(1..3, Varint))
ModuleConfig_MQTTConfig ==
  Message(All((5..7) \cup {1, 9, 10}, Varint) \cup All((2..4) \cup {8}, Text) \cup
          All({11}, ModuleConfig_MapReportSettings))
ModuleConfig_SerialConfig == Message(All(1..8, Varint))
ModuleConfig_ExternalNotificationConfig == Message(All(1..15, Varint))
ModuleConfig_StoreForwardConfig == Message(All(1..6, Varint))
ModuleConfig_RangeTestConfig == Message(All(1..3, Varint))
ModuleConfig_TelemetryConfig == Message(All(1..13, Varint))
ModuleConfig_CannedMessageConfig ==
  Message(All((1..9) \cup {11}, Varint) \cup All({10}, Text))
ModuleConfig_AudioConfig == Message(All(1..7, Varint))
RemoteHardwarePin == Message(All({1, 3}, Varint) \cup All({2}, Text))
ModuleConfig_RemoteHardwareConfig ==
  Message(All({1, 2}, Varint) \cup All({3}, RemoteHardwarePin))
ModuleConfig_NeighborInfoConfig == Message(All(1..3, Varint))
ModuleConfig_AmbientLightingConfig == Message(All(1..5, Varint))
ModuleConfig_DetectionSensorConfig ==
  Message(All((1..4) \cup (6..8), Varint) \cup All({5}, Text))
ModuleConfig_PaxcounterConfig == Message(All(1..4, Varint))
ModuleConfig ==
  Message(All({1}, ModuleConfig_MQTTConfig) \cup All({2}, ModuleConfig_SerialConfig) \cup
          All({3}, ModuleConfig_ExternalNotificationConfig) \cup
          All({4}, ModuleConfig_StoreForwardConfig) \cup
          All({5}, ModuleConfig_RangeTestConfig) \cup
          All({6}, ModuleConfig_TelemetryConfig) \cup
          All({7}, ModuleConfig_CannedMessageConfig) \cup
          All({8}, ModuleConfig_AudioConfig) \cup
          All({9}, ModuleConfig_RemoteHardwareConfig) \cup
          All({10}, ModuleConfig_NeighborInfoConfig) \cup
          All({11}, ModuleConfig_AmbientLightingConfig) \cup
          All({12}, ModuleConfig_DetectionSensorConfig) \cup
          All({13}, ModuleConfig_PaxcounterConfig))

-----------------------------------------------------------------------------
(* Channels (channel.pb.go).                                               *)
ModuleSettings == Message(All({1, 2}, Varint))
ChannelSettings ==
  Message(All({1, 5, 6}, Varint) \cup All({2}, Bytes) \cup All({3}, Text) \cup
          All({4}, Fixed32) \cup All({7}, ModuleSettings))
Channel == Message(All({1, 3}, Varint) \cup All({2}, ChannelSettings))

-----------------------------------------------------------------------------
(* The other variants of FromRadio (mesh.pb.go, xmodem.pb.go).             *)
QueueStatus == Message(All(1..4, Varint))
XModem == Message(All(1..3, Varint) \cup All({4}, Bytes))
DeviceMetadata == Message(All({1}, Text) \cup All(2..12, Varint))
MqttClientProxyMessage ==
  Message(All({1, 3}, Text) \cup All({2}, Bytes) \cup All({4}, Varint))
FileInfo == Message(All({1}, Text) \cup All({2}, Varint))
KeyVerificationNumberInform == Message(All({1, 3}, Varint) \cup All({2}, Text))
KeyVerificationNumberRequest == Message(All({1}, Varint) \cup All({2}, Text))
KeyVerificationFinal == Message(All({1, 3}, Varint) \cup All({2, 4}, Text))
DuplicatedPublicKey == Message({})
LowEntropyKey == Message({})
ClientNotification ==
  Message(All({1, 3}, Varint) \cup All({2}, Fixed32) \cup All({4}, Text) \cup
          All({11}, KeyVerificationNumberInform) \cup
          All({12}, KeyVerificationNumberRequest) \cup All({13}, KeyVerificationFinal) \cup
          All({14}, DuplicatedPublicKey) \cup All({15}, LowEntropyKey))

-----------------------------------------------------------------------------
(* What the radio sends (mesh.pb.go): its variants are the fields 2 to 17. *)
FromRadio ==
  Message(All({1, 7, 8}, Varint) \cup All({2}, MeshPacket) \cup All({3}, MyNodeInfo) \cup
          All({4}, NodeInfo) \cup All({5}, Config) \cup All({6}, LogRecord) \cup
          All({9}, ModuleConfig) \cup All({10}, Channel) \cup All({11}, QueueStatus) \cup
          All({12}, XModem) \cup All({13}, DeviceMetadata) \cup
          All({14}, MqttClientProxyMessage) \cup All({15}, FileInfo) \cup
          All({16}, ClientNotification) \cup All({17}, DeviceUIConfig))

-----------------------------------------------------------------------------
(* Payloads of packets (telemetry.pb.go, mesh.pb.go).                      *)
EnvironmentMetrics ==
  Message(All((1..6) \cup (8..12) \cup (14..20) \cup {22}, Fixed32) \cup
          All({7, 13, 21}, Varint))
AirQualityMetrics == Message(All(1..13, Varint) \cup All({14, 15}, Fixed32))
PowerMetrics == Message(All(1..16, Fixed32))
LocalStats == Message(All((4..13) \cup {1}, Varint) \cup All({2, 3}, Fixed32))
HealthMetrics == Message(All({1, 2}, Varint) \cup All({3}, Fixed32))
HostMetrics == Message(All(1..8, Varint) \cup All({9}, Text))
Telemetry ==
  Message(All({1}, Fixed32) \cup All({2}, DeviceMetrics) \cup All({3}, EnvironmentMetrics) \cup
          All({4}, AirQualityMetrics) \cup All({5}, PowerMetrics) \cup All({6}, LocalStats) \cup
          All({7}, HealthMetrics) \cup All({8}, HostMetrics))
Waypoint ==
  Message(All({1, 4, 5}, Varint) \cup All({2, 3, 8}, Fixed32) \cup All({6, 7}, Text))
=============================================================================
