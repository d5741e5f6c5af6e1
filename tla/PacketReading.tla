----------------------------- MODULE PacketReading -----------------------------
(***************************************************************************)
(* Messages of the radio read one after the other, as frames or as framed  *)
(* lines, with the protocol version readLoop was started with: the state   *)
(* machine over which the properties of PacketDispatch are checked.        *)
(***************************************************************************)
EXTENDS PacketDispatch

VARIABLES version,   \* chosen at start-up from the firmware version
          message,   \* the last message, << >> before the first
          asLine,    \* whether it came as a line
          callbacks  \* the callbacks it got

vars == <<version, message, asLine, callbacks>>

Init == /\ version \in Versions
        /\ message = << >>
        /\ asLine = FALSE
        /\ callbacks = {}

ReadFrame(m) == /\ message' = m
                /\ asLine' = FALSE
                /\ callbacks' = DispatchFrame(m, version)
                /\ UNCHANGED version

ReadLine(m) == /\ message' = m
               /\ asLine' = TRUE
               /\ callbacks' = DispatchLine(m, version)
               /\ UNCHANGED version

Next == \E m \in FromRadio : ReadFrame(m) \/ ReadLine(m)

Spec == Init /\ [][Next]_vars

-----------------------------------------------------------------------------
Called(callback) == {c[2] : c \in {d \in callbacks : d[1] = callback}}

FrameRead == message # << >> /\ ~asLine /\ Supported(version)

TypeOK == /\ version \in Versions
          /\ message \in FromRadio \cup {<< >>}
          /\ asLine \in BOOLEAN
          /\ \A c \in callbacks :
               /\ c[1] \in {"nodeInfo", "myInfo", "text", "telemetry", "waypoint", "admin", "alert"}
               /\ c[1] \in {"text", "telemetry", "admin", "alert"} => c[2] \in Content \cup {Nothing, Wrapped, Misread}
          /\ \A info \in Called("nodeInfo") :
               info.num \in Node \cup Id /\ info.place \in Place /\ (info.num # 0 \/ info.user.set)

(* The kinds that matter to the node tables and to the reader of the log   *)
(* reach their callback with what they say, and with nothing else, although *)
(* every decoder also accepts some messages of other kinds: neither what a *)
(* decoder tried earlier makes of the same bytes (serial.go 199-219), nor  *)
(* what a decoder makes of the whole message takes the place of a packet's *)
(* own payload (messages.go 36-52, 68-82).  A message whose text is        *)
(* ill-formed is not one of them.                                          *)
FramesReachCallbacks ==
  FrameRead /\ Parses(message) =>
    /\ message.field = NodeInfoField => Called("nodeInfo") = {message.info}
    /\ message.field = MyInfoField /\ version # "2.1" => Called("myInfo") = {message.num}
    /\ IsPacket(message, TextPort) => Called("text") = {message.content}
    /\ IsPacket(message, TelemetryPort) /\ message.valid /\ message.id # TextPort
         => Called("telemetry") = {message.content}

(* A message that proto.Unmarshal refuses is read as something else, but   *)
(* never leaves a name or a place behind: at most its id as the number of  *)
(* a node or a waypoint (nodeinfo.go 28-35, messages.go 96-118).           *)
IllFormedTextForgesNothing ==
  message # << >> /\ ~Parses(message) =>
    /\ \A info \in Called("nodeInfo") :
         info.num = message.id /\ info.user = NoUser /\ info.place = NoPlace
    /\ Called("myInfo") \subseteq {message.id}
    /\ Called("waypoint") \subseteq {NoPlace}

(* serial.go 23 promises callbacks for waypoint, admin and alert messages. *)
PacketsReachTheirCallback ==
  FrameRead /\ message.field = PacketField /\ message.id = 0 /\ message.valid =>
    /\ message.port = WaypointPort => Called("waypoint") = {message.place}
    /\ message.port = AdminPort => Called("admin") = {message.content}
    /\ message.port = AlertPort => Called("alert") = {message.content}
=============================================================================
