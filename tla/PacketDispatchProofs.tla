-------------------------- MODULE PacketDispatchProofs --------------------------
(***************************************************************************)
(* Lemmas about the decoders and their order, for any ids, nodes, names and *)
(* contents.                                                               *)
(***************************************************************************)
EXTENDS PacketDispatch, SequenceTheorems, TLAPS

LEMMA LeastOfSix ==
  ASSUME NEW S \in SUBSET (1..6), S # {}
  PROVE  \E i \in S : \A j \in S : i <= j
<1>1. \A i \in S : i \in {1, 2, 3, 4, 5, 6}
  BY 1..6 = {1, 2, 3, 4, 5, 6}
<1>2. CASE 1 \in S
  BY <1>1, <1>2
<1>3. CASE 1 \notin S /\ 2 \in S
  BY <1>1, <1>3
<1>4. CASE 1 \notin S /\ 2 \notin S /\ 3 \in S
  BY <1>1, <1>4
<1>5. CASE 1 \notin S /\ 2 \notin S /\ 3 \notin S /\ 4 \in S
  BY <1>1, <1>5
<1>6. CASE 1 \notin S /\ 2 \notin S /\ 3 \notin S /\ 4 \notin S /\ 5 \in S
  BY <1>1, <1>6
<1>7. CASE 1 \notin S /\ 2 \notin S /\ 3 \notin S /\ 4 \notin S /\ 5 \notin S
  <2>1. PICK i \in S : TRUE
    OBVIOUS
  <2>2. \A j \in S : j = 6 /\ i <= j
    BY <1>1, <1>7, 6 <= 6
  <2> QED
    BY <2>1, <2>2
<1> QED
  BY <1>2, <1>3, <1>4, <1>5, <1>6, <1>7

(* What FirstOf returns is of an alternative before which none holds       *)
(* anything.                                                               *)
LEMMA FirstOfIsFirst ==
  ASSUME NEW alternatives, DOMAIN alternatives \in SUBSET (1..6),
         NEW c \in FirstOf(alternatives)
  PROVE  \E i \in DOMAIN alternatives :
           /\ c \in alternatives[i]
           /\ \A j \in DOMAIN alternatives : alternatives[j] # {} => i <= j
<1> DEFINE hits == {i \in DOMAIN alternatives : alternatives[i] # {}}
<1>1. hits # {} /\ c \in alternatives[CHOOSE i \in hits : \A j \in hits : i <= j]
  BY DEF FirstOf
<1>2. \E i \in hits : \A j \in hits : i <= j
  BY <1>1, LeastOfSix
<1> QED
  BY <1>1, <1>2

(* What the decoders of packets return.                                    *)
Contents(m, v) == DecodeText(m, v) \cup DecodeTelemetry(m, v) \cup DecodeAdmin(m, v) \cup DecodeAlert(m, v)
WithContent == {"text", "telemetry", "admin", "alert"}

(* What is called for a message, and that a waypoint is only called when   *)
(* telemetry could not be decoded.                                         *)
LEMMA FrameCalls ==
  ASSUME NEW m, NEW v, NEW c \in DispatchFrame(m, v)
  PROVE  /\ c[1] \in {"nodeInfo", "myInfo", "text", "telemetry", "waypoint", "admin", "alert"}
         /\ c[1] = "nodeInfo" => c[2] \in DecodeNodeInfo(m, v)
         /\ c[1] = "myInfo" => c[2] \in DecodeMyInfo(m, v)
         /\ c[1] = "waypoint" => c[2] \in DecodeWaypoint(m, v) /\ DecodeTelemetry(m, v) = {}
         /\ c[1] \in WithContent => c[2] \in Contents(m, v)
<1>1. \A callback, results : \A d \in Calls(callback, results) : d[1] = callback /\ d[2] \in results
  BY DEF Calls
<1>2. \A callback, results : results # {} => Calls(callback, results) # {}
  BY DEF Calls
<1>3. CASE c \in Calls("nodeInfo", DecodeNodeInfo(m, v)) \/ c \in Calls("myInfo", DecodeMyInfo(m, v))
  <2>1. /\ "nodeInfo" # "myInfo" /\ "nodeInfo" # "waypoint" /\ "myInfo" # "waypoint"
        /\ "nodeInfo" \notin WithContent /\ "myInfo" \notin WithContent
    BY DEF WithContent
  <2>2. \/ c[1] = "nodeInfo" /\ c[2] \in DecodeNodeInfo(m, v)
        \/ c[1] = "myInfo" /\ c[2] \in DecodeMyInfo(m, v)
    BY <1>1, <1>3
  <2> QED
    BY <2>1, <2>2
<1>4. CASE c \in FirstOf(Typed(m, v))
  <2> DEFINE text == Calls("text", DecodeText(m, v))
             telemetry == Calls("telemetry", DecodeTelemetry(m, v))
             waypoint == Calls("waypoint", DecodeWaypoint(m, v))
             admin == Calls("admin", DecodeAdmin(m, v))
             alert == Calls("alert", DecodeAlert(m, v))
             typed == <<text, telemetry, waypoint, admin, alert>>
  <2>1. Typed(m, v) = typed
    BY DEF Typed
  <2>2. /\ \A d \in text : d[1] = "text" /\ d[2] \in Contents(m, v)
        /\ \A d \in telemetry : d[1] = "telemetry" /\ d[2] \in Contents(m, v)
        /\ \A d \in waypoint : d[1] = "waypoint" /\ d[2] \in DecodeWaypoint(m, v)
        /\ \A d \in admin : d[1] = "admin" /\ d[2] \in Contents(m, v)
        /\ \A d \in alert : d[1] = "alert" /\ d[2] \in Contents(m, v)
        /\ DecodeTelemetry(m, v) # {} => telemetry # {}
    BY <1>1, <1>2 DEF Contents
  <2> HIDE DEF text, telemetry, waypoint, admin, alert
  <2>3. /\ DOMAIN typed = 1..5
        /\ typed[1] = text /\ typed[2] = telemetry /\ typed[3] = waypoint /\ typed[4] = admin /\ typed[5] = alert
    OBVIOUS
  <2> HIDE DEF typed
  <2>4. PICK i \in 1..5 : /\ c \in typed[i]
                          /\ \A j \in 1..5 : typed[j] # {} => i <= j
    BY <1>4, <2>1, <2>3, FirstOfIsFirst
  <2>5. i = 1 \/ i = 2 \/ i = 3 \/ i = 4 \/ i = 5
    OBVIOUS
  <2>6. c[1] \in {"text", "telemetry", "waypoint", "admin", "alert"}
    BY <2>2, <2>3, <2>4, <2>5
  <2>7. ASSUME c[1] = "waypoint" PROVE i = 3
    BY <2>2, <2>3, <2>4, <2>5, <2>7
  <2>8. ASSUME c[1] = "waypoint" PROVE telemetry = {} /\ c[2] \in DecodeWaypoint(m, v)
    BY <2>2, <2>3, <2>4, <2>7, <2>8
  <2>9. ASSUME c[1] \in WithContent PROVE c[2] \in Contents(m, v)
    BY <2>2, <2>3, <2>4, <2>5, <2>9 DEF WithContent
  <2> QED
    BY <2>2, <2>6, <2>8, <2>9
<1> QED
  BY <1>3, <1>4 DEF DispatchFrame

LEMMA LineCalls ==
  ASSUME NEW m, NEW v, NEW c \in DispatchLine(m, v)
  PROVE  /\ c[1] \in {"nodeInfo", "text", "telemetry", "waypoint", "admin", "alert"}
         /\ c[1] = "nodeInfo" => c[2] \in DecodeNodeInfo(m, v)
         /\ c[1] # "myInfo"
         /\ c[1] = "waypoint" => c[2] \in DecodeWaypoint(m, v) /\ DecodeTelemetry(m, v) = {}
         /\ c[1] \in WithContent => c[2] \in Contents(m, v)
<1> DEFINE info == Calls("nodeInfo", DecodeNodeInfo(m, v))
           text == Calls("text", DecodeText(m, v))
           telemetry == Calls("telemetry", DecodeTelemetry(m, v))
           waypoint == Calls("waypoint", DecodeWaypoint(m, v))
           admin == Calls("admin", DecodeAdmin(m, v))
           alert == Calls("alert", DecodeAlert(m, v))
           line == <<info, telemetry, waypoint, admin, alert, text>>
<1>1. \A callback, results : \A d \in Calls(callback, results) : d[1] = callback /\ d[2] \in results
  BY DEF Calls
<1>2. \A callback, results : results # {} => Calls(callback, results) # {}
  BY DEF Calls
<1>3. /\ \A d \in info : d[1] = "nodeInfo" /\ d[2] \in DecodeNodeInfo(m, v)
      /\ \A d \in text : d[1] = "text" /\ d[2] \in Contents(m, v)
      /\ \A d \in telemetry : d[1] = "telemetry" /\ d[2] \in Contents(m, v)
      /\ \A d \in waypoint : d[1] = "waypoint" /\ d[2] \in DecodeWaypoint(m, v)
      /\ \A d \in admin : d[1] = "admin" /\ d[2] \in Contents(m, v)
      /\ \A d \in alert : d[1] = "alert" /\ d[2] \in Contents(m, v)
      /\ DecodeTelemetry(m, v) # {} => telemetry # {}
  BY <1>1, <1>2 DEF Contents
<1>4. Typed(m, v) = <<text, telemetry, waypoint, admin, alert>>
  BY DEF Typed
<1>5. DispatchLine(m, v) = FirstOf(<<info, Typed(m, v)[2], Typed(m, v)[3], Typed(m, v)[4], Typed(m, v)[5], Typed(m, v)[1]>>)
  BY DEF DispatchLine
<1> HIDE DEF info, text, telemetry, waypoint, admin, alert
<1>6. DispatchLine(m, v) = FirstOf(line)
  BY <1>4, <1>5
<1>7. /\ DOMAIN line = 1..6
      /\ line[1] = info /\ line[2] = telemetry /\ line[3] = waypoint
      /\ line[4] = admin /\ line[5] = alert /\ line[6] = text
  OBVIOUS
<1> HIDE DEF line
<1>8. PICK i \in 1..6 : /\ c \in line[i]
                        /\ \A j \in 1..6 : line[j] # {} => i <= j
  BY <1>6, <1>7, FirstOfIsFirst
<1>9. i = 1 \/ i = 2 \/ i = 3 \/ i = 4 \/ i = 5 \/ i = 6
  OBVIOUS
<1>10. /\ c[1] \in {"nodeInfo", "text", "telemetry", "waypoint", "admin", "alert"}
       /\ c[1] = "nodeInfo" => c[2] \in DecodeNodeInfo(m, v)
  BY <1>3, <1>7, <1>8, <1>9
<1>11. ASSUME c[1] = "waypoint" PROVE i = 3
  BY <1>3, <1>7, <1>8, <1>9, <1>11
<1>12. ASSUME c[1] = "waypoint" PROVE telemetry = {} /\ c[2] \in DecodeWaypoint(m, v)
  BY <1>3, <1>7, <1>8, <1>11, <1>12
<1>13. ASSUME c[1] \in WithContent PROVE c[2] \in Contents(m, v)
  BY <1>3, <1>7, <1>8, <1>9, <1>13 DEF WithContent
<1> QED
  BY <1>3, <1>10, <1>12, <1>13

(* What the results of the decoders are made of.                           *)
LEMMA MessageFields ==
  ASSUME NEW m \in FromRadio
  PROVE  /\ m.id \in Id
         /\ m.field = NodeInfoField => m.info \in NodeInfo
         /\ m.field = MyInfoField => m.num \in Node
         /\ m.field = PacketField => m.content \in Content
<1>1. CASE m \in Packets
  BY <1>1 DEF Packets, PacketField, NodeInfoField, MyInfoField
<1>2. CASE m \in MyInfos
  BY <1>2 DEF MyInfos, NodeInfoField, MyInfoField, PacketField
<1>3. CASE m \in NodeInfos
  BY <1>3 DEF NodeInfos, NodeInfoField, MyInfoField, PacketField
<1>4. CASE m \in Others
  BY <1>4 DEF Others, NodeInfoField, MyInfoField, PacketField
<1> QED
  BY <1>1, <1>2, <1>3, <1>4 DEF FromRadio

LEMMA ContentTypes ==
  ASSUME NEW m \in FromRadio, NEW v
  PROVE  Contents(m, v) \subseteq Content \cup {Nothing, Wrapped, Misread}
<1>1. \A port : IsPacket(m, port) => m.content \in Content
  BY MessageFields DEF IsPacket
<1>2. \A port : Payload(m, port) \subseteq Content \cup {Nothing, Wrapped}
  BY <1>1 DEF Payload
<1>3. DecodeTelemetry(m, v) \subseteq Content \cup {Misread}
  BY <1>1 DEF DecodeTelemetry
<1> QED
  BY <1>2, <1>3 DEF Contents, DecodeText, DecodeAdmin, DecodeAlert

LEMMA NodeInfoTypes ==
  ASSUME NEW info \in NodeInfo
  PROVE  /\ info.num \in Node /\ info.place \in Place
         /\ info.user.long \in Name \cup {NoName} /\ info.user.short \in Name \cup {NoName}
<1>1. info.num \in Node /\ info.place \in Place /\ (info.user \in User \/ info.user = NoUser)
  BY DEF NodeInfo
<1>2. CASE info.user \in User
  BY <1>1, <1>2 DEF User
<1>3. CASE info.user = NoUser
  BY <1>1, <1>3 DEF NoUser
<1> QED
  BY <1>1, <1>2, <1>3

(* The first alternative that holds anything is what FirstOf returns.      *)
LEMMA FirstOfIs ==
  ASSUME NEW alternatives, DOMAIN alternatives \subseteq Nat,
         NEW i \in DOMAIN alternatives, alternatives[i] # {},
         \A j \in DOMAIN alternatives : alternatives[j] # {} => i <= j
  PROVE  FirstOf(alternatives) = alternatives[i]
<1> DEFINE hits == {j \in DOMAIN alternatives : alternatives[j] # {}}
           first == CHOOSE k \in hits : \A j \in hits : k <= j
<1>1. i \in hits /\ \A j \in hits : i <= j
  OBVIOUS
<1>2. first \in hits /\ \A j \in hits : first <= j
  BY <1>1
<1>3. hits \subseteq Nat
  OBVIOUS
<1>4. FirstOf(alternatives) = alternatives[first]
  BY <1>1 DEF FirstOf
<1> HIDE DEF hits, first
<1>5. first = i
  BY <1>1, <1>2, <1>3
<1> QED
  BY <1>4, <1>5

(* Every result of the two decoders tried besides the others is passed on. *)
LEMMA InfosArePassedOn ==
  ASSUME NEW m, NEW v
  PROVE  /\ \A r \in DecodeNodeInfo(m, v) : <<"nodeInfo", r>> \in DispatchFrame(m, v)
         /\ \A r \in DecodeMyInfo(m, v) : <<"myInfo", r>> \in DispatchFrame(m, v)
BY DEF DispatchFrame, Calls

(* Text is tried first, and telemetry before the rest.                     *)
LEMMA TextThenTelemetry ==
  ASSUME NEW m, NEW v
  PROVE  /\ DecodeText(m, v) # {} => FirstOf(Typed(m, v)) = Calls("text", DecodeText(m, v))
         /\ DecodeText(m, v) = {} /\ DecodeTelemetry(m, v) # {}
              => FirstOf(Typed(m, v)) = Calls("telemetry", DecodeTelemetry(m, v))
<1>1. /\ DOMAIN Typed(m, v) = 1..5
      /\ Typed(m, v)[1] = Calls("text", DecodeText(m, v))
      /\ Typed(m, v)[2] = Calls("telemetry", DecodeTelemetry(m, v))
  BY DEF Typed
<1>2. \A callback, results : Calls(callback, results) = {} <=> results = {}
  BY DEF Calls
<1>3. ASSUME DecodeText(m, v) # {}
      PROVE  FirstOf(Typed(m, v)) = Calls("text", DecodeText(m, v))
  <2>1. Typed(m, v)[1] # {}
    BY <1>1, <1>2, <1>3
  <2> QED
    BY <1>1, <2>1, FirstOfIs
<1>4. ASSUME DecodeText(m, v) = {}, DecodeTelemetry(m, v) # {}
      PROVE  FirstOf(Typed(m, v)) = Calls("telemetry", DecodeTelemetry(m, v))
  <2>1. Typed(m, v)[1] = {} /\ Typed(m, v)[2] # {}
    BY <1>1, <1>2, <1>4
  <2>2. \A j \in 1..5 : Typed(m, v)[j] # {} => 2 <= j
    BY <2>1
  <2> QED
    BY <1>1, <2>1, <2>2, FirstOfIs
<1> QED
  BY <1>3, <1>4
=============================================================================
