------------------------------ MODULE SerialLink ------------------------------
(***************************************************************************)
(* The byte scanner at the end of a serial line.  The device (external)    *)
(* writes log text byte by byte and whole frames; the bytes travel through *)
(* the UART, which may lose some; the scanner reads what arrives.          *)
(* serial/serial.go relies on two things of the device: a frame carries 1  *)
(* to MaxSize bytes, and text never holds the two start bytes in a row.    *)
(***************************************************************************)
EXTENDS SerialFraming

CONSTANTS Payload,            \* the payloads the device sends
          TextByte,           \* the bytes of its log text
          DevStart1, DevStart2, \* the start bytes its firmware writes
          MaxMessages,        \* bound: frames and text bytes sent in one behaviour
          MaxWire,            \* bound: bytes on their way
          MaxLoss             \* bound: bytes lost in one behaviour

ASSUME LinkAssumption ==
  /\ Payload \subseteq Seq(Byte) /\ \A p \in Payload : Len(p) \in 1..MaxSize
  /\ TextByte \subseteq Byte
  /\ {DevStart1, DevStart2} \subseteq Byte
  /\ \A p \in Payload : {Len(p) \div 256, Len(p) % 256} \subseteq Byte
  /\ MaxMessages \in Nat /\ MaxWire \in Nat /\ MaxLoss \in Nat

VARIABLES wire,     \* bytes on their way
          sent,     \* history: what was sent, with its place in the input
          losses,   \* how many bytes were lost
          lossAt    \* how many bytes had been read at the last loss

linkVars == <<vars, wire, sent, losses, lossAt>>

Frame(p) == <<DevStart1, DevStart2, Len(p) \div 256, Len(p) % 256>> \o p

LengthOf(m) == IF m.kind = "frame" THEN HeaderLen + Len(m.data) ELSE 1

LinkInit == /\ Init
            /\ wire = << >>
            /\ sent = << >>
            /\ losses = 0
            /\ lossAt = 0

(* m is written; it will be found behind everything already on the way.    *)
Write(m, bytes) ==
  /\ Len(sent) < MaxMessages
  /\ Len(wire) + Len(bytes) <= MaxWire
  /\ wire' = wire \o bytes
  /\ sent' = Append(sent, [kind |-> m.kind, data |-> m.data, whole |-> TRUE,
                           start |-> Len(received) + Len(wire) + 1])
  /\ UNCHANGED <<vars, losses, lossAt>>

SendFrame == \E p \in Payload : Write([kind |-> "frame", data |-> p], Frame(p))

AfterTextStart == sent # << >> /\ sent[Len(sent)].kind = "text" /\ sent[Len(sent)].data = <<Start1>>

SendText == \E c \in TextByte : /\ ~(AfterTextStart /\ c = Start2)
                                /\ Write([kind |-> "text", data |-> <<c>>], <<c>>)

ReadByte == /\ wire # << >>
            /\ Receive(Head(wire))
            /\ wire' = Tail(wire)
            /\ UNCHANGED <<sent, losses, lossAt>>

ScanByte == Scan /\ UNCHANGED <<wire, sent, losses, lossAt>>

(* The next byte is lost: what it belonged to is damaged, what was sent    *)
(* after that comes one byte earlier.                                      *)
LoseByte ==
  LET gone == Len(received) + 1 IN
  /\ wire # << >>
  /\ losses < MaxLoss
  /\ wire' = Tail(wire)
  /\ losses' = losses + 1
  /\ lossAt' = Len(received)
  /\ sent' = [i \in DOMAIN sent |->
                IF sent[i].start > gone THEN [sent[i] EXCEPT !.start = @ - 1]
                ELSE IF sent[i].whole /\ sent[i].start + LengthOf(sent[i]) > gone
                     THEN [sent[i] EXCEPT !.whole = FALSE]
                     ELSE sent[i]]
  /\ UNCHANGED vars

LinkNext == SendFrame \/ SendText \/ ReadByte \/ ScanByte \/ LoseByte

LinkSpec == LinkInit /\ [][LinkNext]_linkVars

(* What is on the wire is read, and what is read is scanned.  The device   *)
(* owes nothing: it may never write again.                                 *)
LinkFairSpec == LinkSpec /\ WF_linkVars(ReadByte) /\ WF_linkVars(ScanByte)

-----------------------------------------------------------------------------
(* Without losses the scanner implements the channel that keeps frames and *)
(* text apart.  The abstract queue is what has not left buf; a message of  *)
(* the device leaves it in the one step that takes its bytes.              *)
Begun == {i \in DOMAIN sent : sent[i].start <= Consumed}

Unhandled == SubSeq(sent, Cardinality(Begun) + 1, Len(sent))

Item(m) == [kind |-> m.kind, data |-> m.data]

Pending == [i \in DOMAIN Unhandled |-> Item(Unhandled[i])]

HandedOn == [i \in DOMAIN events |-> Item(events[i])]

Channel == INSTANCE DemuxChannel WITH pending <- Pending, line <- logBuf, handled <- HandedOn

(* Frames reach the decoders whole, once and in the order the device sent  *)
(* them, whatever their payload and whatever text surrounds them; the text *)
(* reaches handleLine in lines, without a byte of a frame (serial.go       *)
(* 172-238).                                                               *)
ImplementsChannel == Channel!Spec

FrameHandedOn(m) == \E i \in FrameEvents : events[i].at = m.start /\ events[i].data = m.data

(* A frame is handed on without the help of later traffic (serial.go       *)
(* 195-198).                                                               *)
FramesDelivered ==
  \A n \in 1..MaxMessages :
    (n <= Len(sent) /\ sent[n].kind = "frame") ~> (n <= Len(sent) /\ FrameHandedOn(sent[n]))

(* A line is handed on as soon as one more byte follows the newline that   *)
(* ends it, whatever that byte is (serial.go 173-181).                     *)
LinesDelivered ==
  \A n \in 1..MaxMessages :
    (n < Len(sent) /\ sent[n].kind = "text" /\ sent[n].data = <<NewLine>>)
      ~> (n < Len(sent) /\ \E i \in LineEvents : events[i].at = sent[n].start)

(* What the scanner needs of the frames to find its way back: none holds,  *)
(* behind its first byte, what looks like the beginning of another.        *)
NoFalseStart(f) == /\ f[Len(f)] # Start1
                   /\ \A k \in 2..Len(f) - 1 : ~(f[k] = Start1 /\ f[k + 1] = Start2)

SentCleanly ==
  \A i \in DOMAIN sent : sent[i].kind = "frame" => NoFalseStart(Frame(sent[i].data))

(* After a loss the scanner finds its way back: a false header made by the *)
(* loss can swallow at most one maximal frame, that begins at the last     *)
(* byte read before the loss, and every whole frame that starts later is   *)
(* handed on (serial.go 176-194).  Frames with a false start can keep the  *)
(* scanner lost for as long as they follow one another.                    *)
Resynchronises ==
  SentCleanly /\ wire = << >> /\ Blocked(buf) =>
    \A i \in DOMAIN sent :
      sent[i].kind = "frame" /\ sent[i].whole
        /\ (losses = 0 \/ sent[i].start >= lossAt + HeaderLen + MaxSize)
      => FrameHandedOn(sent[i])

(* A frame of the device, whole, at its place and with its own payload.    *)
IsGenuine(e) == \E j \in DOMAIN sent : /\ sent[j].kind = "frame" /\ sent[j].whole
                                       /\ sent[j].start = e.at /\ sent[j].data = e.data

(* A false header needs a loss: what is handed on as a frame and begins    *)
(* behind the last loss is a frame of the device, whole and with its own   *)
(* payload; text and damaged frames are never taken for one, as long as    *)
(* the device has sent no false start (serial.go 172-198).                 *)
FramesAreGenuine ==
  SentCleanly => \A i \in FrameEvents : events[i].at > lossAt => IsGenuine(events[i])

TakenInStep(j) == /\ sent[j].kind = "frame" /\ sent[j].whole
                  /\ sent[j].start > lossAt
                  /\ FrameHandedOn(sent[j])

(* Once the scanner has handed on one frame of the device that begins      *)
(* behind the last loss, it is in step until the next: no later frame of   *)
(* the device is missed, and nothing else is taken for one, whatever the   *)
(* frames hold.  It is only on its way back to the first frame that a      *)
(* false start can mislead it (serial.go 172-238).                         *)
StaysInStep ==
  \A j \in DOMAIN sent :
    TakenInStep(j) =>
      /\ \A i \in FrameEvents : events[i].at > sent[j].start => IsGenuine(events[i])
      /\ wire = << >> /\ Blocked(buf) =>
           \A k \in DOMAIN sent : k > j /\ sent[k].kind = "frame" => FrameHandedOn(sent[k])
=============================================================================
