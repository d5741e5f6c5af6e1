------------------------- MODULE SerialLinkProofs -------------------------
(***************************************************************************)
(* The byte scanner at the end of a serial line, for any alphabet, any     *)
(* payloads, any maximal frame and any number of messages.  Without losses *)
(* it implements the channel that keeps frames and text apart; with any    *)
(* number of lost bytes it finds its way back.  Both rest on where the     *)
(* messages of the device lie in the stream: what was read followed by     *)
(* what is on its way.                                                     *)
(***************************************************************************)
EXTENDS SerialLink, SerialFramingProofs, SequenceTheorems

USE ByteAssumption, MaxSizeAssumption

-----------------------------------------------------------------------------
(* Messages and the bytes they are written as.                             *)

FrameMessage == [kind : {"frame"}, data : Payload, whole : BOOLEAN, start : Nat]

TextMessage == [kind : {"text"}, data : {<<c>> : c \in TextByte}, whole : BOOLEAN, start : Nat]

Message == FrameMessage \cup TextMessage

BytesOf(m) == IF m.kind = "frame" THEN Frame(m.data) ELSE m.data

LEMMA PayloadFacts ==
  ASSUME NEW p \in Payload
  PROVE  p \in Seq(Byte) /\ Len(p) \in Nat /\ Len(p) \in 1..MaxSize
  BY LinkAssumption

LEMMA FrameBytes ==
  ASSUME NEW p \in Payload
  PROVE  /\ Frame(p) \in Seq(Byte)
         /\ Len(Frame(p)) = HeaderLen + Len(p)
         /\ Frame(p)[1] = DevStart1 /\ Frame(p)[2] = DevStart2
         /\ Frame(p)[3] * 256 + Frame(p)[4] = Len(p)
         /\ \A k \in 1..Len(p) : Frame(p)[HeaderLen + k] = p[k]
<1> DEFINE h == <<DevStart1, DevStart2, Len(p) \div 256, Len(p) % 256>>
<1>1. p \in Seq(Byte) /\ Len(p) \in Nat
  BY PayloadFacts
<1>2. h \in Seq(Byte) /\ Len(h) = 4
  <2>1. Len(p) \div 256 \in Byte /\ Len(p) % 256 \in Byte /\ DevStart1 \in Byte /\ DevStart2 \in Byte
    BY LinkAssumption
  <2> QED BY <2>1
<1>3. h[1] = DevStart1 /\ h[2] = DevStart2 /\ h[3] = Len(p) \div 256 /\ h[4] = Len(p) % 256
  OBVIOUS
<1>4. Frame(p) = h \o p
  BY DEF Frame
<1> HIDE DEF h
<1>5. /\ h \o p \in Seq(Byte)
      /\ Len(h \o p) = Len(h) + Len(p)
      /\ \A i \in 1..Len(h) + Len(p) : (h \o p)[i] = IF i <= Len(h) THEN h[i] ELSE p[i - Len(h)]
  BY <1>1, <1>2, ConcatProperties
<1>6. \A i \in 1..4 : (h \o p)[i] = h[i]
  BY <1>1, <1>2, <1>5
<1>7. \A k \in 1..Len(p) : (h \o p)[HeaderLen + k] = p[k]
  BY <1>1, <1>2, <1>5 DEF HeaderLen
<1>8. (Len(p) \div 256) * 256 + (Len(p) % 256) = Len(p)
  BY <1>1
<1> QED BY <1>2, <1>3, <1>4, <1>5, <1>6, <1>7, <1>8 DEF HeaderLen

LEMMA MessageBytes ==
  ASSUME NEW m \in Message
  PROVE  /\ m.start \in Nat /\ m.whole \in BOOLEAN /\ m.kind \in {"frame", "text"}
         /\ BytesOf(m) \in Seq(Byte)
         /\ Len(BytesOf(m)) = LengthOf(m)
         /\ LengthOf(m) \in Nat \ {0}
         /\ m.kind = "frame" => m.data \in Payload /\ LengthOf(m) = HeaderLen + Len(m.data)
         /\ m.kind = "text" => /\ m.data \in {<<c>> : c \in TextByte} /\ LengthOf(m) = 1
                               /\ BytesOf(m) = m.data
<1>1. CASE m \in FrameMessage
  <2>1. m.kind = "frame" /\ m.data \in Payload /\ m.start \in Nat /\ m.whole \in BOOLEAN
    BY <1>1 DEF FrameMessage
  <2> QED BY <2>1, FrameBytes, PayloadFacts DEF BytesOf, LengthOf, HeaderLen
<1>2. CASE m \in TextMessage
  <2>1. /\ m.kind = "text" /\ m.data \in {<<c>> : c \in TextByte}
        /\ m.start \in Nat /\ m.whole \in BOOLEAN
    BY <1>2 DEF TextMessage
  <2>2. m.data \in Seq(Byte) /\ Len(m.data) = 1
    <3>1. PICK c \in TextByte : m.data = <<c>>
      BY <2>1
    <3>2. c \in Byte
      BY LinkAssumption
    <3>3. <<c>> \in Seq(Byte) /\ Len(<<c>>) = 1
      BY <3>2
    <3> QED BY <3>1, <3>3
  <2>3. m.kind # "frame"
    BY <2>1
  <2> QED BY <2>1, <2>2, <2>3 DEF BytesOf, LengthOf
<1> QED BY <1>1, <1>2 DEF Message

-----------------------------------------------------------------------------
(* The scanner at the end of the line is the scanner of SerialFraming, fed *)
(* with bytes of the device: its invariants hold here too.                 *)

LinkTyped == /\ wire \in Seq(Byte)
             /\ sent \in Seq(Message)
             /\ losses \in Nat
             /\ lossAt \in Nat

LEMMA LinkStepScans ==
  ASSUME LinkTyped, [LinkNext]_linkVars
  PROVE  [Next]_vars
<1>1. CASE SendFrame \/ SendText \/ LoseByte \/ UNCHANGED linkVars
  BY <1>1 DEF SendFrame, SendText, LoseByte, Write, linkVars
<1>2. CASE ReadByte
  <2>1. Head(wire) \in Byte
    BY <1>2 DEF ReadByte, LinkTyped
  <2> QED BY <1>2, <2>1 DEF ReadByte, Next
<1>3. CASE ScanByte
  BY <1>3 DEF ScanByte, Next
<1> QED BY <1>1, <1>2, <1>3 DEF LinkNext

(* What LoseByte makes of the messages when the byte at position gone is   *)
(* lost.                                                                   *)
Damaged(q, gone) ==
  [i \in DOMAIN q |->
     IF q[i].start > gone THEN [q[i] EXCEPT !.start = @ - 1]
     ELSE IF q[i].whole /\ q[i].start + LengthOf(q[i]) > gone
          THEN [q[i] EXCEPT !.whole = FALSE]
          ELSE q[i]]

LEMMA DamagedTyped ==
  ASSUME NEW q \in Seq(Message), NEW gone \in Nat, gone >= 1
  PROVE  Damaged(q, gone) \in Seq(Message)
<1>1. \A m \in Message : /\ m.start > gone => [m EXCEPT !.start = @ - 1] \in Message
                         /\ [m EXCEPT !.whole = FALSE] \in Message
  <2>1. ASSUME NEW m \in FrameMessage
        PROVE  /\ m.start > gone => [m EXCEPT !.start = @ - 1] \in FrameMessage
               /\ [m EXCEPT !.whole = FALSE] \in FrameMessage
    <3>1. m.start > gone => m.start - 1 \in Nat
      BY DEF FrameMessage
    <3>2. \A n \in Nat : [m EXCEPT !.start = n] \in FrameMessage
      BY DEF FrameMessage
    <3>3. \A b \in BOOLEAN : [m EXCEPT !.whole = b] \in FrameMessage
      BY Zenon DEF FrameMessage
    <3> QED BY <3>1, <3>2, <3>3
  <2>2. ASSUME NEW m \in TextMessage
        PROVE  /\ m.start > gone => [m EXCEPT !.start = @ - 1] \in TextMessage
               /\ [m EXCEPT !.whole = FALSE] \in TextMessage
    <3>1. m.start > gone => m.start - 1 \in Nat
      BY DEF TextMessage
    <3>2. \A n \in Nat : [m EXCEPT !.start = n] \in TextMessage
      BY DEF TextMessage
    <3>3. \A b \in BOOLEAN : [m EXCEPT !.whole = b] \in TextMessage
      BY Zenon DEF TextMessage
    <3> QED BY <3>1, <3>2, <3>3
  <2> QED BY <2>1, <2>2 DEF Message
<1>2. \A i \in DOMAIN q : q[i] \in Message
  OBVIOUS
<1>3. DOMAIN q = 1..Len(q) /\ Len(q) \in Nat
  OBVIOUS
<1> DEFINE r == Damaged(q, gone)
<1>4. r \in [1..Len(q) -> Message]
  BY <1>1, <1>2, <1>3 DEF Damaged
<1> HIDE DEF r
<1>5. r \in Seq(Message)
  BY <1>3, <1>4, SeqDef
<1> QED BY <1>5 DEF r

LEMMA StepKeepsLinkTyped ==
  ASSUME TypedTail, LinkTyped, [LinkNext]_linkVars
  PROVE  LinkTyped'
<1>0. received \in Seq(Byte) /\ Len(received) \in Nat /\ Len(wire) \in Nat
  BY DEF TypedTail, TypeOK, LinkTyped
<1>1. ASSUME NEW p \in Payload, Write([kind |-> "frame", data |-> p], Frame(p))
      PROVE  LinkTyped'
  <2>1. Frame(p) \in Seq(Byte)
    BY FrameBytes
  <2>2. [kind |-> "frame", data |-> p, whole |-> TRUE, start |-> Len(received) + Len(wire) + 1] \in Message
    BY <1>0 DEF Message, FrameMessage
  <2>3. wire' \in Seq(Byte)
    BY <1>1, <2>1, ConcatProperties DEF Write, LinkTyped
  <2> QED BY <1>1, <2>2, <2>3 DEF Write, LinkTyped
<1>2. ASSUME NEW c \in TextByte, Write([kind |-> "text", data |-> <<c>>], <<c>>)
      PROVE  LinkTyped'
  <2>1. <<c>> \in Seq(Byte)
    BY LinkAssumption
  <2>2. [kind |-> "text", data |-> <<c>>, whole |-> TRUE, start |-> Len(received) + Len(wire) + 1] \in Message
    BY <1>0 DEF Message, TextMessage
  <2>3. wire' \in Seq(Byte)
    BY <1>2, <2>1, ConcatProperties DEF Write, LinkTyped
  <2> QED BY <1>2, <2>2, <2>3 DEF Write, LinkTyped
<1>3. CASE ReadByte
  BY <1>3 DEF ReadByte, LinkTyped
<1>4. CASE ScanByte
  BY <1>4 DEF ScanByte, LinkTyped
<1>5. CASE LoseByte
  <2>1. sent' \in Seq(Message)
    <3>1. Len(received) + 1 \in Nat /\ Len(received) + 1 >= 1
      BY <1>0
    <3> QED BY <1>5, <3>1, DamagedTyped DEF LoseByte, LinkTyped, Damaged
  <2>2. wire' \in Seq(Byte) /\ losses' \in Nat /\ lossAt' \in Nat
    BY <1>0, <1>5 DEF LoseByte, LinkTyped
  <2> QED BY <2>1, <2>2 DEF LinkTyped
<1>6. CASE UNCHANGED linkVars
  BY <1>6 DEF linkVars, LinkTyped
<1> QED BY <1>1, <1>2, <1>3, <1>4, <1>5, <1>6 DEF LinkNext, SendFrame, SendText

LEMMA LinkTypedInvariant == LinkSpec => [](LinkTyped /\ TypedTail)
<1>1. LinkInit => LinkTyped /\ TypedTail
  BY DEF LinkInit, LinkTyped, Init, TypedTail, TypeOK, BufferIsTail, Consumed
<1>2. LinkTyped /\ TypedTail /\ [LinkNext]_linkVars => LinkTyped' /\ TypedTail'
  <2> SUFFICES ASSUME LinkTyped, TypedTail, [LinkNext]_linkVars PROVE LinkTyped' /\ TypedTail'
    OBVIOUS
  <2>1. [Next]_vars
    BY LinkStepScans
  <2>2. CASE UNCHANGED vars
    BY <2>2, StepKeepsLinkTyped DEF vars, TypedTail, TypeOK, BufferIsTail, Consumed
  <2> QED BY <2>1, <2>2, ReceiveKeepsTypedTail, ScanKeepsTypedTail, StepKeepsLinkTyped DEF Next
<1> QED BY <1>1, <1>2, PTL DEF LinkSpec

(* Whatever the device sends and the line loses, the scanner at its end is *)
(* the scanner of SerialFraming: everything proved of that one holds here. *)
THEOREM LinkImplementsScanner == LinkSpec => Spec
<1>1. LinkInit => Init
  BY DEF LinkInit
<1>2. LinkTyped /\ [LinkNext]_linkVars => [Next]_vars
  BY LinkStepScans
<1> QED BY <1>1, <1>2, LinkTypedInvariant, PTL DEF LinkSpec, Spec

-----------------------------------------------------------------------------
(* Where the messages lie in the stream s: in the order they were sent,    *)
(* and a whole message with all its bytes, clear of the next.              *)

LiesIn(s, m) == /\ m.start + LengthOf(m) <= Len(s) + 1
                /\ \A k \in 1..LengthOf(m) : s[m.start + k - 1] = BytesOf(m)[k]

InOrder(m, n) == m.start <= n.start /\ (m.whole => m.start + LengthOf(m) <= n.start)

LaidOut(s, q) ==
  /\ \A i \in 1..Len(q) : 1 <= q[i].start /\ q[i].start <= Len(s) + 1
  /\ \A i \in 1..Len(q) : q[i].whole => LiesIn(s, q[i])
  /\ \A i, j \in 1..Len(q) : i < j => InOrder(q[i], q[j])

Stream == received \o wire

LEMMA StreamFacts ==
  ASSUME TypedTail, LinkTyped
  PROVE  /\ Stream \in Seq(Byte)
         /\ Len(Stream) \in Nat /\ Len(received) \in Nat
         /\ Len(Stream) = Len(received) + Len(wire)
         /\ Len(received) <= Len(Stream)
         /\ \A k \in 1..Len(received) : Stream[k] = received[k]
<1>1. received \in Seq(Byte) /\ wire \in Seq(Byte)
  BY DEF TypedTail, TypeOK, LinkTyped
<1>2. /\ received \o wire \in Seq(Byte)
      /\ Len(received \o wire) = Len(received) + Len(wire)
      /\ \A i \in 1..Len(received) + Len(wire) :
           (received \o wire)[i] = IF i <= Len(received) THEN received[i] ELSE wire[i - Len(received)]
  BY <1>1, ConcatProperties
<1>3. Len(received) \in Nat /\ Len(wire) \in Nat
  BY <1>1
<1> QED BY <1>1, <1>2, <1>3 DEF Stream

(* A message that is written comes behind all others.                      *)
LEMMA WrittenLaidOut ==
  ASSUME NEW s \in Seq(Byte), NEW q \in Seq(Message), LaidOut(s, q),
         NEW m \in Message, m.start = Len(s) + 1
  PROVE  LaidOut(s \o BytesOf(m), Append(q, m))
<1> DEFINE t == s \o BytesOf(m)
           r == Append(q, m)
<1>1. /\ BytesOf(m) \in Seq(Byte) /\ Len(BytesOf(m)) = LengthOf(m)
      /\ LengthOf(m) \in Nat \ {0} /\ Len(s) \in Nat /\ Len(q) \in Nat
  BY MessageBytes
<1>2. /\ Len(t) = Len(s) + LengthOf(m)
      /\ \A i \in 1..Len(s) : t[i] = s[i]
      /\ \A k \in 1..LengthOf(m) : t[Len(s) + k] = BytesOf(m)[k]
  <2>1. \A i \in 1..Len(s) + Len(BytesOf(m)) :
          t[i] = IF i <= Len(s) THEN s[i] ELSE BytesOf(m)[i - Len(s)]
    BY <1>1, ConcatProperties
  <2>2. Len(t) = Len(s) + LengthOf(m)
    BY <1>1, ConcatProperties
  <2> HIDE DEF t
  <2> QED BY <1>1, <2>1, <2>2
<1>3. /\ Len(r) = Len(q) + 1
      /\ r[Len(q) + 1] = m
      /\ \A i \in 1..Len(q) : r[i] = q[i]
  OBVIOUS
<1>4. \A i \in 1..Len(q) : q[i] \in Message
  OBVIOUS
<1>5. \A i \in 1..Len(q) : /\ q[i].start \in Nat /\ LengthOf(q[i]) \in Nat \ {0}
                           /\ 1 <= q[i].start /\ q[i].start <= Len(s) + 1
  BY <1>4, MessageBytes DEF LaidOut
<1> HIDE DEF t, r
<1>6. LiesIn(t, m)
  <2>1. \A k \in 1..LengthOf(m) : m.start + k - 1 = Len(s) + k
    BY <1>1
  <2>2. m.start + LengthOf(m) <= Len(t) + 1
    BY <1>1, <1>2
  <2> QED BY <1>2, <2>1, <2>2 DEF LiesIn
<1>7. ASSUME NEW i \in 1..Len(q), q[i].whole PROVE LiesIn(t, q[i])
  <2>1. LiesIn(s, q[i])
    BY <1>7 DEF LaidOut
  <2>2. \A k \in 1..LengthOf(q[i]) : q[i].start + k - 1 \in 1..Len(s)
    BY <1>1, <1>5, <2>1 DEF LiesIn
  <2>3. q[i].start + LengthOf(q[i]) <= Len(t) + 1
    BY <1>1, <1>2, <1>5, <2>1 DEF LiesIn
  <2> QED BY <1>2, <2>1, <2>2, <2>3 DEF LiesIn
<1>8. ASSUME NEW i \in 1..Len(q) PROVE InOrder(q[i], m)
  <2>1. q[i].whole => q[i].start + LengthOf(q[i]) <= Len(s) + 1
    BY DEF LaidOut, LiesIn
  <2> QED BY <1>5, <2>1 DEF InOrder
<1>9. \A i \in 1..Len(r) : i \in 1..Len(q) \/ i = Len(q) + 1
  BY <1>1, <1>3
<1>10. \A i \in 1..Len(r) : 1 <= r[i].start /\ r[i].start <= Len(t) + 1
  <2>1. ASSUME NEW i \in 1..Len(q) PROVE 1 <= q[i].start /\ q[i].start <= Len(t) + 1
    <3>1. PICK a \in Nat : a = q[i].start /\ 1 <= a /\ a <= Len(s) + 1
      BY <1>5
    <3>2. a <= Len(t) + 1
      BY <1>1, <1>2, <3>1
    <3> QED BY <3>1, <3>2
  <2>2. 1 <= m.start /\ m.start <= Len(t) + 1
    BY <1>1, <1>2
  <2> QED BY <1>3, <1>9, <2>1, <2>2
<1>11. \A i \in 1..Len(r) : r[i].whole => LiesIn(t, r[i])
  BY <1>3, <1>6, <1>7, <1>9
<1>12. ASSUME NEW i \in 1..Len(r), NEW j \in 1..Len(r), i < j PROVE InOrder(r[i], r[j])
  <2>1. i \in 1..Len(q) /\ r[i] = q[i]
    BY <1>1, <1>3, <1>9, <1>12
  <2>2. CASE j \in 1..Len(q)
    BY <1>3, <1>12, <2>1, <2>2 DEF LaidOut
  <2>3. CASE j = Len(q) + 1
    BY <1>3, <1>8, <2>1, <2>3
  <2> QED BY <1>9, <2>2, <2>3
<1>13. LaidOut(t, r)
  BY <1>10, <1>11, <1>12 DEF LaidOut
<1> QED BY <1>13 DEF t, r

LEMMA ShiftsKeepOrder ==
  \A a, l, b, g \in Nat :
    a + l <= b /\ (a > g \/ a + l <= g)
      => (IF a > g THEN a - 1 ELSE a) + l <= (IF b > g THEN b - 1 ELSE b)
  OBVIOUS

LEMMA ShiftsKeepRank ==
  \A a, b, g \in Nat : a <= b => (IF a > g THEN a - 1 ELSE a) <= (IF b > g THEN b - 1 ELSE b)
  OBVIOUS

(* The indices of n items laid out behind c, and in front of g.            *)
LEMMA IndexBehind ==
  \A c, n, k \in Nat : k >= 1 /\ k <= n
     => /\ k \in 1..n /\ c + k \in 1..c + n /\ (c + 1) + k - 1 = c + k
  OBVIOUS

LEMMA IndexInFront ==
  \A a, l, g, k \in Nat : a >= 1 /\ a + l <= g /\ k >= 1 /\ k <= l => a + k - 1 \in 1..g - 1
  OBVIOUS

(* A byte is lost: the message it belonged to is damaged, the others keep  *)
(* their bytes and their order.                                            *)
LEMMA DamagedFacts ==
  ASSUME NEW q \in Seq(Message), NEW gone \in Nat, gone >= 1, NEW i \in 1..Len(q)
  PROVE  /\ Damaged(q, gone)[i] \in Message
         /\ Damaged(q, gone)[i].kind = q[i].kind
         /\ Damaged(q, gone)[i].data = q[i].data
         /\ Damaged(q, gone)[i].start = IF q[i].start > gone THEN q[i].start - 1 ELSE q[i].start
         /\ Damaged(q, gone)[i].whole =>
              q[i].whole /\ (q[i].start > gone \/ q[i].start + LengthOf(q[i]) <= gone)
         /\ q[i].whole /\ q[i].start > gone => Damaged(q, gone)[i].whole
         /\ LengthOf(Damaged(q, gone)[i]) = LengthOf(q[i])
         /\ BytesOf(Damaged(q, gone)[i]) = BytesOf(q[i])
<1>1. q[i] \in Message /\ i \in DOMAIN q
  OBVIOUS
<1>2. Damaged(q, gone) \in Seq(Message) /\ DOMAIN Damaged(q, gone) = DOMAIN q
  BY DamagedTyped DEF Damaged
<1>3. Damaged(q, gone)[i] \in Message
  BY <1>1, <1>2
<1>4. q[i].start \in Nat /\ LengthOf(q[i]) \in Nat
  BY <1>1, MessageBytes
<1>5. \A m \in Message :
        /\ [m EXCEPT !.start = @ - 1].kind = m.kind
        /\ [m EXCEPT !.start = @ - 1].data = m.data
        /\ [m EXCEPT !.start = @ - 1].whole = m.whole
        /\ [m EXCEPT !.start = @ - 1].start = m.start - 1
        /\ [m EXCEPT !.whole = FALSE].kind = m.kind
        /\ [m EXCEPT !.whole = FALSE].data = m.data
        /\ [m EXCEPT !.whole = FALSE].start = m.start
        /\ ~[m EXCEPT !.whole = FALSE].whole
  BY DEF Message, FrameMessage, TextMessage
<1>6. Damaged(q, gone)[i] = IF q[i].start > gone THEN [q[i] EXCEPT !.start = @ - 1]
                            ELSE IF q[i].whole /\ q[i].start + LengthOf(q[i]) > gone
                                 THEN [q[i] EXCEPT !.whole = FALSE]
                                 ELSE q[i]
  BY <1>1 DEF Damaged
<1>7. /\ Damaged(q, gone)[i].kind = q[i].kind
      /\ Damaged(q, gone)[i].data = q[i].data
      /\ Damaged(q, gone)[i].start = IF q[i].start > gone THEN q[i].start - 1 ELSE q[i].start
      /\ Damaged(q, gone)[i].whole =>
           q[i].whole /\ (q[i].start > gone \/ q[i].start + LengthOf(q[i]) <= gone)
      /\ q[i].whole /\ q[i].start > gone => Damaged(q, gone)[i].whole
  <2>1. CASE q[i].start > gone
    BY <1>1, <1>5, <1>6, <2>1
  <2>2. CASE ~(q[i].start > gone) /\ q[i].whole /\ q[i].start + LengthOf(q[i]) > gone
    BY <1>1, <1>5, <1>6, <2>2
  <2>3. CASE ~(q[i].start > gone) /\ ~(q[i].whole /\ q[i].start + LengthOf(q[i]) > gone)
    BY <1>1, <1>4, <1>6, <2>3
  <2> QED BY <2>1, <2>2, <2>3
<1> QED BY <1>3, <1>7 DEF LengthOf, BytesOf

LEMMA DamagedLaidOut ==
  ASSUME NEW s \in Seq(Byte), NEW t \in Seq(Byte), NEW q \in Seq(Message), LaidOut(s, q),
         NEW gone \in 1..Len(s), Len(t) = Len(s) - 1,
         \A k \in 1..gone - 1 : t[k] = s[k],
         \A k \in gone..Len(t) : t[k] = s[k + 1]
  PROVE  LaidOut(t, Damaged(q, gone))
<1> DEFINE r == Damaged(q, gone)
<1>1. Len(s) \in Nat /\ Len(t) \in Nat /\ Len(q) \in Nat /\ gone \in Nat /\ gone >= 1 /\ gone <= Len(s)
  OBVIOUS
<1>2. Len(r) = Len(q)
  BY <1>1, DamagedTyped DEF Damaged
<1>3. \A i \in 1..Len(q) :
        /\ r[i].start = IF q[i].start > gone THEN q[i].start - 1 ELSE q[i].start
        /\ r[i].whole => q[i].whole /\ (q[i].start > gone \/ q[i].start + LengthOf(q[i]) <= gone)
        /\ LengthOf(r[i]) = LengthOf(q[i])
        /\ BytesOf(r[i]) = BytesOf(q[i])
  <2> SUFFICES ASSUME NEW i \in 1..Len(q)
               PROVE  /\ r[i].start = IF q[i].start > gone THEN q[i].start - 1 ELSE q[i].start
                      /\ r[i].whole => q[i].whole /\ (q[i].start > gone \/ q[i].start + LengthOf(q[i]) <= gone)
                      /\ LengthOf(r[i]) = LengthOf(q[i])
                      /\ BytesOf(r[i]) = BytesOf(q[i])
    OBVIOUS
  <2> QED BY <1>1, DamagedFacts
<1>4. \A i \in 1..Len(q) : /\ q[i].start \in Nat /\ LengthOf(q[i]) \in Nat \ {0}
                           /\ 1 <= q[i].start /\ q[i].start <= Len(s) + 1
  BY MessageBytes DEF LaidOut
<1> HIDE DEF r
<1>5. ASSUME NEW i \in 1..Len(q) PROVE 1 <= r[i].start /\ r[i].start <= Len(t) + 1
  <2>1. PICK a \in Nat : a = q[i].start /\ 1 <= a /\ a <= Len(s) + 1
    BY <1>4
  <2>2. r[i].start = IF a > gone THEN a - 1 ELSE a
    BY <1>3, <2>1
  <2> QED BY <1>1, <2>1, <2>2
<1>6. ASSUME NEW i \in 1..Len(q), r[i].whole PROVE LiesIn(t, r[i])
  <2>1. LiesIn(s, q[i])
    BY <1>3, <1>6 DEF LaidOut
  <2>2. CASE q[i].start > gone
    <3>1. r[i].start = q[i].start - 1
      BY <1>3, <2>2
    <3>2. r[i].start + LengthOf(r[i]) <= Len(t) + 1
      BY <1>1, <1>3, <1>4, <2>1, <3>1 DEF LiesIn
    <3>3. \A k \in 1..LengthOf(q[i]) : /\ q[i].start + k - 2 \in gone..Len(t)
                                       /\ (q[i].start + k - 2) + 1 = q[i].start + k - 1
                                       /\ r[i].start + k - 1 = q[i].start + k - 2
      <4>1. PICK a \in Nat, l \in Nat : /\ a = q[i].start /\ l = LengthOf(q[i]) /\ a > gone
                                        /\ a + l <= Len(s) + 1 /\ r[i].start = a - 1
        BY <1>4, <2>1, <2>2, <3>1 DEF LiesIn
      <4>2. PICK n \in Nat, g \in Nat : n = Len(t) /\ g = gone /\ a > g /\ a + l <= n + 2
        BY <1>1, <4>1
      <4>3. ASSUME NEW k \in 1..l
            PROVE  /\ a + k - 2 \in g..n /\ (a + k - 2) + 1 = a + k - 1
                   /\ (a - 1) + k - 1 = a + k - 2
        BY <4>2
      <4> QED BY <4>1, <4>2, <4>3
    <3>4. \A k \in 1..LengthOf(q[i]) : t[q[i].start + k - 2] = s[q[i].start + k - 1]
      BY <3>3
    <3> QED BY <1>3, <2>1, <3>2, <3>3, <3>4 DEF LiesIn
  <2>3. CASE ~(q[i].start > gone)
    <3>1. r[i].start = q[i].start /\ q[i].start + LengthOf(q[i]) <= gone
      BY <1>3, <1>6, <2>3
    <3>2. r[i].start + LengthOf(r[i]) <= Len(t) + 1
      BY <1>1, <1>3, <1>4, <3>1
    <3>3. \A k \in 1..LengthOf(q[i]) : q[i].start + k - 1 \in 1..gone - 1
      <4>1. PICK a \in Nat, l \in Nat : a = q[i].start /\ l = LengthOf(q[i]) /\ a >= 1 /\ a + l <= gone
        BY <1>4, <3>1
      <4>2. ASSUME NEW k \in 1..l PROVE a + k - 1 \in 1..gone - 1
        <5>1. k \in Nat /\ k >= 1 /\ k <= l
          BY <4>1
        <5>2. gone \in Nat
          BY <1>1
        <5> QED BY <4>1, <5>1, <5>2, IndexInFront
      <4> QED BY <4>1, <4>2
    <3> QED BY <1>3, <2>1, <3>1, <3>2, <3>3 DEF LiesIn
  <2> QED BY <2>2, <2>3
<1>7. ASSUME NEW i \in 1..Len(q), NEW j \in 1..Len(q), i < j PROVE InOrder(r[i], r[j])
  <2>1. q[i].start <= q[j].start /\ (q[i].whole => q[i].start + LengthOf(q[i]) <= q[j].start)
    BY <1>7 DEF LaidOut, InOrder
  <2>2. PICK a \in Nat, l \in Nat, b \in Nat :
          a = q[i].start /\ l = LengthOf(q[i]) /\ b = q[j].start /\ a <= b
    BY <1>4, <2>1
  <2>3. /\ r[i].start = IF a > gone THEN a - 1 ELSE a
        /\ r[j].start = IF b > gone THEN b - 1 ELSE b
    BY <1>3, <2>2
  <2>4. r[i].start <= r[j].start
    <3>1. (IF a > gone THEN a - 1 ELSE a) <= (IF b > gone THEN b - 1 ELSE b)
      <4>1. gone \in Nat
        BY <1>1
      <4> QED BY <2>2, <4>1, ShiftsKeepRank
    <3> QED BY <2>3, <3>1
  <2>5. ASSUME r[i].whole PROVE r[i].start + LengthOf(r[i]) <= r[j].start
    <3>1. a + l <= b /\ (a > gone \/ a + l <= gone) /\ LengthOf(r[i]) = l
      BY <1>3, <2>1, <2>2, <2>5
    <3>2. (IF a > gone THEN a - 1 ELSE a) + l <= (IF b > gone THEN b - 1 ELSE b)
      BY <1>1, <2>2, <3>1, ShiftsKeepOrder
    <3> QED BY <2>3, <3>1, <3>2
  <2> QED BY <2>4, <2>5 DEF InOrder
<1>8. LaidOut(t, r)
  BY <1>2, <1>5, <1>6, <1>7 DEF LaidOut
<1> QED BY <1>8 DEF r

(* What each kind of step does to the stream.                              *)
LEMMA SendAppends ==
  ASSUME TypedTail, LinkTyped, SendFrame \/ SendText
  PROVE  \E m \in Message :
           /\ m.start = Len(Stream) + 1 /\ m.whole
           /\ sent' = Append(sent, m)
           /\ Stream' = Stream \o BytesOf(m)
           /\ UNCHANGED <<received, buf, logBuf, events, losses, lossAt>>
           /\ m.kind = "text" => ~(AfterTextStart /\ m.data = <<Start2>>)
<1>0. /\ received \in Seq(Byte) /\ wire \in Seq(Byte) /\ Stream \in Seq(Byte)
      /\ Len(received) \in Nat /\ Len(wire) \in Nat
      /\ Len(Stream) = Len(received) + Len(wire)
  BY StreamFacts DEF TypedTail, TypeOK, LinkTyped
<1>1. ASSUME NEW bytes \in Seq(Byte), wire' = wire \o bytes, received' = received
      PROVE  Stream' = Stream \o bytes
  <2>1. Stream' = received \o (wire \o bytes)
    BY <1>1 DEF Stream
  <2>2. (received \o wire) \o bytes = received \o (wire \o bytes)
    <3>1. received \in Seq(Byte) /\ wire \in Seq(Byte) /\ bytes \in Seq(Byte)
      BY <1>0, <1>1
    <3> QED BY <3>1, ConcatAssociative
  <2> QED BY <2>1, <2>2 DEF Stream
<1>2. CASE SendFrame
  <2>1. PICK p \in Payload : Write([kind |-> "frame", data |-> p], Frame(p))
    BY <1>2 DEF SendFrame
  <2>2. PICK m : m = [kind |-> "frame", data |-> p, whole |-> TRUE, start |-> Len(received) + Len(wire) + 1]
    OBVIOUS
  <2>3. m \in FrameMessage
    BY <1>0, <2>2 DEF FrameMessage
  <2>4. m.kind = "frame" /\ m.data = p /\ m.whole /\ m.start = Len(Stream) + 1
    BY <1>0, <2>2
  <2>5. BytesOf(m) = Frame(p) /\ Frame(p) \in Seq(Byte)
    BY <2>4, FrameBytes DEF BytesOf
  <2>6. /\ wire' = wire \o Frame(p) /\ received' = received
        /\ sent' = Append(sent, m)
        /\ UNCHANGED <<received, buf, logBuf, events, losses, lossAt>>
    BY <2>1, <2>2 DEF Write, vars
  <2>7. Stream' = Stream \o BytesOf(m)
    BY <1>1, <2>5, <2>6
  <2>8. m \in Message /\ m.kind # "text"
    BY <2>3, <2>4 DEF Message
  <2> QED BY <2>4, <2>6, <2>7, <2>8
<1>3. CASE SendText
  <2>1. PICK c \in TextByte : /\ ~(AfterTextStart /\ c = Start2)
                              /\ Write([kind |-> "text", data |-> <<c>>], <<c>>)
    BY <1>3 DEF SendText
  <2>2. PICK m : m = [kind |-> "text", data |-> <<c>>, whole |-> TRUE, start |-> Len(received) + Len(wire) + 1]
    OBVIOUS
  <2>3. m \in TextMessage
    BY <1>0, <2>2 DEF TextMessage
  <2>4. m.kind = "text" /\ m.data = <<c>> /\ m.whole /\ m.start = Len(Stream) + 1
    BY <1>0, <2>2
  <2>5. BytesOf(m) = <<c>> /\ <<c>> \in Seq(Byte)
    BY <2>4, LinkAssumption DEF BytesOf
  <2>6. /\ wire' = wire \o <<c>> /\ received' = received
        /\ sent' = Append(sent, m)
        /\ UNCHANGED <<received, buf, logBuf, events, losses, lossAt>>
    BY <2>1, <2>2 DEF Write, vars
  <2>7. Stream' = Stream \o BytesOf(m)
    BY <1>1, <2>5, <2>6
  <2>8. m \in Message
    BY <2>3 DEF Message
  <2>9. ~(AfterTextStart /\ m.data = <<Start2>>)
    <3>1. m.data[1] = c
      BY <2>4
    <3> QED BY <2>1, <3>1
  <2> QED BY <2>4, <2>6, <2>7, <2>8, <2>9
<1> QED BY <1>2, <1>3

LEMMA ReadKeepsStream ==
  ASSUME TypedTail, LinkTyped, ReadByte
  PROVE  Stream' = Stream /\ sent' = sent
<1>1. /\ received \in Seq(Byte) /\ wire \in Seq(Byte) /\ wire # << >>
      /\ received' = Append(received, Head(wire)) /\ wire' = Tail(wire) /\ sent' = sent
  BY DEF ReadByte, Receive, TypedTail, TypeOK, LinkTyped
<1>2. Head(wire) \in Byte /\ Tail(wire) \in Seq(Byte) /\ wire = <<Head(wire)>> \o Tail(wire)
  BY <1>1, HeadTailProperties
<1>3. <<Head(wire)>> \in Seq(Byte)
  BY <1>2
<1>4. Append(received, Head(wire)) = received \o <<Head(wire)>>
  BY <1>1, <1>2, AppendIsConcat
<1>5. (received \o <<Head(wire)>>) \o Tail(wire) = received \o (<<Head(wire)>> \o Tail(wire))
  BY <1>1, <1>2, <1>3, ConcatAssociative
<1> QED BY <1>1, <1>2, <1>4, <1>5 DEF Stream

LEMMA LoseShortensStream ==
  ASSUME TypedTail, LinkTyped, LoseByte
  PROVE  /\ Stream' \in Seq(Byte)
         /\ Len(received) + 1 \in 1..Len(Stream)
         /\ Len(Stream') = Len(Stream) - 1
         /\ \A k \in 1..Len(received) : Stream'[k] = Stream[k]
         /\ \A k \in Len(received) + 1..Len(Stream') : Stream'[k] = Stream[k + 1]
         /\ sent' = Damaged(sent, Len(received) + 1)
         /\ UNCHANGED <<received, buf, logBuf, events>>
<1>1. /\ received \in Seq(Byte) /\ wire \in Seq(Byte) /\ wire # << >>
      /\ wire' = Tail(wire)
      /\ UNCHANGED <<received, buf, logBuf, events>>
      /\ sent' = Damaged(sent, Len(received) + 1)
  BY DEF LoseByte, TypedTail, TypeOK, LinkTyped, vars, Damaged
<1>2. /\ Tail(wire) \in Seq(Byte) /\ Len(received) \in Nat /\ Len(wire) \in Nat /\ Len(wire) >= 1
      /\ Len(Tail(wire)) = Len(wire) - 1
      /\ \A k \in 1..Len(Tail(wire)) : Tail(wire)[k] = wire[k + 1]
  BY <1>1
<1>3. Stream' = received \o Tail(wire)
  BY <1>1 DEF Stream
<1>4. /\ received \o Tail(wire) \in Seq(Byte)
      /\ Len(received \o Tail(wire)) = Len(received) + Len(Tail(wire))
      /\ \A k \in 1..Len(received) + Len(Tail(wire)) : (received \o Tail(wire))[k] =
           IF k <= Len(received) THEN received[k] ELSE Tail(wire)[k - Len(received)]
  BY <1>1, <1>2, ConcatProperties
<1>5. /\ Len(received \o wire) = Len(received) + Len(wire)
      /\ \A k \in 1..Len(received) + Len(wire) : (received \o wire)[k] =
           IF k <= Len(received) THEN received[k] ELSE wire[k - Len(received)]
  BY <1>1, ConcatProperties
<1>6. \A k \in 1..Len(received) : Stream'[k] = Stream[k]
  BY <1>2, <1>3, <1>4, <1>5 DEF Stream
<1>7. ASSUME NEW k \in Len(received) + 1..Len(Stream') PROVE Stream'[k] = Stream[k + 1]
  <2>1. /\ k \in 1..Len(received) + Len(Tail(wire)) /\ ~(k <= Len(received))
        /\ k + 1 \in 1..Len(received) + Len(wire) /\ ~(k + 1 <= Len(received))
        /\ k - Len(received) \in 1..Len(Tail(wire))
        /\ (k - Len(received)) + 1 = (k + 1) - Len(received)
    BY <1>2, <1>3, <1>4
  <2>2. Stream'[k] = Tail(wire)[k - Len(received)]
    BY <1>3, <1>4, <2>1
  <2>3. Stream[k + 1] = wire[(k + 1) - Len(received)]
    BY <1>5, <2>1 DEF Stream
  <2> QED BY <1>2, <2>1, <2>2, <2>3
<1>8. /\ Stream' \in Seq(Byte) /\ Len(Stream') = Len(Stream) - 1
      /\ Len(received) + 1 \in 1..Len(Stream)
  <2>1. Len(Stream) = Len(received) + Len(wire)
    BY <1>5 DEF Stream
  <2>2. Len(Stream') = Len(received) + (Len(wire) - 1)
    BY <1>2, <1>3, <1>4
  <2> QED BY <1>2, <1>3, <1>4, <2>1, <2>2
<1> QED BY <1>1, <1>6, <1>7, <1>8

LEMMA ScanKeepsStream ==
  ASSUME ScanByte \/ UNCHANGED linkVars
  PROVE  UNCHANGED <<received, wire, sent, losses, lossAt>> /\ Stream' = Stream
<1>1. ScanByte => received' = received
  BY DEF ScanByte, Scan, EndLine, DropReturn, LogByte, DropStart, TakeFrame
<1>2. UNCHANGED <<received, wire, sent, losses, lossAt>>
  BY <1>1 DEF ScanByte, linkVars, vars
<1> QED BY <1>2 DEF Stream

LEMMA StepKeepsLaidOut ==
  ASSUME TypedTail, LinkTyped, LaidOut(Stream, sent), [LinkNext]_linkVars
  PROVE  LaidOut(Stream', sent')
<1>0. Stream \in Seq(Byte) /\ sent \in Seq(Message) /\ Len(received) \in Nat
  BY StreamFacts DEF LinkTyped
<1>1. CASE SendFrame \/ SendText
  BY <1>0, <1>1, SendAppends, WrittenLaidOut
<1>2. CASE ReadByte
  BY <1>2, ReadKeepsStream
<1>3. CASE ScanByte \/ UNCHANGED linkVars
  BY <1>3, ScanKeepsStream
<1>4. CASE LoseByte
  <2>1. /\ Stream' \in Seq(Byte)
        /\ Len(received) + 1 \in 1..Len(Stream)
        /\ Len(Stream') = Len(Stream) - 1
        /\ \A k \in 1..(Len(received) + 1) - 1 : Stream'[k] = Stream[k]
        /\ \A k \in Len(received) + 1..Len(Stream') : Stream'[k] = Stream[k + 1]
        /\ sent' = Damaged(sent, Len(received) + 1)
    <3>1. (Len(received) + 1) - 1 = Len(received)
      BY <1>0
    <3> QED BY <1>4, <3>1, LoseShortensStream
  <2> QED BY <1>0, <2>1, DamagedLaidOut
<1> QED BY <1>1, <1>2, <1>3, <1>4 DEF LinkNext

LEMMA LaidOutInvariant == LinkSpec => []LaidOut(Stream, sent)
<1>1. LinkInit => LaidOut(Stream, sent)
  BY DEF LinkInit, LaidOut
<1>2. TypedTail /\ LinkTyped /\ LaidOut(Stream, sent) /\ [LinkNext]_linkVars => LaidOut(Stream, sent)'
  BY StepKeepsLaidOut
<1> QED BY <1>1, <1>2, LinkTypedInvariant, PTL DEF LinkSpec

-----------------------------------------------------------------------------
(* What the scanner sees when a whole message begins at the head of buf.   *)

LEMMA HeadMessage ==
  ASSUME TypedTail, LinkTyped, LaidOut(Stream, sent),
         NEW i \in 1..Len(sent), sent[i].whole, sent[i].start = Consumed + 1
  PROVE  \A k \in 1..LengthOf(sent[i]) : k <= Len(buf) => buf[k] = BytesOf(sent[i])[k]
<1>1. /\ Consumed \in Nat /\ Len(buf) \in Nat /\ Len(received) = Consumed + Len(buf)
      /\ \A k \in 1..Len(buf) : buf[k] = received[Consumed + k]
  BY HeadOfBuffer
<1>2. \A k \in 1..Len(received) : Stream[k] = received[k]
  BY StreamFacts
<1>3. \A k \in 1..LengthOf(sent[i]) : Stream[(Consumed + 1) + k - 1] = BytesOf(sent[i])[k]
  BY DEF LaidOut, LiesIn
<1>4. LengthOf(sent[i]) \in Nat
  BY MessageBytes DEF LinkTyped
<1>5. ASSUME NEW k \in 1..LengthOf(sent[i]), k <= Len(buf)
      PROVE  buf[k] = BytesOf(sent[i])[k]
  <2>1. /\ k \in 1..Len(buf) /\ Consumed + k \in 1..Len(received)
        /\ (Consumed + 1) + k - 1 = Consumed + k
    <3>1. k \in Nat /\ k >= 1 /\ k <= Len(buf)
      BY <1>4, <1>5
    <3>2. Consumed \in Nat /\ Len(buf) \in Nat /\ Len(received) = Consumed + Len(buf)
      BY <1>1
    <3> QED BY <3>1, <3>2, IndexBehind
  <2>2. PICK n : n = Consumed + k
    OBVIOUS
  <2>3. buf[k] = received[n]
    BY <1>1, <2>1, <2>2
  <2>4. received[n] = Stream[n]
    BY <1>2, <2>1, <2>2
  <2>5. Stream[n] = BytesOf(sent[i])[k]
    BY <1>3, <2>1, <2>2
  <2> QED BY <2>3, <2>4, <2>5
<1> QED BY <1>5

LEMMA HeadFrame ==
  ASSUME TypedTail, LinkTyped, LaidOut(Stream, sent), DevStart1 = Start1, DevStart2 = Start2,
         NEW i \in 1..Len(sent), sent[i].whole, sent[i].kind = "frame", sent[i].start = Consumed + 1
  PROVE  /\ Len(buf) >= 2 => StartsFrame(buf)
         /\ Len(buf) >= HeaderLen => Length(buf) = Len(sent[i].data)
         /\ ~IsText(buf) /\ ~IsBadFrame(buf)
         /\ IsFrame(buf) => SubSeq(buf, HeaderLen + 1, HeaderLen + Length(buf)) = sent[i].data
         /\ Len(buf) >= LengthOf(sent[i]) => IsFrame(buf)
<1> DEFINE p == sent[i].data
<1>1. /\ p \in Payload /\ LengthOf(sent[i]) = HeaderLen + Len(p)
      /\ BytesOf(sent[i]) = Frame(p)
  BY MessageBytes DEF LinkTyped, BytesOf
<1>2. p \in Seq(Byte) /\ Len(p) \in 1..MaxSize /\ Len(p) \in Nat
  BY <1>1, PayloadFacts
<1> HIDE DEF p
<1>3. /\ Frame(p)[1] = Start1 /\ Frame(p)[2] = Start2
      /\ Frame(p)[3] * 256 + Frame(p)[4] = Len(p)
      /\ \A k \in 1..Len(p) : Frame(p)[HeaderLen + k] = p[k]
  BY <1>1, FrameBytes
<1>4. \A k \in 1..HeaderLen + Len(p) : k <= Len(buf) => buf[k] = Frame(p)[k]
  <2>1. \A k \in 1..LengthOf(sent[i]) : k <= Len(buf) => buf[k] = BytesOf(sent[i])[k]
    BY HeadMessage
  <2> QED BY <1>1, <2>1
<1>5. Len(buf) \in Nat /\ buf \in Seq(Byte)
  BY DEF TypedTail, TypeOK
<1>6. Len(buf) >= 2 => StartsFrame(buf)
  <2>1. 1 \in 1..HeaderLen + Len(p) /\ 2 \in 1..HeaderLen + Len(p)
    BY <1>2 DEF HeaderLen
  <2> QED BY <1>3, <1>4, <1>5, <2>1 DEF StartsFrame
<1>7. Len(buf) >= HeaderLen => Length(buf) = Len(p)
  <2>1. 3 \in 1..HeaderLen + Len(p) /\ 4 \in 1..HeaderLen + Len(p)
    BY <1>2 DEF HeaderLen
  <2>2. Len(buf) >= HeaderLen => buf[3] = Frame(p)[3] /\ buf[4] = Frame(p)[4]
    BY <1>4, <1>5, <2>1 DEF HeaderLen
  <2> QED BY <1>3, <2>2 DEF Length
<1>8. ~IsText(buf)
  BY <1>6 DEF IsText
<1>9. ~BadLength(Len(p))
  BY <1>2 DEF BadLength
<1>10. ~IsBadFrame(buf)
  BY <1>7, <1>9 DEF IsBadFrame
<1>11. ASSUME IsFrame(buf) PROVE SubSeq(buf, HeaderLen + 1, HeaderLen + Length(buf)) = p
  <2>1. Length(buf) = Len(p) /\ Len(buf) >= HeaderLen + Len(p)
    BY <1>7, <1>11 DEF IsFrame
  <2> DEFINE d == SubSeq(buf, HeaderLen + 1, HeaderLen + Length(buf))
  <2>2. /\ d \in Seq(Byte) /\ Len(d) = Len(p)
        /\ \A k \in 1..Len(p) : d[k] = buf[HeaderLen + k]
    BY <1>2, <1>5, <2>1 DEF HeaderLen
  <2> HIDE DEF d
  <2>3. ASSUME NEW k \in 1..Len(p) PROVE d[k] = p[k]
    <3>1. HeaderLen + k \in 1..HeaderLen + Len(p) /\ HeaderLen + k <= Len(buf)
      BY <1>2, <1>5, <2>1 DEF HeaderLen
    <3> QED BY <1>3, <1>4, <2>2, <3>1
  <2>4. d = p
    BY <1>2, <2>2, <2>3, SeqEqual
  <2> QED BY <2>4 DEF d
<1>12. ASSUME Len(buf) >= LengthOf(sent[i]) PROVE IsFrame(buf)
  <2>1. Len(buf) >= HeaderLen + Len(p)
    BY <1>1, <1>12
  <2>2. Len(buf) >= HeaderLen /\ Len(buf) >= 2
    BY <1>2, <1>5, <2>1 DEF HeaderLen
  <2> QED BY <1>6, <1>7, <1>9, <2>1, <2>2 DEF IsFrame
<1> QED BY <1>6, <1>7, <1>8, <1>10, <1>11, <1>12 DEF p

LEMMA HeadText ==
  ASSUME TypedTail, LinkTyped, LaidOut(Stream, sent),
         NEW i \in 1..Len(sent), sent[i].whole, sent[i].kind = "text", sent[i].start = Consumed + 1,
         Len(buf) >= 1
  PROVE  sent[i].data = <<Head(buf)>>
<1>1. PICK c \in TextByte : sent[i].data = <<c>>
  BY MessageBytes DEF LinkTyped
<1>2. LengthOf(sent[i]) = 1 /\ BytesOf(sent[i]) = sent[i].data
  BY MessageBytes DEF LinkTyped
<1>3. buf[1] = BytesOf(sent[i])[1]
  BY <1>2, HeadMessage
<1>4. buf[1] = c /\ Head(buf) = buf[1]
  BY <1>1, <1>2, <1>3 DEF TypedTail, TypeOK
<1> QED BY <1>1, <1>4

-----------------------------------------------------------------------------
(* After a loss.  Behind the place of the last loss every header is that   *)
(* of a whole frame, because the device writes none anywhere else; a text  *)
(* byte that is followed by the wrong byte would make one, and is told     *)
(* apart at the end of the stream.                                         *)

HeadersTrue(s, q, n) ==
  \A k \in n + 1..Len(s) - 1 :
    HeaderAt(s, k) => \E i \in 1..Len(q) : q[i].whole /\ q[i].kind = "frame" /\ q[i].start = k

EndsInTextStart(q) == q # << >> /\ q[Len(q)].kind = "text" /\ q[Len(q)].data = <<Start1>>

TailTold(s, q, n) == Len(s) > n /\ s[Len(s)] = Start1 => EndsInTextStart(q)

LossPlace == lossAt <= Len(received) /\ (losses = 0 => lossAt = 0)

(* Nothing looks like a frame behind the last loss but what is one.        *)
NoGhosts == LossPlace /\ HeadersTrue(Stream, sent, lossAt) /\ TailTold(Stream, sent, lossAt)

LEMMA WrittenHeaders ==
  ASSUME DevStart1 = Start1, DevStart2 = Start2,
         NEW s \in Seq(Byte), NEW q \in Seq(Message), NEW n \in Nat, n <= Len(s),
         HeadersTrue(s, q, n), TailTold(s, q, n),
         NEW m \in Message, m.start = Len(s) + 1, m.whole,
         m.kind = "frame" => NoFalseStart(Frame(m.data)),
         m.kind = "text" => ~(EndsInTextStart(q) /\ m.data = <<Start2>>)
  PROVE  HeadersTrue(s \o BytesOf(m), Append(q, m), n) /\ TailTold(s \o BytesOf(m), Append(q, m), n)
<1> DEFINE t == s \o BytesOf(m)
           r == Append(q, m)
           w == BytesOf(m)
           l == LengthOf(m)
<1>1. w \in Seq(Byte) /\ Len(w) = l /\ l \in Nat \ {0} /\ Len(s) \in Nat /\ Len(q) \in Nat
  BY MessageBytes
<1>2. /\ Len(t) = Len(s) + l
      /\ \A i \in 1..Len(s) : t[i] = s[i]
      /\ \A k \in 1..l : t[Len(s) + k] = w[k]
  <2> HIDE DEF w, l
  <2>1. /\ Len(s \o w) = Len(s) + Len(w)
        /\ \A i \in 1..Len(s) + Len(w) : (s \o w)[i] = IF i <= Len(s) THEN s[i] ELSE w[i - Len(s)]
    BY <1>1, ConcatProperties
  <2>2. t = s \o w
    BY DEF w
  <2> HIDE DEF t
  <2> QED BY <1>1, <2>1, <2>2
<1>3. /\ Len(r) = Len(q) + 1
      /\ r[Len(q) + 1] = m
      /\ \A i \in 1..Len(q) : r[i] = q[i]
      /\ r # << >>
  OBVIOUS
<1>4. m.kind \in {"frame", "text"}
  BY MessageBytes
<1>5. ASSUME m.kind = "frame"
      PROVE  w[1] = Start1 /\ w[l] # Start1 /\ \A k \in 2..l - 1 : ~(w[k] = Start1 /\ w[k + 1] = Start2)
  <2>1. m.data \in Payload /\ w = Frame(m.data)
    BY <1>5, MessageBytes DEF BytesOf
  <2>2. Len(Frame(m.data)) = l
    BY <1>1, <2>1
  <2>3. NoFalseStart(Frame(m.data)) /\ Frame(m.data)[1] = Start1
    BY <1>5, <2>1, FrameBytes
  <2> HIDE DEF w, l
  <2> QED BY <2>1, <2>2, <2>3 DEF NoFalseStart
<1>6. ASSUME m.kind = "text" PROVE l = 1 /\ m.data = <<w[1]>>
  <2>1. l = 1 /\ w = m.data /\ m.data \in {<<c>> : c \in TextByte}
    BY <1>6, MessageBytes
  <2>2. PICK c \in TextByte : m.data = <<c>>
    BY <2>1
  <2> QED BY <2>1, <2>2
<1> HIDE DEF t, r, w, l
<1>7. ASSUME NEW k \in n + 1..Len(t) - 1, HeaderAt(t, k)
      PROVE  \E i \in 1..Len(r) : r[i].whole /\ r[i].kind = "frame" /\ r[i].start = k
  <2>1. k \in Nat /\ k >= 1 /\ k >= n + 1 /\ k + 1 <= Len(t) /\ t[k] = Start1 /\ t[k + 1] = Start2
    BY <1>1, <1>2, <1>7 DEF HeaderAt
  <2>2. CASE k + 1 <= Len(s)
    <3>1. k \in n + 1..Len(s) - 1 /\ k \in 1..Len(s) /\ k + 1 \in 1..Len(s)
      BY <1>1, <2>1, <2>2
    <3>2. HeaderAt(s, k)
      BY <1>2, <2>1, <2>2, <3>1 DEF HeaderAt
    <3>3. PICK i \in 1..Len(q) : q[i].whole /\ q[i].kind = "frame" /\ q[i].start = k
      BY <3>1, <3>2 DEF HeadersTrue
    <3>4. i \in 1..Len(r) /\ r[i] = q[i]
      BY <1>1, <1>3
    <3> QED BY <3>3, <3>4
  <2>3. CASE k = Len(s)
    <3>1. s[Len(s)] = Start1 /\ Len(s) > n
      BY <1>1, <1>2, <2>1, <2>3
    <3>2. EndsInTextStart(q)
      BY <3>1 DEF TailTold
    <3>3. w[1] = Start2
      BY <1>1, <1>2, <2>1, <2>3
    <3>4. m.kind # "frame"
      BY <1>5, <3>3 DEF Start1, Start2
    <3> QED BY <1>4, <1>6, <3>2, <3>3, <3>4
  <2>4. CASE k > Len(s)
    <3>0. k - Len(s) \in Nat
      BY <1>1, <2>1, <2>4
    <3>1. PICK j \in Nat : j = k - Len(s)
      BY <3>0
    <3>2. j \in 1..l - 1 /\ j \in 1..l /\ j + 1 \in 1..l /\ k = Len(s) + j /\ k + 1 = Len(s) + (j + 1)
      BY <1>1, <1>2, <2>1, <2>4, <3>1
    <3>3. w[j] = Start1 /\ w[j + 1] = Start2
      BY <1>2, <2>1, <3>2
    <3>4. m.kind = "frame"
      BY <1>1, <1>4, <1>6, <3>2
    <3>5. ~(j \in 2..l - 1)
      BY <1>5, <3>3, <3>4
    <3>6. j = 1
      BY <1>1, <3>2, <3>5
    <3>7. m.start = k
      BY <3>2, <3>6
    <3>8. Len(q) + 1 \in 1..Len(r)
      BY <1>1, <1>3
    <3> QED BY <1>3, <3>4, <3>7, <3>8
  <2> QED BY <1>1, <2>1, <2>2, <2>3, <2>4
<1>8. ASSUME t[Len(t)] = Start1 PROVE EndsInTextStart(r)
  <2>1. w[l] = Start1
    BY <1>1, <1>2, <1>8
  <2>2. m.kind = "text"
    BY <1>4, <1>5, <2>1
  <2>3. m.data = <<Start1>>
    BY <1>6, <2>1, <2>2
  <2> QED BY <1>3, <2>2, <2>3 DEF EndsInTextStart
<1>9. HeadersTrue(t, r, n) /\ TailTold(t, r, n)
  BY <1>7, <1>8 DEF HeadersTrue, TailTold
<1> QED BY <1>9 DEF t, r

(* What a byte that is lost makes of headers lies in front of its place.   *)
LEMMA DamagedHeaders ==
  ASSUME NEW s \in Seq(Byte), NEW t \in Seq(Byte), NEW q \in Seq(Message),
         NEW gone \in 1..Len(s), Len(t) = Len(s) - 1,
         \A k \in gone..Len(t) : t[k] = s[k + 1],
         NEW n \in Nat, n < gone, HeadersTrue(s, q, n), TailTold(s, q, n),
         NEW g \in Nat, g + 1 = gone
  PROVE  HeadersTrue(t, Damaged(q, gone), g) /\ TailTold(t, Damaged(q, gone), g)
<1> DEFINE r == Damaged(q, gone)
<1>1. /\ Len(s) \in Nat /\ Len(t) \in Nat /\ Len(q) \in Nat /\ gone \in Nat
      /\ gone >= 1 /\ gone <= Len(s) /\ Len(s) = Len(t) + 1
  OBVIOUS
<1>2. Len(r) = Len(q)
  BY <1>1, DamagedTyped DEF Damaged
<1>3. \A i \in 1..Len(q) : /\ r[i].kind = q[i].kind /\ r[i].data = q[i].data
                           /\ r[i].start = IF q[i].start > gone THEN q[i].start - 1 ELSE q[i].start
                           /\ q[i].whole /\ q[i].start > gone => r[i].whole
  <2> SUFFICES ASSUME NEW i \in 1..Len(q)
               PROVE  /\ r[i].kind = q[i].kind /\ r[i].data = q[i].data
                      /\ r[i].start = IF q[i].start > gone THEN q[i].start - 1 ELSE q[i].start
                      /\ q[i].whole /\ q[i].start > gone => r[i].whole
    OBVIOUS
  <2> QED BY <1>1, DamagedFacts
<1> HIDE DEF r
<1>4. ASSUME NEW k \in g + 1..Len(t) - 1, HeaderAt(t, k)
      PROVE  \E i \in 1..Len(r) : r[i].whole /\ r[i].kind = "frame" /\ r[i].start = k
  <2>1. /\ k \in Nat /\ k \in gone..Len(t) /\ k + 1 \in gone..Len(t)
        /\ k + 1 \in n + 1..Len(s) - 1 /\ (k + 1) + 1 <= Len(s)
    BY <1>1, <1>4
  <2>2. HeaderAt(s, k + 1)
    <3>1. t[k] = Start1 /\ t[k + 1] = Start2
      BY <1>4 DEF HeaderAt
    <3>2. s[k + 1] = Start1 /\ s[(k + 1) + 1] = Start2
      BY <2>1, <3>1
    <3> QED BY <2>1, <3>2 DEF HeaderAt
  <2>3. PICK i \in 1..Len(q) : q[i].whole /\ q[i].kind = "frame" /\ q[i].start = k + 1
    BY <2>1, <2>2 DEF HeadersTrue
  <2>4. q[i].start > gone /\ q[i].start - 1 = k
    BY <1>1, <2>1, <2>3
  <2> QED BY <1>2, <1>3, <2>3, <2>4
<1>5. ASSUME Len(t) > g, t[Len(t)] = Start1 PROVE EndsInTextStart(r)
  <2>1. Len(t) \in gone..Len(t) /\ Len(t) + 1 = Len(s) /\ Len(s) > n
    BY <1>1, <1>5
  <2>2. s[Len(s)] = Start1
    BY <1>5, <2>1
  <2>3. EndsInTextStart(q)
    BY <2>1, <2>2 DEF TailTold
  <2>4. Len(q) \in 1..Len(q)
    BY <1>1, <2>3 DEF EndsInTextStart
  <2>5. r[Len(q)].kind = "text" /\ r[Len(q)].data = <<Start1>>
    BY <1>3, <2>3, <2>4 DEF EndsInTextStart
  <2>6. r # << >>
    BY <1>2, <2>4
  <2> QED BY <1>2, <2>5, <2>6 DEF EndsInTextStart
<1>6. HeadersTrue(t, r, g) /\ TailTold(t, r, g)
  BY <1>4, <1>5 DEF HeadersTrue, TailTold
<1> QED BY <1>6 DEF r

(* No step takes back a frame that was sent or changes what it holds: as   *)
(* long as what has been sent is clean, what had been sent before is.      *)
LEMMA CleanBefore ==
  ASSUME TypedTail, LinkTyped, [LinkNext]_linkVars, SentCleanly'
  PROVE  SentCleanly
<1>1. sent \in Seq(Message)
  BY DEF LinkTyped
<1>2. /\ Len(sent') >= Len(sent)
      /\ \A i \in 1..Len(sent) : sent'[i].kind = sent[i].kind /\ sent'[i].data = sent[i].data
  <2>1. CASE SendFrame \/ SendText
    <3>1. PICK m \in Message : sent' = Append(sent, m)
      BY <2>1, SendAppends
    <3> QED BY <1>1, <3>1
  <2>2. CASE LoseByte
    <3>1. sent' = Damaged(sent, Len(received) + 1) /\ Len(received) + 1 \in Nat
      BY <2>2, LoseShortensStream
    <3>2. Len(Damaged(sent, Len(received) + 1)) = Len(sent)
      BY <1>1, <3>1 DEF Damaged
    <3>3. \A i \in 1..Len(sent) :
            /\ Damaged(sent, Len(received) + 1)[i].kind = sent[i].kind
            /\ Damaged(sent, Len(received) + 1)[i].data = sent[i].data
      BY <1>1, <3>1, DamagedFacts
    <3> QED BY <1>1, <3>1, <3>2, <3>3
  <2>3. CASE ReadByte \/ ScanByte \/ UNCHANGED linkVars
    <3>1. sent' = sent
      BY <2>3 DEF ReadByte, ScanByte, linkVars
    <3> QED BY <1>1, <3>1
  <2> QED BY <2>1, <2>2, <2>3 DEF LinkNext
<1>3. DOMAIN sent = 1..Len(sent) /\ Len(sent) \in Nat
  BY <1>1
<1>4. sent' \in Seq(Message)
  BY StepKeepsLinkTyped DEF LinkTyped
<1>5. DOMAIN sent' = 1..Len(sent') /\ Len(sent') \in Nat
  BY <1>4
<1>6. ASSUME NEW i \in DOMAIN sent, sent[i].kind = "frame" PROVE NoFalseStart(Frame(sent[i].data))
  <2>1. i \in DOMAIN sent'
    BY <1>2, <1>3, <1>5
  <2>2. sent'[i].kind = sent[i].kind /\ sent'[i].data = sent[i].data
    BY <1>2, <1>3
  <2> QED BY <1>6, <2>1, <2>2 DEF SentCleanly
<1> QED BY <1>6 DEF SentCleanly

LEMMA StepKeepsNoGhosts ==
  ASSUME DevStart1 = Start1, DevStart2 = Start2, SentCleanly',
         TypedTail, LinkTyped, NoGhosts, [LinkNext]_linkVars
  PROVE  NoGhosts'
<1>0. /\ Stream \in Seq(Byte) /\ sent \in Seq(Message) /\ Len(received) \in Nat /\ lossAt \in Nat
      /\ losses \in Nat /\ Len(Stream) \in Nat /\ Len(received) <= Len(Stream)
      /\ lossAt <= Len(received) /\ lossAt <= Len(Stream)
      /\ HeadersTrue(Stream, sent, lossAt) /\ TailTold(Stream, sent, lossAt)
  BY StreamFacts DEF LinkTyped, NoGhosts, LossPlace
<1>1. CASE SendFrame \/ SendText
  <2>1. PICK m \in Message :
          /\ m.start = Len(Stream) + 1 /\ m.whole
          /\ sent' = Append(sent, m)
          /\ Stream' = Stream \o BytesOf(m)
          /\ UNCHANGED <<received, buf, logBuf, events, losses, lossAt>>
          /\ m.kind = "text" => ~(AfterTextStart /\ m.data = <<Start2>>)
    BY <1>1, SendAppends
  <2>2. m.kind = "text" => ~(EndsInTextStart(sent) /\ m.data = <<Start2>>)
    BY <2>1 DEF EndsInTextStart, AfterTextStart
  <2>3. m.kind = "frame" => NoFalseStart(Frame(m.data))
    <3>1. Len(sent) + 1 \in DOMAIN sent' /\ sent'[Len(sent) + 1] = m
      BY <1>0, <2>1
    <3> QED BY <3>1 DEF SentCleanly
  <2>4. HeadersTrue(Stream', sent', lossAt) /\ TailTold(Stream', sent', lossAt)
    BY <1>0, <2>1, <2>2, <2>3, WrittenHeaders
  <2>5. LossPlace'
    BY <2>1 DEF NoGhosts, LossPlace
  <2> QED BY <2>1, <2>4, <2>5 DEF NoGhosts
<1>2. CASE ReadByte
  <2>1. Stream' = Stream /\ sent' = sent /\ lossAt' = lossAt /\ losses' = losses
    BY <1>2, ReadKeepsStream DEF ReadByte
  <2>2. Len(received') = Len(received) + 1
    BY <1>2 DEF ReadByte, Receive, TypedTail, TypeOK, LinkTyped
  <2>3. LossPlace'
    BY <1>0, <2>1, <2>2 DEF NoGhosts, LossPlace
  <2> QED BY <1>0, <2>1, <2>3 DEF NoGhosts
<1>3. CASE ScanByte \/ UNCHANGED linkVars
  BY <1>3, ScanKeepsStream DEF NoGhosts, LossPlace
<1>4. CASE LoseByte
  <2> DEFINE gone == Len(received) + 1
  <2>1. /\ Stream' \in Seq(Byte)
        /\ gone \in 1..Len(Stream)
        /\ Len(Stream') = Len(Stream) - 1
        /\ \A k \in gone..Len(Stream') : Stream'[k] = Stream[k + 1]
        /\ sent' = Damaged(sent, gone)
        /\ received' = received
    BY <1>4, LoseShortensStream
  <2>2. lossAt' = Len(received) /\ losses' = losses + 1
    BY <1>4 DEF LoseByte
  <2>3. lossAt < gone
    BY <1>0
  <2> HIDE DEF gone
  <2>4. Len(received) + 1 = gone
    BY DEF gone
  <2>5. HeadersTrue(Stream', sent', Len(received)) /\ TailTold(Stream', sent', Len(received))
    BY <1>0, <2>1, <2>3, <2>4, DamagedHeaders
  <2>6. LossPlace'
    BY <1>0, <2>1, <2>2 DEF LossPlace
  <2> QED BY <2>2, <2>5, <2>6 DEF NoGhosts
<1> QED BY <1>1, <1>2, <1>3, <1>4 DEF LinkNext

LEMMA NoGhostsInvariant ==
  ASSUME DevStart1 = Start1, DevStart2 = Start2
  PROVE  LinkSpec => [](SentCleanly => NoGhosts)
<1>1. LinkInit => NoGhosts
  <2> SUFFICES ASSUME LinkInit PROVE NoGhosts
    OBVIOUS
  <2>1. received = << >> /\ wire = << >> /\ losses = 0 /\ lossAt = 0
    BY DEF LinkInit, Init
  <2>2. Stream = << >>
    BY <2>1 DEF Stream
  <2>3. Len(Stream) = 0 /\ Len(received) = 0
    BY <2>1, <2>2
  <2> QED BY <2>1, <2>3 DEF NoGhosts, LossPlace, HeadersTrue, TailTold
<1>2. /\ TypedTail /\ LinkTyped /\ (SentCleanly => NoGhosts) /\ [LinkNext]_linkVars
      => (SentCleanly => NoGhosts)'
  BY CleanBefore, StepKeepsNoGhosts
<1> QED BY <1>1, <1>2, LinkTypedInvariant, PTL DEF LinkSpec

(* A whole frame of the device is a frame of the input, as far as it has   *)
(* been read.                                                              *)
LEMMA FrameReceived ==
  ASSUME TypedTail, LinkTyped, LaidOut(Stream, sent), DevStart1 = Start1, DevStart2 = Start2,
         NEW i \in 1..Len(sent), sent[i].whole, sent[i].kind = "frame"
  PROVE  /\ sent[i].start \in Nat /\ sent[i].start >= 1
         /\ Len(sent[i].data) \in 1..MaxSize
         /\ LengthOf(sent[i]) = HeaderLen + Len(sent[i].data)
         /\ sent[i].start + LengthOf(sent[i]) <= Len(Stream) + 1
         /\ sent[i].start + 1 <= Len(received) => HeaderAt(received, sent[i].start)
         /\ sent[i].start + 3 <= Len(received) =>
              LengthAt(received, sent[i].start) = Len(sent[i].data)
         /\ \A k \in 1..Len(sent[i].data) :
              sent[i].start + HeaderLen + k - 1 <= Len(received)
                => received[sent[i].start + HeaderLen + k - 1] = sent[i].data[k]
<1> DEFINE p == sent[i].data
           a == sent[i].start
<1>1. /\ p \in Payload /\ LengthOf(sent[i]) = HeaderLen + Len(p)
      /\ BytesOf(sent[i]) = Frame(p) /\ a \in Nat
  BY MessageBytes DEF LinkTyped, BytesOf
<1>2. p \in Seq(Byte) /\ Len(p) \in 1..MaxSize /\ Len(p) \in Nat
  BY <1>1, PayloadFacts
<1>3. /\ a >= 1
      /\ a + LengthOf(sent[i]) <= Len(Stream) + 1
      /\ \A k \in 1..LengthOf(sent[i]) : Stream[a + k - 1] = BytesOf(sent[i])[k]
  BY DEF LaidOut, LiesIn
<1> HIDE DEF p, a
<1>4. /\ Frame(p)[1] = Start1 /\ Frame(p)[2] = Start2
      /\ Frame(p)[3] * 256 + Frame(p)[4] = Len(p)
      /\ \A k \in 1..Len(p) : Frame(p)[HeaderLen + k] = p[k]
  BY <1>1, FrameBytes
<1>5. /\ Len(Stream) \in Nat /\ Len(received) \in Nat
      /\ \A k \in 1..Len(received) : Stream[k] = received[k]
  BY StreamFacts
<1>6. ASSUME NEW k \in 1..HeaderLen + Len(p), NEW n \in Nat, n = a + k - 1, n <= Len(received)
      PROVE  received[n] = Frame(p)[k]
  <2>1. n \in 1..Len(received)
    BY <1>1, <1>2, <1>3, <1>5, <1>6 DEF HeaderLen
  <2>2. Stream[n] = Frame(p)[k]
    BY <1>1, <1>3, <1>6
  <2> QED BY <1>5, <2>1, <2>2
<1>7. /\ 1 \in 1..HeaderLen + Len(p) /\ 2 \in 1..HeaderLen + Len(p)
      /\ 3 \in 1..HeaderLen + Len(p) /\ 4 \in 1..HeaderLen + Len(p)
  BY <1>2 DEF HeaderLen
<1>8. /\ a = a + 1 - 1 /\ a + 1 = a + 2 - 1 /\ a + 2 = a + 3 - 1 /\ a + 3 = a + 4 - 1
      /\ a + 1 \in Nat /\ a + 2 \in Nat /\ a + 3 \in Nat
  BY <1>1
<1>9. a + 1 <= Len(received) => HeaderAt(received, a)
  <2> SUFFICES ASSUME a + 1 <= Len(received) PROVE HeaderAt(received, a)
    OBVIOUS
  <2>1. a <= Len(received)
    BY <1>1, <1>5
  <2>2. received[a] = Start1 /\ received[a + 1] = Start2
    BY <1>1, <1>4, <1>6, <1>7, <1>8, <2>1
  <2> QED BY <2>2 DEF HeaderAt
<1>10. a + 3 <= Len(received) => LengthAt(received, a) = Len(p)
  <2> SUFFICES ASSUME a + 3 <= Len(received) PROVE LengthAt(received, a) = Len(p)
    OBVIOUS
  <2>1. a + 2 <= Len(received)
    BY <1>1, <1>5
  <2>2. received[a + 2] = Frame(p)[3] /\ received[a + 3] = Frame(p)[4]
    BY <1>6, <1>7, <1>8, <2>1
  <2> QED BY <1>4, <2>2 DEF LengthAt
<1>11. ASSUME NEW k \in 1..Len(p), a + HeaderLen + k - 1 <= Len(received)
       PROVE  received[a + HeaderLen + k - 1] = p[k]
  <2>1. /\ HeaderLen + k \in 1..HeaderLen + Len(p) /\ a + HeaderLen + k - 1 \in Nat
        /\ a + HeaderLen + k - 1 = a + (HeaderLen + k) - 1
    BY <1>1, <1>2 DEF HeaderLen
  <2> QED BY <1>4, <1>6, <1>11, <2>1
<1> QED BY <1>1, <1>2, <1>3, <1>9, <1>10, <1>11 DEF p, a

Settled == IF losses = 0 THEN 1 ELSE lossAt + HeaderLen + MaxSize

(* Two frames of the input do not overlap when both are frames of the      *)
(* device; one that begins in front of the last loss ends in front of      *)
(* Settled.                                                                *)
LEMMA FramesKeepClear ==
  ASSUME DevStart1 = Start1, DevStart2 = Start2,
         TypedTail, LinkTyped, LaidOut(Stream, sent), NoGhosts,
         NEW i \in 1..Len(sent), sent[i].whole, sent[i].kind = "frame", sent[i].start >= Settled,
         NEW a \in Nat, a >= 1, a < sent[i].start, a + 3 <= Len(received),
         HeaderAt(received, a), LengthAt(received, a) \in 1..MaxSize
  PROVE  /\ a + HeaderLen + LengthAt(received, a) <= sent[i].start
<1>1. /\ sent[i].start \in Nat /\ Len(received) \in Nat /\ Len(Stream) \in Nat /\ lossAt \in Nat
      /\ Len(received) <= Len(Stream)
      /\ \A k \in 1..Len(received) : Stream[k] = received[k]
  BY FrameReceived, StreamFacts DEF LinkTyped
<1>2. CASE a <= lossAt
  <2>1. losses # 0
    BY <1>1, <1>2 DEF NoGhosts, LossPlace
  <2>2. sent[i].start >= lossAt + HeaderLen + MaxSize
    BY <2>1 DEF Settled
  <2>3. PICK l \in Nat : l = LengthAt(received, a) /\ l <= MaxSize
    OBVIOUS
  <2>4. \A x, y, b, c \in Nat : b <= x /\ x + 4 + MaxSize <= c /\ y <= MaxSize => b + 4 + y <= c
    BY MaxSizeAssumption
  <2>5. lossAt + 4 + MaxSize <= sent[i].start
    BY <1>1, <2>2 DEF HeaderLen
  <2>6. a + 4 + l <= sent[i].start
    BY <1>1, <1>2, <2>3, <2>4, <2>5
  <2> QED BY <2>3, <2>6 DEF HeaderLen
<1>3. CASE a > lossAt
  <2>1. a \in lossAt + 1..Len(Stream) - 1 /\ a \in 1..Len(received) /\ a + 1 \in 1..Len(received)
        /\ a + 1 <= Len(Stream) /\ a + 1 <= Len(received)
    BY <1>1, <1>3
  <2>2. HeaderAt(Stream, a)
    BY <1>1, <2>1 DEF HeaderAt
  <2>3. PICK j \in 1..Len(sent) : sent[j].whole /\ sent[j].kind = "frame" /\ sent[j].start = a
    BY <2>1, <2>2 DEF NoGhosts, HeadersTrue
  <2>4. LengthOf(sent[j]) = HeaderLen + LengthAt(received, a)
    BY <2>3, FrameReceived
  <2>5. j # i
    BY <1>1, <2>3
  <2>6. CASE j < i
    <3>1. sent[j].start + LengthOf(sent[j]) <= sent[i].start
      BY <2>3, <2>6 DEF LaidOut, InOrder
    <3>2. PICK l \in Nat : l = LengthAt(received, a)
      OBVIOUS
    <3>3. a + (HeaderLen + l) <= sent[i].start
      BY <2>3, <2>4, <3>1, <3>2
    <3> QED BY <1>1, <3>2, <3>3 DEF HeaderLen
  <2>7. CASE i < j
    <3>1. sent[i].start <= sent[j].start
      BY <2>7 DEF LaidOut, InOrder
    <3> QED BY <1>1, <2>3, <3>1
  <2>8. Len(sent) \in Nat
    BY DEF LinkTyped
  <2> QED BY <2>5, <2>6, <2>7, <2>8
<1> QED BY <1>1, <1>2, <1>3

(* A whole frame that the scanner has passed, and that begins late enough  *)
(* after the last loss, was handed on.                                     *)
LEMMA PassedIsHandedOn ==
  ASSUME DevStart1 = Start1, DevStart2 = Start2,
         TypedTail, Handled, Decided, LinkTyped, LaidOut(Stream, sent), NoGhosts,
         NEW i \in 1..Len(sent), sent[i].whole, sent[i].kind = "frame", sent[i].start >= Settled,
         sent[i].start <= Consumed, sent[i].start + 3 <= Len(received)
  PROVE  FrameHandedOn(sent[i])
<1> DEFINE a == sent[i].start
           p == sent[i].data
<1>1. /\ a \in Nat /\ a >= 1 /\ Len(p) \in 1..MaxSize /\ Len(p) \in Nat
      /\ a + 1 <= Len(received) /\ Len(received) \in Nat
      /\ HeaderAt(received, a) /\ LengthAt(received, a) = Len(p)
      /\ \A k \in 1..Len(p) :
           a + HeaderLen + k - 1 <= Len(received) => received[a + HeaderLen + k - 1] = p[k]
  <2>1. sent[i].start \in Nat /\ Len(received) \in Nat
    BY FrameReceived, StreamFacts
  <2>2. sent[i].start + 1 <= Len(received)
    BY <2>1
  <2> QED BY <2>1, <2>2, FrameReceived
<1>2. Consumed \in Nat /\ Len(received) = Consumed + Len(buf) /\ Len(buf) \in Nat
  BY HeadOfBuffer
<1>3. ~NoFrameAt(received, a)
  BY <1>1 DEF NoFrameAt, OpensFrame
<1>4. TakenBy(events, a)
  <2>1. a \in 1..Consumed
    BY <1>1, <1>2
  <2> QED BY <1>3, <2>1 DEF Decided
<1>5. PICK n \in 1..Len(events) :
        events[n].kind = "frame" /\ events[n].at <= a /\ a <= LastByteOf(events[n])
  BY <1>4 DEF TakenBy
<1>6. /\ events[n].at \in Nat /\ events[n].at >= 1
      /\ LastByteOf(events[n]) \in Nat /\ LastByteOf(events[n]) <= Consumed
      /\ LengthKnownAt(received, events[n].at)
      /\ OpensFrame(received, events[n].at)
      /\ EndOfFrame(received, events[n].at) = LastByteOf(events[n]) + 1
  BY <1>5, TakenFrameFacts
<1>7. events[n].at = a
  <2>1. events[n].at \in Nat /\ a \in Nat /\ events[n].at <= a
    BY <1>1, <1>5, <1>6
  <2>2. events[n].at = a \/ events[n].at < a
    <3>1. \A x, y \in Nat : x <= y => x = y \/ x < y
      OBVIOUS
    <3> HIDE DEF a
    <3> QED BY <2>1, <3>1
  <2> SUFFICES ASSUME events[n].at < a PROVE FALSE
    BY <2>2
  <2>3. /\ HeaderAt(received, events[n].at) /\ events[n].at + 3 <= Len(received)
        /\ LengthAt(received, events[n].at) \in 1..MaxSize
    BY <1>6 DEF OpensFrame, LengthKnownAt
  <2>4. events[n].at + HeaderLen + LengthAt(received, events[n].at) <= a
    BY <1>6, <2>3, FramesKeepClear
  <2>5. LastByteOf(events[n]) + 1 <= a
    BY <1>6, <2>4 DEF EndOfFrame
  <2> QED BY <1>1, <1>5, <1>6, <2>5
<1>8. SoundFrame(events[n]) /\ n \in FrameEvents
  BY <1>5 DEF Handled, FramesSound, FrameEvents
<1>9. events[n] \in Event /\ events[n].data \in Seq(Byte)
  BY <1>5 DEF TypedTail, TypeOK, Event
<1> HIDE DEF a, p
<1>10. Len(events[n].data) = Len(p) /\ Len(events[n].data) \in Nat
  BY <1>1, <1>7, <1>8 DEF SoundFrame
<1>11. LastByteOf(events[n]) = a + HeaderLen + Len(p) - 1
  BY <1>5, <1>7, <1>10 DEF LastByteOf
<1>12. ASSUME NEW k \in 1..Len(p) PROVE events[n].data[k] = p[k]
  <2>1. a + HeaderLen + k - 1 <= Len(received)
    <3>1. a + HeaderLen + Len(p) - 1 <= Consumed
      BY <1>6, <1>11
    <3>2. a + HeaderLen + k - 1 <= a + HeaderLen + Len(p) - 1
      BY <1>1 DEF HeaderLen
    <3> QED BY <1>1, <1>2, <3>1, <3>2 DEF HeaderLen
  <2>2. received[a + HeaderLen + k - 1] = p[k]
    BY <1>1, <2>1
  <2>3. events[n].data[k] = received[a + HeaderLen + k - 1]
    BY <1>7, <1>8, <1>10 DEF SoundFrame
  <2> QED BY <2>2, <2>3
<1>13. p \in Seq(Byte)
  BY MessageBytes, PayloadFacts DEF LinkTyped, p
<1>14. events[n].data = p
  BY <1>9, <1>10, <1>12, <1>13, SeqEqual
<1> QED BY <1>7, <1>8, <1>14 DEF FrameHandedOn, a, p

(* When all has been read and the loop waits, it has passed every such     *)
(* frame: it would wait inside the first one that it had not.              *)
LEMMA NoGhostsResynchronises ==
  ASSUME DevStart1 = Start1, DevStart2 = Start2,
         TypedTail, Handled, Decided, LinkTyped, LaidOut(Stream, sent),
         SentCleanly => NoGhosts
  PROVE  Resynchronises
<1> SUFFICES ASSUME NoGhosts, wire = << >>, Blocked(buf),
                    NEW i \in DOMAIN sent, sent[i].kind = "frame", sent[i].whole,
                    losses = 0 \/ sent[i].start >= lossAt + HeaderLen + MaxSize
             PROVE  FrameHandedOn(sent[i])
  BY DEF Resynchronises
<1>1. i \in 1..Len(sent)
  BY DEF LinkTyped
<1>2. /\ sent[i].start \in Nat /\ sent[i].start >= 1
      /\ Len(sent[i].data) \in 1..MaxSize
      /\ LengthOf(sent[i]) = HeaderLen + Len(sent[i].data)
      /\ sent[i].start + LengthOf(sent[i]) <= Len(Stream) + 1
      /\ sent[i].start + 1 <= Len(received) => HeaderAt(received, sent[i].start)
      /\ sent[i].start + 3 <= Len(received) =>
           LengthAt(received, sent[i].start) = Len(sent[i].data)
  BY <1>1, FrameReceived
<1>3. sent[i].start >= Settled
  BY <1>2 DEF Settled
<1>4. Len(Stream) = Len(received) /\ Len(received) \in Nat
  <2>1. Len(wire) = 0
    OBVIOUS
  <2> QED BY <2>1, StreamFacts
<1>5. /\ Consumed \in Nat /\ Len(received) = Consumed + Len(buf) /\ Len(buf) \in Nat
      /\ LengthKnownAt(received, Consumed + 1) <=> Len(buf) >= HeaderLen
  BY HeadOfBuffer
<1>6. PICK a \in Nat, l \in Nat : /\ a = sent[i].start /\ l = Len(sent[i].data) /\ l >= 1
                                  /\ a + (HeaderLen + l) <= Len(received) + 1
  BY <1>2, <1>4
<1>7. a + 3 <= Len(received)
  BY <1>4, <1>6 DEF HeaderLen
<1>8. CASE a <= Consumed
  BY <1>1, <1>3, <1>6, <1>7, <1>8, PassedIsHandedOn
<1>9. CASE a > Consumed
  <2>1. Len(buf) >= 2 /\ Len(buf) >= HeaderLen /\ Consumed + 1 + 3 <= Len(received)
    BY <1>4, <1>5, <1>7, <1>9 DEF HeaderLen
  <2>2. /\ OpensFrame(received, Consumed + 1) /\ LengthKnownAt(received, Consumed + 1)
        /\ EndOfFrame(received, Consumed + 1) \in Int
        /\ EndOfFrame(received, Consumed + 1) > Len(received) + 1
    BY <1>4, <1>5, <2>1, WaitingForFrame
  <2>3. /\ HeaderAt(received, Consumed + 1) /\ LengthAt(received, Consumed + 1) \in 1..MaxSize
        /\ EndOfFrame(received, Consumed + 1)
             = Consumed + 1 + HeaderLen + LengthAt(received, Consumed + 1)
    BY <2>2 DEF OpensFrame, EndOfFrame
  <2>4. CASE a = Consumed + 1
    <3>1. LengthAt(received, a) = l
      BY <1>2, <1>6, <1>7
    <3>2. EndOfFrame(received, a) = a + HeaderLen + l /\ EndOfFrame(received, a) > Len(received) + 1
      BY <2>2, <2>3, <2>4, <3>1
    <3>3. \A n \in Nat : a + (HeaderLen + l) <= n + 1 => ~(a + HeaderLen + l > n + 1)
      BY DEF HeaderLen
    <3> QED BY <1>4, <1>6, <3>2, <3>3
  <2>5. CASE a # Consumed + 1
    <3>1. Consumed + 1 \in Nat /\ Consumed + 1 >= 1 /\ Consumed + 1 < sent[i].start
      BY <1>5, <1>6, <1>9, <2>5
    <3>2. Consumed + 1 + HeaderLen + LengthAt(received, Consumed + 1) <= sent[i].start
      BY <1>1, <1>3, <2>1, <2>3, <3>1, FramesKeepClear
    <3> QED BY <1>4, <1>6, <1>7, <2>2, <2>3, <3>2
  <2> QED BY <2>4, <2>5
<1> QED BY <1>5, <1>6, <1>8, <1>9

(* After any number of lost bytes, wherever they were lost, the scanner    *)
(* finds its way back: every whole frame that begins more than one maximal *)
(* frame behind the last loss is handed on, as long as no frame sent holds *)
(* what looks like the beginning of another (serial.go 176-194).           *)
THEOREM ResynchronisesCorrect ==
  ASSUME DevStart1 = Start1, DevStart2 = Start2
  PROVE  LinkSpec => []Resynchronises
<1>1. TypedTail /\ Handled /\ Decided /\ LinkTyped /\ LaidOut(Stream, sent)
          /\ (SentCleanly => NoGhosts)
        => Resynchronises
  BY NoGhostsResynchronises
<1>2. LinkSpec => [](SentCleanly => NoGhosts)
  BY NoGhostsInvariant
<1> QED BY <1>1, <1>2, LinkImplementsScanner, TypedTailInvariant, HandledInvariant,
           DecidedInvariant, LinkTypedInvariant, LaidOutInvariant, PTL

(* What begins behind the last loss and is handed on carries a header, and *)
(* every header there is that of a whole frame.                            *)
LEMMA NoGhostsGenuine ==
  ASSUME DevStart1 = Start1, DevStart2 = Start2,
         TypedTail, Handled, LinkTyped, LaidOut(Stream, sent), SentCleanly => NoGhosts
  PROVE  FramesAreGenuine
<1> SUFFICES ASSUME NoGhosts, NEW n \in FrameEvents, events[n].at > lossAt
             PROVE  IsGenuine(events[n])
  BY DEF FramesAreGenuine
<1>1. /\ n \in 1..Len(events) /\ events[n].kind = "frame" /\ SoundFrame(events[n])
      /\ events[n] \in Event /\ events[n].data \in Seq(Byte) /\ Len(events[n].data) \in Nat
  BY DEF FrameEvents, Handled, FramesSound, TypedTail, TypeOK, Event
<1>2. /\ Consumed \in Nat /\ Len(received) \in Nat /\ Len(received) = Consumed + Len(buf)
      /\ Len(buf) \in Nat /\ lossAt \in Nat /\ Len(Stream) \in Nat /\ Len(received) <= Len(Stream)
      /\ \A k \in 1..Len(received) : Stream[k] = received[k]
  BY HeadOfBuffer, StreamFacts DEF LinkTyped
<1>3. PICK a \in Nat : a = events[n].at /\ a >= 1
  BY <1>1, TakenFrameFacts
<1>4. HeaderAt(received, a) /\ a + 3 <= Len(received) /\ LastByteOf(events[n]) <= Consumed
  <2>1. /\ OpensFrame(received, events[n].at) /\ LengthKnownAt(received, events[n].at)
        /\ LastByteOf(events[n]) <= Consumed
    BY <1>1, TakenFrameFacts
  <2>2. OpensFrame(received, a) /\ LengthKnownAt(received, a)
    BY <1>3, <2>1
  <2>3. HeaderAt(received, a)
    BY <2>2 DEF OpensFrame
  <2>4. a + 3 <= Len(received)
    BY <2>2 DEF LengthKnownAt
  <2> QED BY <2>1, <2>3, <2>4
<1>5. PICK j \in 1..Len(sent) : sent[j].whole /\ sent[j].kind = "frame" /\ sent[j].start = a
  <2>1. /\ a \in lossAt + 1..Len(Stream) - 1 /\ a \in 1..Len(received) /\ a + 1 \in 1..Len(received)
        /\ a + 1 <= Len(Stream)
    <3>1. \A x, m, e, f \in Nat :
            x >= 1 /\ x > f /\ x + 3 <= m /\ m <= e
              => /\ x \in f + 1..e - 1 /\ x \in 1..m /\ x + 1 \in 1..m /\ x + 1 <= e
      OBVIOUS
    <3>2. PICK m \in Nat, e \in Nat : m = Len(received) /\ e = Len(Stream) /\ m <= e
      BY <1>2
    <3>3. a >= 1 /\ a > lossAt /\ a + 3 <= m /\ lossAt \in Nat
      BY <1>2, <1>3, <1>4, <3>2
    <3> QED BY <1>3, <3>1, <3>2, <3>3
  <2>2. HeaderAt(Stream, a)
    BY <1>2, <1>4, <2>1 DEF HeaderAt
  <2> QED BY <2>1, <2>2 DEF NoGhosts, HeadersTrue
<1> DEFINE p == sent[j].data
           d == events[n].data
<1>6. /\ Len(p) \in 1..MaxSize /\ LengthAt(received, a) = Len(p)
      /\ \A k \in 1..Len(p) :
           a + HeaderLen + k - 1 <= Len(received) => received[a + HeaderLen + k - 1] = p[k]
  BY <1>4, <1>5, FrameReceived
<1>7. p \in Seq(Byte)
  BY <1>5, MessageBytes, PayloadFacts DEF LinkTyped
<1>8. Len(d) = Len(p) /\ Len(d) \in Nat
  BY <1>1, <1>3, <1>6 DEF SoundFrame
<1>9. \A k \in 1..Len(d) : d[k] = received[a + HeaderLen + k - 1]
  BY <1>1, <1>3 DEF SoundFrame
<1>10. LastByteOf(events[n]) = a + HeaderLen + Len(d) - 1
  BY <1>1, <1>3 DEF LastByteOf
<1>11. d \in Seq(Byte)
  BY <1>1
<1> HIDE DEF p, d
<1>12. ASSUME NEW k \in 1..Len(d) PROVE d[k] = p[k]
  <2>1. a + HeaderLen + Len(d) - 1 <= Consumed
    BY <1>4, <1>10
  <2>2. a + HeaderLen + k - 1 <= Len(received)
    <3>1. PICK l \in Nat : l = Len(d)
      BY <1>8
    <3>2. a + HeaderLen + l - 1 <= Consumed /\ k \in 1..l
      BY <2>1, <3>1
    <3>3. Consumed <= Len(received) /\ Consumed \in Nat /\ Len(received) \in Nat
      BY <1>2
    <3>4. \A u, i, m, c, r \in Nat :
            u + HeaderLen + m - 1 <= c /\ i <= m /\ c <= r => u + HeaderLen + i - 1 <= r
      BY DEF HeaderLen
    <3>5. k \in Nat /\ k <= l
      BY <3>1, <3>2
    <3> QED BY <1>3, <3>1, <3>2, <3>3, <3>4, <3>5
  <2> QED BY <1>6, <1>8, <1>9, <2>2
<1>13. d = p
  BY <1>7, <1>8, <1>11, <1>12, SeqEqual
<1> QED BY <1>3, <1>5, <1>13 DEF p, d, LinkTyped, IsGenuine

(* Whatever the line loses, a frame handed on that begins behind the last  *)
(* loss is one that the device sent, with its payload, as long as no frame *)
(* sent holds what looks like the beginning of another (serial.go 172-198).*)
THEOREM FramesAreGenuineCorrect ==
  ASSUME DevStart1 = Start1, DevStart2 = Start2
  PROVE  LinkSpec => []FramesAreGenuine
<1>1. TypedTail /\ Handled /\ LinkTyped /\ LaidOut(Stream, sent) /\ (SentCleanly => NoGhosts)
        => FramesAreGenuine
  BY NoGhostsGenuine
<1>2. LinkSpec => [](SentCleanly => NoGhosts)
  BY NoGhostsInvariant
<1> QED BY <1>1, <1>2, LinkImplementsScanner, TypedTailInvariant, HandledInvariant,
           LinkTypedInvariant, LaidOutInvariant, PTL

-----------------------------------------------------------------------------
(* Without losses.  The messages follow one another without a gap, and the *)
(* scanner always stands between two of them: no byte of a message is left *)
(* in buf when its other bytes have gone.                                  *)

StartOf(s, q, i) == IF i <= Len(q) THEN q[i].start ELSE Len(s) + 1

(* The messages behind the first h are whole, without a gap.               *)
GaplessFrom(s, q, h) ==
  \A i \in 1..Len(q) :
    i > h => q[i].whole /\ StartOf(s, q, i + 1) = q[i].start + LengthOf(q[i])

Gapless(s, q) == StartOf(s, q, 1) = 1 /\ GaplessFrom(s, q, 0)

TextApart(q) ==
  \A i \in 1..Len(q) : \A j \in 1..Len(q) :
    j = i + 1 => ~(/\ q[i].kind = "text" /\ q[i].data = <<Start1>>
                   /\ q[j].kind = "text" /\ q[j].data = <<Start2>>)

Between(s, q, c, h) == StartOf(s, q, h + 1) = c + 1

OnBoundary == \E h \in 0..Len(sent) : Between(Stream, sent, Consumed, h)

LossFree == losses = 0 /\ Gapless(Stream, sent) /\ TextApart(sent) /\ OnBoundary

(* The items of a history from the one behind the first h on.              *)
ItemsFrom(q, h) == [i \in 1..Len(q) - h |-> Item(q[h + i])]

ItemSet(S) == {Item(m) : m \in S}

LEMMA ItemsFromSeq ==
  ASSUME NEW S, NEW q \in Seq(S), NEW h \in 0..Len(q)
  PROVE  /\ ItemsFrom(q, h) \in Seq(ItemSet(S))
         /\ Len(ItemsFrom(q, h)) = Len(q) - h
         /\ \A i \in 1..Len(q) - h : ItemsFrom(q, h)[i] = Item(q[h + i])
<1>1. Len(q) \in Nat /\ Len(q) - h \in Nat /\ h \in Nat
  OBVIOUS
<1>2. PICK n \in Nat : n = Len(q) - h
  BY <1>1
<1>3. \A i \in 1..n : h + i \in 1..Len(q)
  BY <1>1, <1>2
<1>4. \A i \in 1..n : Item(q[h + i]) \in ItemSet(S)
  BY <1>3 DEF ItemSet
<1>5. ItemsFrom(q, h) = [i \in 1..n |-> Item(q[h + i])]
  BY <1>2 DEF ItemsFrom
<1>6. ItemsFrom(q, h) \in [1..n -> ItemSet(S)]
  BY <1>4, <1>5
<1>7. ItemsFrom(q, h) \in Seq(ItemSet(S))
  BY <1>2, <1>6, SeqDef
<1>8. Len(ItemsFrom(q, h)) = n
  BY <1>5, <1>7
<1> QED BY <1>2, <1>5, <1>7, <1>8

LEMMA ItemsAppend ==
  ASSUME NEW S, NEW q \in Seq(S), NEW e \in S, NEW h \in 0..Len(q)
  PROVE  ItemsFrom(Append(q, e), h) = Append(ItemsFrom(q, h), Item(e))
<1> DEFINE r == Append(q, e)
           x == ItemsFrom(r, h)
           y == ItemsFrom(q, h)
           z == Append(y, Item(e))
<1>1. /\ r \in Seq(S) /\ Len(r) = Len(q) + 1 /\ r[Len(q) + 1] = e
      /\ \A i \in 1..Len(q) : r[i] = q[i]
      /\ Len(q) \in Nat /\ h \in Nat /\ h <= Len(q)
  OBVIOUS
<1> HIDE DEF r
<1>2. /\ x \in Seq(ItemSet(S)) /\ Len(x) = Len(r) - h
      /\ \A i \in 1..Len(r) - h : x[i] = Item(r[h + i])
  <2>1. h \in 0..Len(r) /\ r \in Seq(S)
    BY <1>1
  <2>2. /\ ItemsFrom(r, h) \in Seq(ItemSet(S)) /\ Len(ItemsFrom(r, h)) = Len(r) - h
        /\ \A i \in 1..Len(r) - h : ItemsFrom(r, h)[i] = Item(r[h + i])
    BY <2>1, ItemsFromSeq
  <2> QED BY <2>2
<1>3. /\ y \in Seq(ItemSet(S)) /\ Len(y) = Len(q) - h
      /\ \A i \in 1..Len(q) - h : y[i] = Item(q[h + i])
  BY ItemsFromSeq
<1>4. Item(e) \in ItemSet(S)
  BY DEF ItemSet
<1> HIDE DEF x, y
<1>5. /\ z \in Seq(ItemSet(S)) /\ Len(z) = Len(y) + 1 /\ z[Len(y) + 1] = Item(e)
      /\ \A i \in 1..Len(y) : z[i] = y[i]
  BY <1>3, <1>4, AppendProperties
<1> HIDE DEF z
<1>6. Len(x) = Len(z)
  BY <1>1, <1>2, <1>3, <1>5
<1>7. ASSUME NEW i \in 1..Len(x) PROVE x[i] = z[i]
  <2>1. x[i] = Item(r[h + i])
    BY <1>2
  <2>2. CASE i <= Len(y)
    <3>1. i \in 1..Len(y) /\ i \in 1..Len(q) - h /\ h + i \in 1..Len(q)
      BY <1>1, <1>2, <1>3, <2>2
    <3> QED BY <1>1, <1>3, <1>5, <2>1, <3>1
  <2>3. CASE ~(i <= Len(y))
    <3>1. i = Len(y) + 1 /\ h + i = Len(q) + 1
      BY <1>1, <1>2, <1>3, <2>3
    <3> QED BY <1>1, <1>5, <2>1, <3>1
  <2> QED BY <2>2, <2>3
<1>8. x = z
  BY <1>2, <1>5, <1>6, <1>7, SeqEqual
<1> QED BY <1>8 DEF r, x, y, z

LEMMA ItemsTail ==
  ASSUME NEW S, NEW q \in Seq(S), NEW h \in Nat, h + 1 <= Len(q)
  PROVE  /\ ItemsFrom(q, h) # << >>
         /\ Head(ItemsFrom(q, h)) = Item(q[h + 1])
         /\ Tail(ItemsFrom(q, h)) = ItemsFrom(q, h + 1)
<1> DEFINE x == ItemsFrom(q, h)
           y == ItemsFrom(q, h + 1)
<1>1. Len(q) \in Nat /\ h \in 0..Len(q) /\ h + 1 \in 0..Len(q)
  OBVIOUS
<1>2. /\ x \in Seq(ItemSet(S)) /\ Len(x) = Len(q) - h
      /\ \A i \in 1..Len(q) - h : x[i] = Item(q[h + i])
  BY <1>1, ItemsFromSeq
<1>3. /\ y \in Seq(ItemSet(S)) /\ Len(y) = Len(q) - (h + 1)
      /\ \A i \in 1..Len(q) - (h + 1) : y[i] = Item(q[(h + 1) + i])
  BY <1>1, ItemsFromSeq
<1> HIDE DEF x, y
<1>4. x # << >> /\ 1 \in 1..Len(q) - h
  BY <1>1, <1>2
<1>5. /\ Head(x) = x[1] /\ Tail(x) \in Seq(ItemSet(S)) /\ Len(Tail(x)) = Len(x) - 1
      /\ \A i \in 1..Len(Tail(x)) : Tail(x)[i] = x[i + 1]
  BY <1>2, <1>4, HeadTailProperties
<1>6. ASSUME NEW i \in 1..Len(Tail(x)) PROVE Tail(x)[i] = y[i]
  <2>1. i + 1 \in 1..Len(q) - h /\ i \in 1..Len(q) - (h + 1) /\ h + (i + 1) = (h + 1) + i
    BY <1>1, <1>2, <1>5
  <2> QED BY <1>2, <1>3, <1>5, <2>1
<1>7. Len(Tail(x)) = Len(y)
  BY <1>1, <1>2, <1>3, <1>5
<1>8. Tail(x) = y
  BY <1>3, <1>5, <1>6, <1>7, SeqEqual
<1> QED BY <1>2, <1>4, <1>5, <1>8 DEF x, y

(* What has not left buf when the scanner stands between two messages.     *)
PendingAt(q, c) ==
  LET begun == {i \in DOMAIN q : q[i].start <= c}
      rest == SubSeq(q, Cardinality(begun) + 1, Len(q))
  IN [i \in DOMAIN rest |-> Item(rest[i])]

LEMMA PendingIsAt ==
  /\ Pending = PendingAt(sent, Consumed)
  /\ Pending' = PendingAt(sent', Consumed')
  BY DEF Pending, Unhandled, Begun, PendingAt

LEMMA PendingBetween ==
  ASSUME NEW s \in Seq(Byte), NEW q \in Seq(Message), LaidOut(s, q), Gapless(s, q),
         NEW c \in Nat, NEW h \in 0..Len(q), Between(s, q, c, h)
  PROVE  PendingAt(q, c) = ItemsFrom(q, h)
<1>0. \A i \in 1..Len(q) : q[i].whole
  BY DEF Gapless, GaplessFrom
<1>1. /\ Len(s) \in Nat /\ Len(q) \in Nat /\ h \in Nat /\ h <= Len(q) /\ DOMAIN q = 1..Len(q)
      /\ \A i \in 1..Len(q) : q[i].start \in Nat /\ LengthOf(q[i]) \in Nat \ {0}
  BY MessageBytes
<1>2. {i \in DOMAIN q : q[i].start <= c} = 1..h
  <2>1. ASSUME NEW i \in 1..Len(q), i <= h PROVE q[i].start <= c
    <3>1. CASE h + 1 <= Len(q)
      <4>1. q[h + 1].start = c + 1
        BY <3>1 DEF Between, StartOf
      <4>2. h + 1 \in 1..Len(q) /\ i < h + 1
        BY <1>1, <2>1, <3>1
      <4>3. q[i].start + LengthOf(q[i]) <= q[h + 1].start
        BY <1>0, <4>2 DEF LaidOut, InOrder
      <4> QED BY <1>1, <4>1, <4>3
    <3>2. CASE ~(h + 1 <= Len(q))
      <4>1. Len(s) + 1 = c + 1
        BY <3>2 DEF Between, StartOf
      <4>2. q[i].start + LengthOf(q[i]) <= Len(s) + 1
        BY <1>0 DEF LaidOut, LiesIn
      <4> QED BY <1>1, <4>1, <4>2
    <3> QED BY <3>1, <3>2
  <2>2. ASSUME NEW i \in 1..Len(q), i > h PROVE ~(q[i].start <= c)
    <3>1. h + 1 \in 1..Len(q) /\ h + 1 <= Len(q)
      BY <1>1, <2>2
    <3>2. q[h + 1].start = c + 1
      BY <3>1 DEF Between, StartOf
    <3>3. q[h + 1].start <= q[i].start
      <4>1. CASE h + 1 = i
        BY <1>1, <4>1
      <4>2. CASE h + 1 < i
        BY <3>1, <4>2 DEF LaidOut, InOrder
      <4> QED BY <1>1, <2>2, <4>1, <4>2
    <3> QED BY <1>1, <3>2, <3>3
  <2> QED BY <1>1, <2>1, <2>2
<1>3. Cardinality(1..h) = h
  BY <1>1, FS_Interval
<1> DEFINE rest == SubSeq(q, h + 1, Len(q))
<1>4. DOMAIN rest = 1..Len(q) - h /\ \A i \in 1..Len(q) - h : rest[i] = q[h + i]
  <2>1. \A i \in h + 1..Len(q) : q[i] \in Message
    BY <1>1
  <2>2. /\ rest \in Seq(Message)
        /\ Len(rest) = IF h + 1 <= Len(q) THEN Len(q) - (h + 1) + 1 ELSE 0
        /\ \A i \in 1..Len(q) - (h + 1) + 1 : rest[i] = q[(h + 1) + i - 1]
    BY <1>1, <2>1, SubSeqProperties
  <2> HIDE DEF rest
  <2>3. Len(rest) = Len(q) - h /\ Len(q) - (h + 1) + 1 = Len(q) - h
    <3>1. CASE h + 1 <= Len(q)
      BY <1>1, <2>2, <3>1
    <3>2. CASE ~(h + 1 <= Len(q))
      <4>1. h = Len(q)
        <5>1. \A a, b \in Nat : a <= b /\ ~(a + 1 <= b) => a = b
          OBVIOUS
        <5>2. h \in Nat /\ Len(q) \in Nat /\ h <= Len(q)
          BY <1>1
        <5> QED BY <3>2, <5>1, <5>2
      <4>2. Len(rest) = 0
        BY <2>2, <3>2
      <4> QED BY <1>1, <4>1, <4>2
    <3> QED BY <3>1, <3>2
  <2>4. \A i \in 1..Len(q) - h : (h + 1) + i - 1 = h + i
    BY <1>1
  <2> QED BY <2>2, <2>3, <2>4
<1>5. PendingAt(q, c) = [i \in DOMAIN rest |-> Item(rest[i])]
  BY <1>2, <1>3 DEF PendingAt
<1> HIDE DEF rest
<1> QED BY <1>4, <1>5 DEF ItemsFrom

(* A message that is written leaves the scanner where it stands.           *)
LEMMA WrittenGapless ==
  ASSUME NEW s \in Seq(Byte), NEW q \in Seq(Message), TextApart(q),
         NEW m \in Message, m.start = Len(s) + 1, m.whole,
         m.kind = "text" => ~(EndsInTextStart(q) /\ m.data = <<Start2>>)
  PROVE  /\ \A i \in 1..Len(q) + 1 : StartOf(s \o BytesOf(m), Append(q, m), i) = StartOf(s, q, i)
         /\ \A h \in Nat : GaplessFrom(s, q, h) => GaplessFrom(s \o BytesOf(m), Append(q, m), h)
         /\ TextApart(Append(q, m))
<1> DEFINE t == s \o BytesOf(m)
           r == Append(q, m)
<1>1. /\ BytesOf(m) \in Seq(Byte) /\ Len(BytesOf(m)) = LengthOf(m)
      /\ LengthOf(m) \in Nat \ {0} /\ Len(s) \in Nat /\ Len(q) \in Nat
  BY MessageBytes
<1>2. Len(t) = Len(s) + LengthOf(m)
  BY <1>1, ConcatProperties
<1>3. /\ Len(r) = Len(q) + 1
      /\ r[Len(q) + 1] = m
      /\ \A i \in 1..Len(q) : r[i] = q[i]
  OBVIOUS
<1> HIDE DEF t, r
<1>4. ASSUME NEW i \in 1..Len(q) + 1 PROVE StartOf(t, r, i) = StartOf(s, q, i)
  <2>1. CASE i <= Len(q)
    BY <1>1, <1>3, <2>1 DEF StartOf
  <2>2. CASE i = Len(q) + 1
    BY <1>1, <1>3, <2>2 DEF StartOf
  <2> QED BY <1>1, <2>1, <2>2
<1>5. ASSUME NEW h \in Nat, GaplessFrom(s, q, h) PROVE GaplessFrom(t, r, h)
  <2>1. ASSUME NEW i \in 1..Len(q), i > h
        PROVE  r[i].whole /\ StartOf(t, r, i + 1) = r[i].start + LengthOf(r[i])
    <3>1. i + 1 \in 1..Len(q) + 1
      BY <1>1
    <3> QED BY <1>3, <1>4, <1>5, <2>1, <3>1 DEF GaplessFrom
  <2>2. m.whole /\ StartOf(t, r, (Len(q) + 1) + 1) = m.start + LengthOf(m)
    <3>1. ~((Len(q) + 1) + 1 <= Len(r))
      BY <1>1, <1>3
    <3>2. StartOf(t, r, (Len(q) + 1) + 1) = Len(t) + 1
      BY <3>1 DEF StartOf
    <3> QED BY <1>1, <1>2, <3>2
  <2>3. \A i \in 1..Len(r) : i \in 1..Len(q) \/ i = Len(q) + 1
    BY <1>1, <1>3
  <2> QED BY <1>3, <2>1, <2>2, <2>3 DEF GaplessFrom
<1>6. TextApart(r)
  <2> SUFFICES ASSUME NEW i \in 1..Len(r), NEW j \in 1..Len(r), j = i + 1,
                      r[i].kind = "text", r[i].data = <<Start1>>,
                      r[j].kind = "text", r[j].data = <<Start2>>
               PROVE  FALSE
    BY DEF TextApart
  <2>1. i \in 1..Len(q) /\ r[i] = q[i]
    <3>1. i < Len(r) /\ Len(r) = Len(q) + 1 /\ i \in Nat /\ i >= 1
      BY <1>1, <1>3
    <3>2. i \in 1..Len(q)
      BY <1>1, <3>1
    <3> QED BY <1>3, <3>2
  <2>2. CASE j \in 1..Len(q)
    BY <1>3, <2>1, <2>2 DEF TextApart
  <2>3. CASE j = Len(q) + 1
    <3>1. i = Len(q) /\ r[j] = m /\ q # << >>
      BY <1>1, <1>3, <2>1, <2>3
    <3>2. EndsInTextStart(q)
      BY <2>1, <3>1 DEF EndsInTextStart
    <3> QED BY <3>1, <3>2
  <2> QED BY <1>1, <1>3, <2>2, <2>3
<1> QED BY <1>4, <1>5, <1>6 DEF t, r

(* Whatever follows a message is behind it, and without a gap when the     *)
(* messages are.                                                           *)
LEMMA GaplessBehindLater ==
  ASSUME NEW s, NEW q \in Seq(Message), NEW n \in Nat, NEW h \in Nat, n <= h, GaplessFrom(s, q, n)
  PROVE  GaplessFrom(s, q, h)
<1>1. ASSUME NEW i \in 1..Len(q), i > h PROVE i > n
  BY <1>1
<1> QED BY <1>1 DEF GaplessFrom

(* Between two messages, the head of buf is the first byte of the next.    *)
LEMMA NextMessage ==
  ASSUME TypedTail, LinkTyped, LaidOut(Stream, sent),
         NEW h \in 0..Len(sent), GaplessFrom(Stream, sent, h),
         Between(Stream, sent, Consumed, h), Len(buf) >= 1
  PROVE  /\ h + 1 \in 1..Len(sent)
         /\ sent[h + 1].whole /\ sent[h + 1].start = Consumed + 1
         /\ Between(Stream, sent, Consumed + LengthOf(sent[h + 1]), h + 1)
<1>1. /\ Consumed \in Nat /\ Len(buf) \in Nat /\ Len(received) = Consumed + Len(buf)
      /\ Len(Stream) \in Nat /\ Len(received) <= Len(Stream) /\ Len(sent) \in Nat
      /\ h \in Nat
  BY HeadOfBuffer, StreamFacts DEF LinkTyped
<1>2. h + 1 <= Len(sent)
  <2> SUFFICES ASSUME ~(h + 1 <= Len(sent)) PROVE FALSE
    OBVIOUS
  <2>1. Len(Stream) + 1 = Consumed + 1
    BY DEF Between, StartOf
  <2> QED BY <1>1, <2>1
<1>3. h + 1 \in 1..Len(sent)
  BY <1>1, <1>2
<1>4. sent[h + 1].start = Consumed + 1
  BY <1>2 DEF Between, StartOf
<1>5. sent[h + 1].whole /\ StartOf(Stream, sent, (h + 1) + 1) = sent[h + 1].start + LengthOf(sent[h + 1])
  BY <1>1, <1>3 DEF GaplessFrom
<1>6. LengthOf(sent[h + 1]) \in Nat
  BY <1>3, MessageBytes DEF LinkTyped
<1>7. sent[h + 1].start + LengthOf(sent[h + 1]) = (Consumed + LengthOf(sent[h + 1])) + 1
  BY <1>1, <1>4, <1>6
<1> QED BY <1>3, <1>4, <1>5, <1>7 DEF Between

(* A text byte never looks like the start of a frame: the next message     *)
(* begins with the wrong byte.                                             *)
LEMMA TextStartsNothing ==
  ASSUME DevStart1 = Start1,
         TypedTail, LinkTyped, LaidOut(Stream, sent), TextApart(sent),
         NEW h \in 0..Len(sent), GaplessFrom(Stream, sent, h),
         Between(Stream, sent, Consumed, h), Len(buf) >= 1,
         sent[h + 1].kind = "text"
  PROVE  ~StartsFrame(buf)
<1> SUFFICES ASSUME StartsFrame(buf) PROVE FALSE
  OBVIOUS
<1>1. /\ Consumed \in Nat /\ Len(buf) \in Nat /\ Len(received) = Consumed + Len(buf)
      /\ Len(Stream) \in Nat /\ Len(received) <= Len(Stream) /\ Len(sent) \in Nat
      /\ h \in Nat /\ Len(buf) >= 2 /\ buf[1] = Start1 /\ buf[2] = Start2
      /\ buf \in Seq(Byte) /\ Head(buf) = buf[1]
      /\ \A k \in 1..Len(buf) : buf[k] = received[Consumed + k]
      /\ \A k \in 1..Len(received) : Stream[k] = received[k]
  <2>1. /\ Consumed \in Nat /\ Len(buf) \in Nat /\ Len(received) = Consumed + Len(buf)
        /\ \A k \in 1..Len(buf) : buf[k] = received[Consumed + k]
    BY HeadOfBuffer
  <2>2. /\ Len(Stream) \in Nat /\ Len(received) <= Len(Stream)
        /\ \A k \in 1..Len(received) : Stream[k] = received[k]
    BY StreamFacts
  <2>3. buf \in Seq(Byte) /\ Len(sent) \in Nat /\ h \in Nat
    BY DEF LinkTyped, TypedTail, TypeOK
  <2>4. Len(buf) >= 2 /\ buf[1] = Start1 /\ buf[2] = Start2 /\ Head(buf) = buf[1]
    BY <2>3 DEF StartsFrame
  <2> QED BY <2>1, <2>2, <2>3, <2>4
<1>2. /\ h + 1 \in 1..Len(sent)
      /\ sent[h + 1].whole /\ sent[h + 1].start = Consumed + 1
      /\ Between(Stream, sent, Consumed + LengthOf(sent[h + 1]), h + 1)
  BY NextMessage
<1>3. sent[h + 1].data = <<Start1>> /\ LengthOf(sent[h + 1]) = 1
  <2>1. PICK i \in 1..Len(sent) : i = h + 1
    BY <1>2
  <2>2. sent[i].data = <<Head(buf)>>
    BY <1>2, <2>1, HeadText
  <2>3. LengthOf(sent[i]) = 1
    BY <2>1 DEF LengthOf
  <2> QED BY <1>1, <2>1, <2>2, <2>3
<1>4. PICK j \in Nat : j = (h + 1) + 1
  BY <1>1
<1>5. StartOf(Stream, sent, j) = (Consumed + 1) + 1
  BY <1>2, <1>3, <1>4 DEF Between
<1>6. j \in 1..Len(sent) /\ sent[j].whole /\ sent[j].start = Consumed + 2
  <2>1. CASE j <= Len(sent)
    BY <1>1, <1>4, <1>5, <2>1 DEF StartOf, GaplessFrom
  <2>2. CASE ~(j <= Len(sent))
    <3>1. Len(Stream) + 1 = (Consumed + 1) + 1
      BY <1>5, <2>2 DEF StartOf
    <3> QED BY <1>1, <3>1
  <2> QED BY <2>1, <2>2
<1>7. /\ LengthOf(sent[j]) \in Nat \ {0} /\ sent[j].kind \in {"frame", "text"}
      /\ sent[j].kind = "frame" => sent[j].data \in Payload
      /\ sent[j].kind = "text" => /\ sent[j].data \in {<<c>> : c \in TextByte}
                                  /\ BytesOf(sent[j]) = sent[j].data
  BY <1>6, MessageBytes DEF LinkTyped
<1>8. BytesOf(sent[j])[1] = Start2
  <2>1. \A k \in 1..LengthOf(sent[j]) : Stream[sent[j].start + k - 1] = BytesOf(sent[j])[k]
    BY <1>6 DEF LaidOut, LiesIn
  <2>2. 1 \in 1..LengthOf(sent[j]) /\ sent[j].start + 1 - 1 = Consumed + 2
    BY <1>1, <1>6, <1>7
  <2>3. Consumed + 2 \in 1..Len(received) /\ 2 \in 1..Len(buf)
    BY <1>1
  <2>4. Stream[sent[j].start + 1 - 1] = BytesOf(sent[j])[1]
    BY <2>1, <2>2
  <2>5. Stream[Consumed + 2] = received[Consumed + 2]
    BY <1>1, <2>3
  <2>6. buf[2] = received[Consumed + 2] /\ buf[2] = Start2
    BY <1>1, <2>3
  <2> QED BY <2>2, <2>4, <2>5, <2>6
<1>9. sent[j].kind # "frame"
  <2>1. sent[j].kind = "frame" => BytesOf(sent[j])[1] = Start1
    BY <1>7, FrameBytes DEF BytesOf
  <2> QED BY <1>8, <2>1 DEF Start1, Start2
<1>10. sent[j].kind = "text" /\ sent[j].data = <<Start2>>
  <2>1. PICK c \in TextByte : sent[j].data = <<c>>
    BY <1>7, <1>9
  <2> QED BY <1>7, <1>8, <1>9, <2>1
<1> QED BY <1>2, <1>3, <1>4, <1>6, <1>10 DEF TextApart

(* What the step of the scanner that takes the message m does.             *)
Delivers(m) ==
  \/ /\ m.kind = "frame"
     /\ \E e \in Event : /\ e.kind = "frame" /\ e.data = m.data /\ e.at = m.start
                         /\ events' = Append(events, e)
     /\ logBuf' = logBuf
  \/ /\ m.kind = "text" /\ m.data = <<NewLine>>
     /\ \E e \in Event : e.kind = "line" /\ e.data = logBuf /\ events' = Append(events, e)
     /\ logBuf' = << >>
  \/ m.kind = "text" /\ m.data = <<Return>> /\ UNCHANGED <<logBuf, events>>
  \/ /\ m.kind = "text" /\ m.data \notin {<<NewLine>>, <<Return>>}
     /\ logBuf' = logBuf \o m.data /\ UNCHANGED events

LEMMA ScanDelivers ==
  ASSUME DevStart1 = Start1, DevStart2 = Start2,
         TypedTail, LinkTyped, LaidOut(Stream, sent), TextApart(sent),
         NEW h \in 0..Len(sent), GaplessFrom(Stream, sent, h),
         Between(Stream, sent, Consumed, h), Scan
  PROVE  /\ h + 1 \in 1..Len(sent)
         /\ Between(Stream, sent, Consumed', h + 1)
         /\ Delivers(sent[h + 1])
<1> DEFINE m == sent[h + 1]
<1>1. Len(buf) >= 1 /\ buf \in Seq(Byte) /\ Consumed \in Nat /\ Len(buf) \in Nat
  BY HeadOfBuffer
     DEF TypedTail, TypeOK, Scan, EndLine, DropReturn, LogByte, DropStart, TakeFrame,
         IsText, IsBadFrame, IsFrame, StartsFrame
<1>2. /\ h + 1 \in 1..Len(sent) /\ m.whole /\ m.start = Consumed + 1
      /\ Between(Stream, sent, Consumed + LengthOf(m), h + 1)
  BY <1>1, NextMessage
<1>3. m.kind \in {"frame", "text"}
  BY <1>2, MessageBytes DEF LinkTyped
<1>4. ASSUME m.kind = "text"
      PROVE  ~StartsFrame(buf) /\ m.data = <<Head(buf)>> /\ LengthOf(m) = 1
  <2>1. ~StartsFrame(buf)
    BY <1>1, <1>4, TextStartsNothing
  <2>2. PICK i \in 1..Len(sent) : i = h + 1
    BY <1>2
  <2>3. sent[i].data = <<Head(buf)>>
    BY <1>1, <1>2, <1>4, <2>2, HeadText
  <2>4. LengthOf(m) = 1
    BY <1>4 DEF LengthOf
  <2> QED BY <2>1, <2>2, <2>3, <2>4
<1>5. m.kind = "frame" =>
        /\ ~IsText(buf) /\ ~IsBadFrame(buf)
        /\ Len(buf) >= HeaderLen => Length(buf) = Len(m.data)
        /\ IsFrame(buf) => SubSeq(buf, HeaderLen + 1, HeaderLen + Length(buf)) = m.data
        /\ LengthOf(m) = HeaderLen + Len(m.data)
  BY <1>2, HeadFrame, MessageBytes DEF LinkTyped
<1> HIDE DEF m
<1>6. CASE TakeFrame
  <2>1. m.kind = "frame"
    BY <1>3, <1>4, <1>6 DEF TakeFrame, IsFrame
  <2>2. /\ Length(buf) = Len(m.data) /\ LengthOf(m) = HeaderLen + Len(m.data)
        /\ SubSeq(buf, HeaderLen + 1, HeaderLen + Length(buf)) = m.data
    BY <1>5, <1>6, <2>1 DEF TakeFrame, IsFrame
  <2>3. Consumed' = Consumed + HeaderLen + Length(buf) /\ Length(buf) \in 1..MaxSize
    BY <1>6, FrameTaken
  <2>4. Consumed' = Consumed + LengthOf(m)
    <3>1. PICK l \in Nat : l = Length(buf)
      BY <2>3
    <3>2. LengthOf(m) = HeaderLen + l /\ Consumed' = Consumed + HeaderLen + l
      BY <2>2, <2>3, <3>1
    <3> QED BY <1>1, <3>2 DEF HeaderLen
  <2>5. PICK e : e = [kind |-> "frame", at |-> Consumed + 1, data |-> m.data]
    OBVIOUS
  <2>6. e \in Event
    <3>1. m.data \in Seq(Byte)
      BY <1>2, <2>1, MessageBytes, PayloadFacts DEF LinkTyped, m
    <3> QED BY <1>1, <2>5, <3>1 DEF Event
  <2>7. events' = Append(events, e) /\ logBuf' = logBuf
    BY <1>6, <2>2, <2>5 DEF TakeFrame
  <2>8. e.kind = "frame" /\ e.data = m.data /\ e.at = m.start
    BY <1>2, <2>5 DEF m
  <2>9. Delivers(m)
    BY <2>1, <2>6, <2>7, <2>8 DEF Delivers
  <2> QED BY <1>2, <2>4, <2>9 DEF m
<1>7. CASE EndLine \/ DropReturn \/ LogByte \/ DropStart
  <2>1. m.kind = "text"
    BY <1>3, <1>5, <1>7 DEF EndLine, DropReturn, LogByte, DropStart
  <2>2. ~DropStart
    BY <1>4, <2>1 DEF DropStart, IsBadFrame
  <2>3. Consumed' = Consumed + LengthOf(m)
    BY <1>4, <1>7, <2>1, OneByteTaken
  <2>4. m.data = <<Head(buf)>>
    BY <1>4, <2>1
  <2>5. CASE EndLine
    <3>1. PICK e : e = [kind |-> "line", at |-> Consumed + 1, data |-> logBuf]
      OBVIOUS
    <3>2. e \in Event /\ e.kind = "line" /\ e.data = logBuf
      BY <1>1, <3>1 DEF Event, TypedTail, TypeOK
    <3>3. events' = Append(events, e) /\ logBuf' = << >> /\ m.data = <<NewLine>>
      BY <2>4, <2>5, <3>1 DEF EndLine
    <3>4. Delivers(m)
      BY <2>1, <3>2, <3>3 DEF Delivers
    <3> QED BY <1>2, <2>3, <3>4 DEF m
  <2>6. CASE DropReturn
    <3>1. m.data = <<Return>> /\ UNCHANGED <<logBuf, events>>
      BY <2>4, <2>6 DEF DropReturn
    <3>2. Delivers(m)
      BY <2>1, <3>1 DEF Delivers
    <3> QED BY <1>2, <2>3, <3>2 DEF m
  <2>7. CASE LogByte
    <3>1. m.data \notin {<<NewLine>>, <<Return>>}
      <4>1. Head(buf) # NewLine /\ Head(buf) # Return /\ m.data[1] = Head(buf)
        BY <2>4, <2>7 DEF LogByte
      <4> QED BY <4>1
    <3>2. logBuf' = logBuf \o m.data
      <4>1. Head(buf) \in Text /\ logBuf \in Seq(Text)
        BY <1>1, <2>7 DEF LogByte, Text, TypedTail, TypeOK
      <4>2. Append(logBuf, Head(buf)) = logBuf \o <<Head(buf)>>
        BY <4>1, AppendIsConcat
      <4> QED BY <2>4, <2>7, <4>2 DEF LogByte
    <3>3. UNCHANGED events
      BY <2>7 DEF LogByte
    <3>4. Delivers(m)
      BY <2>1, <3>1, <3>2, <3>3 DEF Delivers
    <3> QED BY <1>2, <2>3, <3>4 DEF m
  <2> QED BY <1>7, <2>2, <2>5, <2>6, <2>7
<1> QED BY <1>6, <1>7 DEF Scan

LEMMA SendLossFree ==
  ASSUME TypedTail, LinkTyped, LaidOut(Stream, sent), LossFree, SendFrame \/ SendText
  PROVE  /\ LossFree'
         /\ \E m \in Message : /\ Pending' = Append(Pending, Item(m))
                               /\ UNCHANGED <<logBuf, events>>
<1>1. PICK m \in Message :
        /\ m.start = Len(Stream) + 1 /\ m.whole
        /\ sent' = Append(sent, m)
        /\ Stream' = Stream \o BytesOf(m)
        /\ UNCHANGED <<received, buf, logBuf, events, losses, lossAt>>
        /\ m.kind = "text" => ~(AfterTextStart /\ m.data = <<Start2>>)
  BY SendAppends
<1>2. m.kind = "text" => ~(EndsInTextStart(sent) /\ m.data = <<Start2>>)
  BY <1>1 DEF EndsInTextStart, AfterTextStart
<1>3. PICK h \in 0..Len(sent) : Between(Stream, sent, Consumed, h)
  BY DEF LossFree, OnBoundary
<1>4. Stream \in Seq(Byte) /\ sent \in Seq(Message) /\ Consumed \in Nat /\ Len(sent) \in Nat
  BY StreamFacts, HeadOfBuffer DEF LinkTyped
<1>5. Consumed' = Consumed
  BY <1>1 DEF Consumed
<1>6. /\ Gapless(Stream', sent') /\ TextApart(sent')
      /\ Between(Stream', sent', Consumed, h)
  <2>1. /\ \A i \in 1..Len(sent) + 1 : StartOf(Stream', sent', i) = StartOf(Stream, sent, i)
        /\ GaplessFrom(Stream', sent', 0)
        /\ TextApart(sent')
    BY <1>1, <1>2, <1>4, WrittenGapless DEF LossFree, Gapless
  <2>2. 1 \in 1..Len(sent) + 1 /\ h + 1 \in 1..Len(sent) + 1
    BY <1>4
  <2> QED BY <1>3, <2>1, <2>2 DEF LossFree, Gapless, Between
<1>7. /\ Stream' \in Seq(Byte) /\ sent' \in Seq(Message) /\ LaidOut(Stream', sent')
      /\ h \in 0..Len(sent')
  <2>1. BytesOf(m) \in Seq(Byte)
    BY MessageBytes
  <2>2. Stream' \in Seq(Byte)
    BY <1>1, <1>4, <2>1, ConcatProperties
  <2> QED BY <1>1, <1>4, <2>2, WrittenLaidOut
<1>8. LossFree'
  BY <1>1, <1>5, <1>6, <1>7 DEF LossFree, OnBoundary
<1>9. Pending = ItemsFrom(sent, h)
  BY <1>3, <1>4, PendingBetween, PendingIsAt DEF LossFree
<1>10. Pending' = ItemsFrom(sent', h)
  <2>1. PendingAt(sent', Consumed) = ItemsFrom(sent', h)
    BY <1>4, <1>6, <1>7, PendingBetween
  <2> QED BY <1>5, <2>1, PendingIsAt
<1>11. ItemsFrom(sent', h) = Append(ItemsFrom(sent, h), Item(m))
  BY <1>1, <1>3, <1>4, ItemsAppend
<1> QED BY <1>1, <1>8, <1>9, <1>10, <1>11

LEMMA ScanLossFree ==
  ASSUME DevStart1 = Start1, DevStart2 = Start2,
         TypedTail, LinkTyped, LaidOut(Stream, sent), LossFree, ScanByte
  PROVE  /\ LossFree'
         /\ \E m \in Message : /\ Pending # << >> /\ Head(Pending) = Item(m)
                               /\ Pending' = Tail(Pending) /\ Delivers(m)
<1>1. PICK h \in 0..Len(sent) : Between(Stream, sent, Consumed, h)
  BY DEF LossFree, OnBoundary
<1>2. Scan /\ UNCHANGED <<received, wire, sent, losses, lossAt>> /\ Stream' = Stream
  BY ScanKeepsStream DEF ScanByte
<1>3. /\ h + 1 \in 1..Len(sent)
      /\ Between(Stream, sent, Consumed', h + 1)
      /\ Delivers(sent[h + 1])
  <2>1. GaplessFrom(Stream, sent, h)
    <3>1. sent \in Seq(Message) /\ 0 \in Nat /\ h \in Nat /\ 0 <= h
      BY DEF LinkTyped
    <3>2. GaplessFrom(Stream, sent, 0)
      BY DEF LossFree, Gapless
    <3> QED BY <3>1, <3>2, GaplessBehindLater
  <2> QED BY <1>1, <1>2, <2>1, ScanDelivers DEF LossFree
<1>4. /\ Stream \in Seq(Byte) /\ sent \in Seq(Message) /\ Consumed \in Nat /\ Len(sent) \in Nat
      /\ h \in Nat /\ h + 1 <= Len(sent) /\ h + 1 \in 0..Len(sent)
  BY <1>3, StreamFacts, HeadOfBuffer DEF LinkTyped
<1>5. Consumed' \in Nat
  BY <1>2, OneByteTaken, FrameTaken DEF Scan, HeaderLen
<1>6. LossFree'
  <2>1. OnBoundary'
    BY <1>2, <1>3, <1>4 DEF OnBoundary
  <2> QED BY <1>2, <2>1 DEF LossFree
<1>7. Pending = ItemsFrom(sent, h)
  BY <1>1, <1>4, PendingBetween, PendingIsAt DEF LossFree
<1>8. Pending' = ItemsFrom(sent, h + 1)
  <2>1. PendingAt(sent, Consumed') = ItemsFrom(sent, h + 1)
    BY <1>3, <1>4, <1>5, PendingBetween DEF LossFree
  <2> QED BY <1>2, <2>1, PendingIsAt
<1>9. /\ ItemsFrom(sent, h) # << >>
      /\ Head(ItemsFrom(sent, h)) = Item(sent[h + 1])
      /\ Tail(ItemsFrom(sent, h)) = ItemsFrom(sent, h + 1)
  BY <1>4, ItemsTail
<1>10. sent[h + 1] \in Message
  BY <1>3, <1>4
<1> QED BY <1>3, <1>6, <1>7, <1>8, <1>9, <1>10

LEMMA OtherStepsStutter ==
  ASSUME TypedTail, LinkTyped, LossFree, ReadByte \/ UNCHANGED linkVars
  PROVE  LossFree' /\ Pending' = Pending /\ UNCHANGED <<logBuf, events>>
<1>1. /\ Stream' = Stream /\ sent' = sent
      /\ UNCHANGED <<losses, logBuf, events>>
  BY ReadKeepsStream, ScanKeepsStream DEF ReadByte, Receive, linkVars, vars
<1>2. Consumed' = Consumed
  <2>1. CASE ReadByte
    <3>1. Head(wire) \in Byte
      BY <2>1 DEF ReadByte, LinkTyped
    <3> QED BY <2>1, <3>1, ReceiveKeepsTypedTail DEF ReadByte
  <2>2. CASE UNCHANGED linkVars
    BY <2>2 DEF linkVars, vars, Consumed
  <2> QED BY <2>1, <2>2
<1>3. LossFree'
  BY <1>1, <1>2 DEF LossFree, OnBoundary
<1> QED BY <1>1, <1>2, <1>3, PendingIsAt

LEMMA LossFreeInvariant ==
  ASSUME MaxLoss = 0, DevStart1 = Start1, DevStart2 = Start2
  PROVE  LinkSpec => []LossFree
<1>1. LinkInit => LossFree
  <2> SUFFICES ASSUME LinkInit PROVE LossFree
    OBVIOUS
  <2>1. received = << >> /\ buf = << >> /\ wire = << >> /\ sent = << >> /\ losses = 0
    BY DEF LinkInit, Init
  <2>2. Len(Stream) = 0 /\ Len(sent) = 0 /\ Consumed = 0
    BY <2>1 DEF Stream, Consumed
  <2>3. StartOf(Stream, sent, 1) = 1
    BY <2>2 DEF StartOf
  <2>4. OnBoundary
    <3>1. Between(Stream, sent, Consumed, 0) /\ 0 \in 0..Len(sent)
      BY <2>2, <2>3 DEF Between
    <3> QED BY <3>1 DEF OnBoundary
  <2> QED BY <2>1, <2>2, <2>3, <2>4 DEF LossFree, Gapless, GaplessFrom, TextApart
<1>2. TypedTail /\ LinkTyped /\ LaidOut(Stream, sent) /\ LossFree /\ [LinkNext]_linkVars => LossFree'
  <2> SUFFICES ASSUME TypedTail, LinkTyped, LaidOut(Stream, sent), LossFree, [LinkNext]_linkVars
               PROVE  LossFree'
    OBVIOUS
  <2>1. ~LoseByte
    BY DEF LoseByte, LossFree
  <2> QED BY <2>1, SendLossFree, ScanLossFree, OtherStepsStutter DEF LinkNext
<1> QED BY <1>1, <1>2, LinkTypedInvariant, LaidOutInvariant, PTL DEF LinkSpec

-----------------------------------------------------------------------------
(* The channel, step by step.                                              *)

LEMMA ItemsOfMessages ==
  ASSUME NEW m \in Message
  PROVE  Item(m) \in Channel!Item /\ Item(m).kind = m.kind /\ Item(m).data = m.data
<1>1. Item(m).kind = m.kind /\ Item(m).data = m.data
  BY DEF Item
<1>2. CASE m \in FrameMessage
  BY <1>2 DEF FrameMessage, Item, Channel!Item
<1>3. CASE m \in TextMessage
  BY <1>3 DEF TextMessage, Item, Channel!Item
<1> QED BY <1>1, <1>2, <1>3 DEF Message

LEMMA HandedOnGrows ==
  ASSUME TypedTail, NEW e \in Event, events' = Append(events, e)
  PROVE  HandedOn' = Append(HandedOn, Item(e))
<1>1. events \in Seq(Event) /\ events' \in Seq(Event) /\ 0 \in 0..Len(events)
  BY DEF TypedTail, TypeOK
<1>2. \A i \in 1..Len(events) : 0 + i = i
  BY <1>1
<1>3. \A i \in 1..Len(events') : 0 + i = i
  BY <1>1
<1>4. /\ DOMAIN events = 1..Len(events) /\ Len(events) - 0 = Len(events)
      /\ DOMAIN events' = 1..Len(events') /\ Len(events') - 0 = Len(events')
  BY <1>1
<1>5. HandedOn = ItemsFrom(events, 0)
  BY <1>2, <1>4 DEF HandedOn, ItemsFrom
<1>6. HandedOn' = ItemsFrom(events', 0)
  BY <1>3, <1>4 DEF HandedOn, ItemsFrom
<1> QED BY <1>1, <1>5, <1>6, ItemsAppend

LEMMA DeliversIsDeliver ==
  ASSUME TypedTail, NEW m \in Message, Pending # << >>, Head(Pending) = Item(m),
         Pending' = Tail(Pending), Delivers(m)
  PROVE  Channel!Deliver
<1>1. Head(Pending).kind = m.kind /\ Head(Pending).data = m.data
  BY ItemsOfMessages
<1>2. CASE /\ m.kind = "frame" /\ logBuf' = logBuf
           /\ \E e \in Event : e.kind = "frame" /\ e.data = m.data /\ events' = Append(events, e)
  <2>1. PICK e \in Event : e.kind = "frame" /\ e.data = m.data /\ events' = Append(events, e)
    BY <1>2
  <2>2. HandedOn' = Append(HandedOn, [kind |-> "frame", data |-> m.data])
    BY <2>1, HandedOnGrows DEF Item
  <2>3. Channel!DeliverFrame
    BY <1>1, <1>2, <2>2 DEF Channel!DeliverFrame
  <2> QED BY <2>3 DEF Channel!Deliver
<1>3. CASE /\ m.kind = "text" /\ m.data = <<NewLine>> /\ logBuf' = << >>
           /\ \E e \in Event : e.kind = "line" /\ e.data = logBuf /\ events' = Append(events, e)
  <2>1. PICK e \in Event : e.kind = "line" /\ e.data = logBuf /\ events' = Append(events, e)
    BY <1>3
  <2>2. HandedOn' = Append(HandedOn, [kind |-> "line", data |-> logBuf])
    BY <2>1, HandedOnGrows DEF Item
  <2>3. Channel!DeliverText
    BY <1>1, <1>3, <2>2 DEF Channel!DeliverText
  <2> QED BY <2>3 DEF Channel!Deliver
<1>4. CASE /\ m.kind = "text" /\ UNCHANGED events
           /\ \/ m.data = <<Return>> /\ logBuf' = logBuf
              \/ m.data \notin {<<NewLine>>, <<Return>>} /\ logBuf' = logBuf \o m.data
  <2>1. HandedOn' = HandedOn
    BY <1>4 DEF HandedOn
  <2>2. Channel!DeliverText
    BY <1>1, <1>4, <2>1 DEF Channel!DeliverText
  <2> QED BY <2>2 DEF Channel!Deliver
<1> QED BY <1>2, <1>3, <1>4 DEF Delivers

LEMMA LinkStepIsChannelStep ==
  ASSUME MaxLoss = 0, DevStart1 = Start1, DevStart2 = Start2,
         TypedTail, LinkTyped, LaidOut(Stream, sent), LossFree, [LinkNext]_linkVars
  PROVE  [Channel!Next]_<<Pending, logBuf, HandedOn>>
<1>1. CASE SendFrame \/ SendText
  <2>1. PICK m \in Message : Pending' = Append(Pending, Item(m)) /\ UNCHANGED <<logBuf, events>>
    BY <1>1, SendLossFree
  <2>2. HandedOn' = HandedOn
    BY <2>1 DEF HandedOn
  <2>3. Channel!Send(Item(m))
    BY <2>1, <2>2 DEF Channel!Send
  <2> QED BY <2>3, ItemsOfMessages DEF Channel!Next
<1>2. CASE ScanByte
  BY <1>2, ScanLossFree, DeliversIsDeliver DEF Channel!Next
<1>3. CASE ReadByte \/ UNCHANGED linkVars
  BY <1>3, OtherStepsStutter DEF HandedOn
<1>4. ~LoseByte
  BY DEF LoseByte, LossFree
<1> QED BY <1>1, <1>2, <1>3, <1>4 DEF LinkNext

(* Without losses frames reach the decoders whole, once and in the order   *)
(* they were sent, and the text in its lines, whatever the payloads hold   *)
(* and however long the device goes on (serial.go 172-238).                *)
THEOREM ImplementsChannelCorrect ==
  ASSUME MaxLoss = 0, DevStart1 = Start1, DevStart2 = Start2
  PROVE  LinkSpec => ImplementsChannel
<1>1. LinkInit => Channel!Init
  <2> SUFFICES ASSUME LinkInit PROVE Channel!Init
    OBVIOUS
  <2>1. logBuf = << >> /\ events = << >> /\ sent = << >>
    BY DEF LinkInit, Init
  <2>2. HandedOn = << >>
    BY <2>1 DEF HandedOn
  <2>3. Begun = {}
    BY <2>1 DEF Begun
  <2>4. Unhandled = << >>
    <3>1. Cardinality(Begun) = 0
      BY <2>3, FS_EmptySet
    <3>2. Unhandled = SubSeq(<< >>, 0 + 1, 0)
      BY <2>1, <3>1 DEF Unhandled
    <3> QED BY <3>2, SubSeqEmpty
  <2>5. Pending = << >>
    BY <2>4 DEF Pending
  <2> QED BY <2>1, <2>2, <2>5 DEF Channel!Init
<1>2. TypedTail /\ LinkTyped /\ LaidOut(Stream, sent) /\ LossFree /\ [LinkNext]_linkVars
        => [Channel!Next]_<<Pending, logBuf, HandedOn>>
  BY LinkStepIsChannelStep
<1>3. LinkSpec => []LossFree
  BY LossFreeInvariant
<1> QED BY <1>1, <1>2, <1>3, LinkTypedInvariant, LaidOutInvariant, PTL
        DEF LinkSpec, ImplementsChannel, Channel!Spec


-----------------------------------------------------------------------------
(* In step.  What the device writes behind the last loss follows without a *)
(* gap, so that a scanner that has taken one of its frames stands between  *)
(* two messages from there on: a payload is never scanned.                 *)

GaplessBehind(s, q, n) ==
  \A j \in 1..Len(q) : q[j].whole /\ q[j].start > n => GaplessFrom(s, q, j - 1)

(* The scanner stands behind the h-th message and has missed no frame from *)
(* the j-th message on.                                                    *)
Kept(j, h) == /\ Between(Stream, sent, Consumed, h)
              /\ \A k \in j..h : sent[k].kind = "frame" => FrameHandedOn(sent[k])

OnlyGenuine(j) == \A i \in FrameEvents : events[i].at > sent[j].start => IsGenuine(events[i])

Followed(j) == OnlyGenuine(j) /\ \E h \in j..Len(sent) : Kept(j, h)

Behind == TextApart(sent) /\ lossAt <= Len(received) /\ GaplessBehind(Stream, sent, lossAt)

InStep == \A j \in 1..Len(sent) : TakenInStep(j) => Followed(j)

LEMMA DamagedApart ==
  ASSUME NEW q \in Seq(Message), NEW gone \in Nat, gone >= 1, TextApart(q)
  PROVE  TextApart(Damaged(q, gone))
<1>1. Len(Damaged(q, gone)) = Len(q)
  BY DamagedTyped DEF Damaged
<1>2. \A i \in 1..Len(q) : /\ Damaged(q, gone)[i].kind = q[i].kind
                           /\ Damaged(q, gone)[i].data = q[i].data
  BY DamagedFacts
<1> QED BY <1>1, <1>2 DEF TextApart

(* A loss damages what it meets and moves all that follows by one place.   *)
LEMMA DamagedGapless ==
  ASSUME NEW s \in Seq(Byte), NEW t \in Seq(Byte), NEW q \in Seq(Message), LaidOut(s, q),
         NEW gone \in 1..Len(s), Len(t) = Len(s) - 1,
         NEW n \in Nat, n < gone, GaplessBehind(s, q, n)
  PROVE  GaplessBehind(t, Damaged(q, gone), gone - 1)
<1> DEFINE r == Damaged(q, gone)
<1>1. /\ Len(s) \in Nat /\ Len(t) \in Nat /\ Len(q) \in Nat
      /\ gone \in Nat /\ gone >= 1 /\ gone <= Len(s)
  OBVIOUS
<1>2. Len(r) = Len(q)
  BY <1>1, DamagedTyped DEF Damaged
<1>3. \A i \in 1..Len(q) :
        /\ r[i].start = IF q[i].start > gone THEN q[i].start - 1 ELSE q[i].start
        /\ r[i].whole => q[i].whole /\ (q[i].start > gone \/ q[i].start + LengthOf(q[i]) <= gone)
        /\ q[i].whole /\ q[i].start > gone => r[i].whole
        /\ LengthOf(r[i]) = LengthOf(q[i])
  <2> SUFFICES ASSUME NEW i \in 1..Len(q)
               PROVE  /\ r[i].start = IF q[i].start > gone THEN q[i].start - 1 ELSE q[i].start
                      /\ r[i].whole => q[i].whole /\ (q[i].start > gone \/ q[i].start + LengthOf(q[i]) <= gone)
                      /\ q[i].whole /\ q[i].start > gone => r[i].whole
                      /\ LengthOf(r[i]) = LengthOf(q[i])
    OBVIOUS
  <2> QED BY <1>1, DamagedFacts
<1>4. \A i \in 1..Len(q) : q[i].start \in Nat /\ LengthOf(q[i]) \in Nat \ {0}
  BY MessageBytes
<1> HIDE DEF r
<1>5. ASSUME NEW j \in 1..Len(q), r[j].whole, r[j].start > gone - 1 PROVE GaplessFrom(t, r, j - 1)
  <2>1. q[j].whole /\ q[j].start > gone
    <3>1. q[j].start > gone \/ q[j].start + LengthOf(q[j]) <= gone
      BY <1>3, <1>5
    <3>2. q[j].whole /\ q[j].start \in Nat /\ LengthOf(q[j]) \in Nat \ {0}
      BY <1>3, <1>4, <1>5
    <3>3. ~(q[j].start > gone) => r[j].start = q[j].start
      BY <1>3
    <3> QED BY <1>1, <1>5, <3>1, <3>2, <3>3
  <2>2. GaplessFrom(s, q, j - 1)
    BY <1>1, <1>4, <2>1 DEF GaplessBehind
  <2>3. ASSUME NEW i \in 1..Len(q), i > j - 1 PROVE q[i].start > gone
    <3>1. CASE i = j
      BY <2>1, <3>1
    <3>2. CASE j < i
      <4>1. q[j].start <= q[i].start
        BY <3>2 DEF LaidOut, InOrder
      <4> QED BY <1>1, <1>4, <2>1, <4>1
    <3> QED BY <2>3, <3>1, <3>2
  <2>4. ASSUME NEW i \in 1..Len(q), i > j - 1
        PROVE  r[i].whole /\ StartOf(t, r, i + 1) = r[i].start + LengthOf(r[i])
    <3>1. /\ q[i].whole /\ StartOf(s, q, i + 1) = q[i].start + LengthOf(q[i]) /\ q[i].start > gone
      BY <2>2, <2>3, <2>4 DEF GaplessFrom
    <3>2. r[i].whole /\ r[i].start = q[i].start - 1 /\ LengthOf(r[i]) = LengthOf(q[i])
      BY <1>3, <3>1
    <3>3. StartOf(t, r, i + 1) = StartOf(s, q, i + 1) - 1
      <4>1. CASE i + 1 <= Len(q)
        <5>1. i + 1 \in 1..Len(q) /\ i + 1 > j - 1
          BY <2>4, <4>1
        <5>2. r[i + 1].start = q[i + 1].start - 1
          BY <1>3, <2>3, <5>1
        <5> QED BY <1>2, <4>1, <5>2 DEF StartOf
      <4>2. CASE ~(i + 1 <= Len(q))
        <5>1. StartOf(t, r, i + 1) = Len(t) + 1 /\ StartOf(s, q, i + 1) = Len(s) + 1
          BY <1>2, <4>2 DEF StartOf
        <5> QED BY <1>1, <5>1
      <4> QED BY <4>1, <4>2
    <3>4. PICK a \in Nat, l \in Nat : a = q[i].start /\ l = LengthOf(q[i])
      BY <1>4
    <3> QED BY <3>1, <3>2, <3>3, <3>4
  <2> QED BY <1>2, <2>4 DEF GaplessFrom
<1>6. GaplessBehind(t, r, gone - 1)
  BY <1>2, <1>5 DEF GaplessBehind
<1> QED BY <1>6 DEF r

LEMMA StepKeepsBehind ==
  ASSUME TypedTail, LinkTyped, LaidOut(Stream, sent), Behind, [LinkNext]_linkVars
  PROVE  Behind'
<1>0. /\ Stream \in Seq(Byte) /\ sent \in Seq(Message) /\ Len(received) \in Nat /\ lossAt \in Nat
      /\ Len(sent) \in Nat
  BY StreamFacts DEF LinkTyped
<1>1. CASE SendFrame \/ SendText
  <2>1. PICK m \in Message :
          /\ m.start = Len(Stream) + 1 /\ m.whole
          /\ sent' = Append(sent, m)
          /\ Stream' = Stream \o BytesOf(m)
          /\ UNCHANGED <<received, lossAt>>
          /\ m.kind = "text" => ~(EndsInTextStart(sent) /\ m.data = <<Start2>>)
    BY <1>1, SendAppends DEF EndsInTextStart, AfterTextStart
  <2>2. /\ \A h \in Nat : GaplessFrom(Stream, sent, h) => GaplessFrom(Stream', sent', h)
        /\ TextApart(sent')
    BY <1>0, <2>1, WrittenGapless DEF Behind
  <2>3. /\ Len(sent') = Len(sent) + 1
        /\ \A j \in 1..Len(sent) : sent'[j] = sent[j]
    BY <1>0, <2>1
  <2>4. ASSUME NEW j \in 1..Len(sent'), sent'[j].whole, sent'[j].start > lossAt
        PROVE  GaplessFrom(Stream', sent', j - 1)
    <3>1. CASE j \in 1..Len(sent)
      <4>1. GaplessFrom(Stream, sent, j - 1) /\ j - 1 \in Nat
        BY <2>3, <2>4, <3>1 DEF Behind, GaplessBehind
      <4> QED BY <2>2, <4>1
    <3>2. CASE j = Len(sent) + 1
      <4>1. GaplessFrom(Stream, sent, Len(sent))
        BY <1>0 DEF GaplessFrom
      <4>2. j - 1 = Len(sent)
        BY <1>0, <3>2
      <4> QED BY <1>0, <2>2, <4>1, <4>2
    <3> QED BY <1>0, <2>3, <3>1, <3>2
  <2> QED BY <2>1, <2>2, <2>4 DEF Behind, GaplessBehind
<1>2. CASE ReadByte
  <2>1. Stream' = Stream /\ sent' = sent /\ lossAt' = lossAt
    BY <1>2, ReadKeepsStream DEF ReadByte
  <2>2. Len(received) <= Len(received')
    BY <1>0, <1>2 DEF ReadByte, Receive, TypedTail, TypeOK
  <2>3. Len(received') \in Nat
    BY <1>0, <1>2 DEF ReadByte, Receive, TypedTail, TypeOK
  <2>4. lossAt <= Len(received')
    BY <1>0, <2>2, <2>3 DEF Behind
  <2> QED BY <2>1, <2>4 DEF Behind
<1>3. CASE ScanByte \/ UNCHANGED linkVars
  BY <1>3, ScanKeepsStream DEF Behind
<1>4. CASE LoseByte
  <2>1. PICK g \in Nat : g = Len(received) + 1
    BY <1>0
  <2>2. /\ Stream' \in Seq(Byte) /\ g \in 1..Len(Stream)
        /\ Len(Stream') = Len(Stream) - 1
        /\ sent' = Damaged(sent, g) /\ received' = received
    BY <1>4, <2>1, LoseShortensStream
  <2>3. lossAt' = g - 1 /\ lossAt < g /\ g >= 1
    BY <1>0, <1>4, <2>1 DEF LoseByte, Behind
  <2>4. GaplessBehind(Stream', sent', lossAt')
    BY <1>0, <2>2, <2>3, DamagedGapless DEF Behind
  <2>5. TextApart(sent')
    BY <1>0, <2>2, <2>3, DamagedApart DEF Behind
  <2>6. lossAt' <= Len(received')
    BY <1>0, <2>1, <2>2, <2>3
  <2> QED BY <2>4, <2>5, <2>6 DEF Behind
<1> QED BY <1>1, <1>2, <1>3, <1>4 DEF LinkNext

(* What taking the message m adds to the frames handed on.                 *)
LEMMA DeliversFrames ==
  ASSUME TypedTail, NEW m \in Message, Delivers(m)
  PROVE  /\ \A i \in FrameEvents' :
              \/ i \in FrameEvents /\ events'[i] = events[i]
              \/ m.kind = "frame" /\ events'[i].at = m.start /\ events'[i].data = m.data
         /\ \A i \in FrameEvents : i \in FrameEvents' /\ events'[i] = events[i]
         /\ m.kind = "frame" =>
              \E i \in FrameEvents' : events'[i].at = m.start /\ events'[i].data = m.data
<1>1. events \in Seq(Event) /\ Len(events) \in Nat
  BY DEF TypedTail, TypeOK
<1>2. ASSUME NEW e \in Event, events' = Append(events, e)
      PROVE  /\ Len(events') = Len(events) + 1 /\ events'[Len(events) + 1] = e
             /\ \A i \in 1..Len(events) : events'[i] = events[i]
             /\ \A i \in 1..Len(events') : i \in 1..Len(events) \/ i = Len(events) + 1
             /\ \A i \in 1..Len(events) : i \in 1..Len(events')
             /\ Len(events) + 1 \in 1..Len(events')
  BY <1>1, <1>2
<1>3. CASE m.kind = "frame"
  <2>1. PICK e \in Event : /\ e.kind = "frame" /\ e.data = m.data /\ e.at = m.start
                           /\ events' = Append(events, e)
    BY <1>3 DEF Delivers
  <2> QED BY <1>2, <1>3, <2>1 DEF FrameEvents
<1>4. CASE m.kind = "text" /\ \E e \in Event : e.kind = "line" /\ events' = Append(events, e)
  <2>1. PICK e \in Event : e.kind = "line" /\ events' = Append(events, e)
    BY <1>4
  <2> QED BY <1>2, <1>4, <2>1 DEF FrameEvents
<1>5. CASE m.kind = "text" /\ UNCHANGED events
  BY <1>5 DEF FrameEvents
<1> QED BY <1>3, <1>4, <1>5 DEF Delivers

(* From a message on, with no frame missed behind the j-th, the scanner    *)
(* takes the next message and misses none.                                 *)
LEMMA ScanFollows ==
  ASSUME DevStart1 = Start1, DevStart2 = Start2,
         TypedTail, LinkTyped, LaidOut(Stream, sent), TextApart(sent), ScanByte,
         NEW j \in 1..Len(sent), NEW h \in 0..Len(sent), j - 1 <= h,
         GaplessFrom(Stream, sent, h), Kept(j, h), OnlyGenuine(j)
  PROVE  Followed(j)'
<1>1. /\ Scan /\ UNCHANGED <<received, wire, sent, losses, lossAt>> /\ Stream' = Stream
      /\ Len(sent) \in Nat /\ sent \in Seq(Message)
  BY ScanKeepsStream DEF ScanByte, LinkTyped
<1>2. /\ h + 1 \in 1..Len(sent)
      /\ Between(Stream, sent, Consumed', h + 1)
      /\ Delivers(sent[h + 1])
  BY <1>1, ScanDelivers DEF Kept
<1>3. PICK g \in 1..Len(sent) : g = h + 1
  BY <1>2
<1>4. sent[g] \in Message /\ sent[g].whole
  BY <1>1, <1>3 DEF GaplessFrom
<1>5. /\ \A i \in FrameEvents' :
           \/ i \in FrameEvents /\ events'[i] = events[i]
           \/ /\ sent[g].kind = "frame" /\ events'[i].at = sent[g].start
              /\ events'[i].data = sent[g].data
      /\ \A i \in FrameEvents : i \in FrameEvents' /\ events'[i] = events[i]
      /\ sent[g].kind = "frame" =>
           \E i \in FrameEvents' : events'[i].at = sent[g].start /\ events'[i].data = sent[g].data
  BY <1>2, <1>3, <1>4, DeliversFrames
<1>6. OnlyGenuine(j)'
  <2> SUFFICES ASSUME NEW i \in FrameEvents', events'[i].at > sent[j].start
               PROVE  IsGenuine(events[i])'
    BY <1>1 DEF OnlyGenuine
  <2>1. CASE i \in FrameEvents /\ events'[i] = events[i]
    <3>1. IsGenuine(events[i])
      BY <2>1 DEF OnlyGenuine
    <3> QED BY <1>1, <2>1, <3>1 DEF IsGenuine
  <2>2. CASE /\ sent[g].kind = "frame" /\ events'[i].at = sent[g].start
             /\ events'[i].data = sent[g].data
    <3>1. g \in DOMAIN sent'
      BY <1>1
    <3> QED BY <1>1, <1>4, <2>2, <3>1 DEF IsGenuine
  <2> QED BY <1>5, <2>1, <2>2
<1>7. ASSUME NEW k \in j..g, sent[k].kind = "frame" PROVE FrameHandedOn(sent[k])'
  <2>1. k \in j..h \/ k = g
    BY <1>1, <1>3
  <2>2. CASE k \in j..h
    <3>1. FrameHandedOn(sent[k])
      BY <1>7, <2>2 DEF Kept
    <3> QED BY <1>1, <1>5, <3>1 DEF FrameHandedOn
  <2>3. CASE k = g
    BY <1>1, <1>5, <1>7, <2>3 DEF FrameHandedOn
  <2> QED BY <2>1, <2>2, <2>3
<1>8. Kept(j, g)'
  BY <1>1, <1>2, <1>3, <1>7 DEF Kept
<1>9. g \in j..Len(sent')
  BY <1>1, <1>3
<1> QED BY <1>6, <1>8, <1>9 DEF Followed

(* A step of the scanner finds a frame of the device, or keeps in step     *)
(* with one it has found.                                                  *)
LEMMA ScanKeepsInStep ==
  ASSUME DevStart1 = Start1, DevStart2 = Start2,
         TypedTail, Handled, LinkTyped, LaidOut(Stream, sent), Behind, InStep, ScanByte
  PROVE  InStep'
<1>1. /\ Scan /\ UNCHANGED <<received, wire, sent, losses, lossAt>> /\ Stream' = Stream
      /\ Len(sent) \in Nat /\ sent \in Seq(Message)
  BY ScanKeepsStream DEF ScanByte, LinkTyped
<1> SUFFICES ASSUME NEW j \in 1..Len(sent), TakenInStep(j)'
             PROVE  Followed(j)'
  BY <1>1 DEF InStep
<1>2. /\ sent[j].kind = "frame" /\ sent[j].whole /\ sent[j].start > lossAt
      /\ FrameHandedOn(sent[j])'
  BY <1>1 DEF TakenInStep
<1>3. GaplessFrom(Stream, sent, j - 1)
  BY <1>2 DEF Behind, GaplessBehind
<1>4. CASE FrameHandedOn(sent[j])
  <2>1. Followed(j)
    BY <1>2, <1>4 DEF InStep, TakenInStep
  <2>2. PICK h \in j..Len(sent) : Kept(j, h)
    BY <2>1 DEF Followed
  <2>3. h \in 0..Len(sent) /\ j - 1 <= h /\ j - 1 \in Nat /\ h \in Nat
    BY <1>1
  <2>4. GaplessFrom(Stream, sent, h)
    BY <1>1, <1>3, <2>3, GaplessBehindLater
  <2> QED BY <1>1, <2>1, <2>2, <2>3, <2>4, ScanFollows DEF Followed, Behind
<1>5. CASE ~FrameHandedOn(sent[j])
  <2>1. PICK i \in FrameEvents' : events'[i].at = sent[j].start /\ events'[i].data = sent[j].data
    BY <1>1, <1>2 DEF FrameHandedOn
  <2>2. sent[j].start = Consumed + 1
    <3>1. ~(i \in FrameEvents /\ events'[i] = events[i])
      BY <1>5, <2>1 DEF FrameHandedOn
    <3>2. PICK e \in Event : e.at = Consumed + 1 /\ events' = Append(events, e)
      <4>1. events \in Seq(Event)
        BY DEF TypedTail, TypeOK
      <4>2. events' # events
        BY <3>1, <2>1 DEF FrameEvents
      <4>3. CASE EndLine
        <5>1. PICK e : e = [kind |-> "line", at |-> Consumed + 1, data |-> logBuf]
          OBVIOUS
        <5>2. e \in Event /\ e.at = Consumed + 1
          BY <5>1, HeadOfBuffer DEF Event, TypedTail, TypeOK
        <5> QED BY <4>3, <5>1, <5>2 DEF EndLine
      <4>4. CASE TakeFrame
        <5>1. PICK l \in Nat : l = Length(buf) /\ l >= 1 /\ HeaderLen + l <= Len(buf)
          BY <4>4, FrameTaken
        <5>2. PICK e : e = [kind |-> "frame", at |-> Consumed + 1,
                            data |-> SubSeq(buf, HeaderLen + 1, HeaderLen + l)]
          OBVIOUS
        <5>3. SubSeq(buf, HeaderLen + 1, HeaderLen + l) \in Seq(Byte)
          BY <5>1 DEF TypedTail, TypeOK, HeaderLen
        <5>4. e \in Event /\ e.at = Consumed + 1
          BY <5>2, <5>3, HeadOfBuffer DEF Event
        <5>5. events' = Append(events, e)
          BY <4>4, <5>1, <5>2 DEF TakeFrame
        <5> QED BY <5>4, <5>5
      <4> QED BY <1>1, <4>2, <4>3, <4>4 DEF Scan, DropReturn, LogByte, DropStart
    <3>3. /\ i \in 1..Len(events') /\ events'[i].kind = "frame"
          /\ Len(events) \in Nat /\ Len(events') = Len(events) + 1
          /\ events'[Len(events) + 1] = e
          /\ \A n \in 1..Len(events) : events'[n] = events[n]
      BY <2>1, <3>2 DEF FrameEvents, TypedTail, TypeOK
    <3>4. i = Len(events) + 1
      <4>1. i \notin 1..Len(events)
        BY <3>1, <3>3 DEF FrameEvents
      <4> QED BY <3>3, <4>1
    <3> QED BY <2>1, <3>2, <3>3, <3>4
  <2>3. OnlyGenuine(j)
    <3> SUFFICES ASSUME NEW n \in FrameEvents, events[n].at > sent[j].start PROVE FALSE
      BY DEF OnlyGenuine
    <3>1. events[n].at \in 1..Consumed
      BY TakenFrameFacts DEF FrameEvents
    <3> QED BY <2>2, <3>1, HeadOfBuffer
  <2>4. PICK h \in 0..Len(sent) : h = j - 1 /\ h + 1 = j
    BY <1>1
  <2>5. Kept(j, h)
    <3>1. Between(Stream, sent, Consumed, h)
      BY <1>1, <2>2, <2>4 DEF Between, StartOf
    <3>2. \A k \in j..h : FALSE
      BY <1>1, <2>4
    <3> QED BY <3>1, <3>2 DEF Kept
  <2>6. GaplessFrom(Stream, sent, h) /\ j - 1 <= h
    BY <1>1, <1>3, <2>4
  <2> QED BY <2>3, <2>5, <2>6, ScanFollows DEF Behind
<1> QED BY <1>4, <1>5

(* A byte read, or nothing done, changes nothing that is handed on; what   *)
(* the device writes comes behind, and behind a loss nothing has been      *)
(* taken yet.                                                              *)
LEMMA WritingKeepsInStep ==
  ASSUME TypedTail, Handled, LinkTyped, InStep, TextApart(sent), SendFrame \/ SendText
  PROVE  InStep'
<1>1. PICK m \in Message :
        /\ m.start = Len(Stream) + 1 /\ m.whole
        /\ sent' = Append(sent, m)
        /\ Stream' = Stream \o BytesOf(m)
        /\ UNCHANGED <<received, buf, logBuf, events, losses, lossAt>>
        /\ m.kind = "text" => ~(EndsInTextStart(sent) /\ m.data = <<Start2>>)
  BY SendAppends DEF EndsInTextStart, AfterTextStart
<1>2. /\ Stream \in Seq(Byte) /\ sent \in Seq(Message) /\ Len(sent) \in Nat
      /\ Consumed \in Nat /\ Len(received) \in Nat /\ Len(buf) \in Nat
      /\ Len(received) = Consumed + Len(buf) /\ Len(Stream) \in Nat
      /\ Len(received) <= Len(Stream)
  BY StreamFacts, HeadOfBuffer DEF LinkTyped
<1>3. /\ Len(sent') = Len(sent) + 1 /\ sent'[Len(sent) + 1] = m
      /\ \A i \in 1..Len(sent) : sent'[i] = sent[i]
      /\ DOMAIN sent = 1..Len(sent) /\ DOMAIN sent' = 1..Len(sent) + 1
  BY <1>1, <1>2
<1>4. \A i \in 1..Len(sent) + 1 : StartOf(Stream', sent', i) = StartOf(Stream, sent, i)
  BY <1>1, <1>2, WrittenGapless
<1>5. Consumed' = Consumed /\ FrameEvents' = FrameEvents /\ events' = events
  BY <1>1 DEF Consumed, FrameEvents
<1> SUFFICES ASSUME NEW j \in 1..Len(sent'), TakenInStep(j)'
             PROVE  Followed(j)'
  BY DEF InStep
<1>6. /\ sent'[j].kind = "frame" /\ sent'[j].whole /\ sent'[j].start > lossAt
      /\ \E i \in FrameEvents : events[i].at = sent'[j].start /\ events[i].data = sent'[j].data
  BY <1>1, <1>5 DEF TakenInStep, FrameHandedOn
<1>7. j \in 1..Len(sent)
  <2> SUFFICES ASSUME j = Len(sent) + 1 PROVE FALSE
    BY <1>2, <1>3
  <2>1. PICK i \in FrameEvents : events[i].at = Len(Stream) + 1
    BY <1>1, <1>3, <1>6
  <2>2. events[i].at \in 1..Consumed
    BY TakenFrameFacts DEF FrameEvents
  <2> QED BY <1>2, <2>1, <2>2
<1>8. Followed(j)
  BY <1>3, <1>6, <1>7 DEF InStep, TakenInStep, FrameHandedOn
<1>9. OnlyGenuine(j)'
  <2> SUFFICES ASSUME NEW i \in FrameEvents, events[i].at > sent[j].start
               PROVE  IsGenuine(events[i])'
    BY <1>3, <1>5, <1>7 DEF OnlyGenuine
  <2>1. IsGenuine(events[i])
    BY <1>8 DEF Followed, OnlyGenuine
  <2>2. PICK n \in 1..Len(sent) : /\ sent[n].kind = "frame" /\ sent[n].whole
                                  /\ sent[n].start = events[i].at /\ sent[n].data = events[i].data
    BY <1>3, <2>1 DEF IsGenuine
  <2>3. n \in DOMAIN sent' /\ sent'[n] = sent[n]
    BY <1>2, <1>3
  <2> QED BY <1>5, <2>2, <2>3 DEF IsGenuine
<1>10. PICK h \in j..Len(sent) : Kept(j, h)
  BY <1>8 DEF Followed
<1>11. Kept(j, h)'
  <2>1. Between(Stream, sent, Consumed, h)'
    <3>1. h + 1 \in 1..Len(sent) + 1
      BY <1>2, <1>7
    <3> QED BY <1>4, <1>5, <1>10, <3>1 DEF Kept, Between
  <2>2. ASSUME NEW k \in j..h, sent'[k].kind = "frame" PROVE FrameHandedOn(sent[k])'
    <3>1. k \in 1..Len(sent) /\ sent'[k] = sent[k]
      BY <1>2, <1>3, <1>7
    <3>2. FrameHandedOn(sent[k])
      BY <1>10, <2>2, <3>1 DEF Kept
    <3> QED BY <1>5, <3>1, <3>2 DEF FrameHandedOn
  <2> QED BY <2>1, <2>2 DEF Kept
<1>12. h \in j..Len(sent')
  BY <1>2, <1>3, <1>7
<1> QED BY <1>9, <1>11, <1>12 DEF Followed

LEMMA StepKeepsInStep ==
  ASSUME DevStart1 = Start1, DevStart2 = Start2,
         TypedTail, Handled, LinkTyped, LaidOut(Stream, sent), Behind, InStep,
         [LinkNext]_linkVars
  PROVE  InStep'
<1>1. CASE SendFrame \/ SendText
  BY <1>1, WritingKeepsInStep DEF Behind
<1>2. CASE ScanByte
  BY <1>2, ScanKeepsInStep
<1>3. CASE ReadByte \/ UNCHANGED linkVars
  <2>1. /\ Stream' = Stream /\ sent' = sent
        /\ UNCHANGED <<lossAt, events>>
    BY <1>3, ReadKeepsStream, ScanKeepsStream DEF ReadByte, Receive, linkVars, vars
  <2>2. Consumed' = Consumed
    <3>1. CASE ReadByte
      <4>1. Head(wire) \in Byte
        BY <3>1 DEF ReadByte, LinkTyped
      <4> QED BY <3>1, <4>1, ReceiveKeepsTypedTail DEF ReadByte
    <3>2. CASE UNCHANGED linkVars
      BY <3>2 DEF linkVars, vars, Consumed
    <3> QED BY <1>3, <3>1, <3>2
  <2> QED BY <2>1, <2>2
       DEF InStep, TakenInStep, Followed, OnlyGenuine, Kept, IsGenuine, FrameHandedOn, FrameEvents
<1>4. CASE LoseByte
  <2> SUFFICES ASSUME NEW j \in 1..Len(sent'), TakenInStep(j)' PROVE FALSE
    BY DEF InStep
  <2>1. lossAt' = Len(received) /\ events' = events
    BY <1>4 DEF LoseByte, vars
  <2>2. PICK i \in FrameEvents : events[i].at = sent'[j].start /\ sent'[j].start > Len(received)
    BY <2>1 DEF TakenInStep, FrameHandedOn, FrameEvents
  <2>3. events[i].at \in 1..Consumed
    BY TakenFrameFacts DEF FrameEvents
  <2> QED BY <2>2, <2>3, HeadOfBuffer
<1> QED BY <1>1, <1>2, <1>3, <1>4 DEF LinkNext

LEMMA InStepInvariant ==
  ASSUME DevStart1 = Start1, DevStart2 = Start2
  PROVE  LinkSpec => [](Behind /\ InStep)
<1>1. LinkInit => Behind /\ InStep
  <2> SUFFICES ASSUME LinkInit PROVE Behind /\ InStep
    OBVIOUS
  <2>1. Len(sent) = 0 /\ Len(received) = 0 /\ lossAt = 0
    BY DEF LinkInit, Init
  <2> QED BY <2>1 DEF Behind, InStep, TextApart, GaplessBehind
<1>2. TypedTail /\ Handled /\ LinkTyped /\ LaidOut(Stream, sent)
        /\ (Behind /\ InStep) /\ [LinkNext]_linkVars
        => (Behind /\ InStep)'
  BY StepKeepsBehind, StepKeepsInStep
<1> QED BY <1>1, <1>2, LinkImplementsScanner, TypedTailInvariant, HandledInvariant,
           LinkTypedInvariant, LaidOutInvariant, PTL DEF LinkSpec

(* When nothing is on the way and the scanner waits for input, the message *)
(* it stands in front of, if there is one, is a text byte and the last.    *)
LEMMA NothingWaits ==
  ASSUME DevStart1 = Start1, DevStart2 = Start2,
         TypedTail, LinkTyped, LaidOut(Stream, sent), TextApart(sent),
         wire = << >>, Blocked(buf),
         NEW h \in 0..Len(sent), GaplessFrom(Stream, sent, h),
         Between(Stream, sent, Consumed, h),
         NEW k \in 1..Len(sent), k > h
  PROVE  sent[k].kind # "frame"
<1>1. /\ Consumed \in Nat /\ Len(buf) \in Nat /\ Len(received) = Consumed + Len(buf)
      /\ Len(sent) \in Nat /\ h \in Nat /\ sent \in Seq(Message) /\ buf \in Seq(Byte)
  BY HeadOfBuffer DEF LinkTyped, TypedTail, TypeOK
<1>2. Len(Stream) = Consumed + Len(buf)
  <2>1. Len(wire) = 0
    OBVIOUS
  <2> QED BY <1>1, <2>1, StreamFacts
<1>3. PICK g \in 1..Len(sent) : g = h + 1
  BY <1>1
<1>4. \A i \in 1..Len(sent) :
        /\ sent[i].start \in Nat /\ LengthOf(sent[i]) \in Nat \ {0}
        /\ sent[i].kind \in {"frame", "text"}
  <2> SUFFICES ASSUME NEW i \in 1..Len(sent)
               PROVE  /\ sent[i].start \in Nat /\ LengthOf(sent[i]) \in Nat \ {0}
                      /\ sent[i].kind \in {"frame", "text"}
    OBVIOUS
  <2>1. sent[i] \in Message
    BY <1>1
  <2> QED BY <2>1, MessageBytes
<1>5. \A i \in 1..Len(sent) : i > h =>
        sent[i].whole /\ sent[i].start + LengthOf(sent[i]) <= Len(Stream) + 1
  <2> SUFFICES ASSUME NEW i \in 1..Len(sent), i > h
               PROVE  sent[i].whole /\ sent[i].start + LengthOf(sent[i]) <= Len(Stream) + 1
    OBVIOUS
  <2>1. sent[i].whole
    BY DEF GaplessFrom
  <2>2. LiesIn(Stream, sent[i])
    BY <2>1 DEF LaidOut
  <2> QED BY <2>1, <2>2 DEF LiesIn
<1>6. sent[g].whole /\ sent[g].start = Consumed + 1 /\ LengthOf(sent[g]) <= Len(buf)
  <2>1. sent[g].start = Consumed + 1 /\ g > h
    BY <1>1, <1>3 DEF Between, StartOf
  <2>2. sent[g].whole /\ sent[g].start + LengthOf(sent[g]) <= Len(Stream) + 1
    BY <1>5, <2>1
  <2>3. PICK l \in Nat : l = LengthOf(sent[g])
    BY <1>4
  <2>4. (Consumed + 1) + l <= (Consumed + Len(buf)) + 1
    BY <1>2, <2>1, <2>2, <2>3
  <2>5. l <= Len(buf)
    BY <1>1, <2>4
  <2> QED BY <2>1, <2>2, <2>3, <2>5
<1>7. sent[g].kind # "frame"
  BY <1>6, HeadFrame DEF Blocked
<1>8. sent[g].kind = "text" /\ LengthOf(sent[g]) = 1 /\ Len(buf) >= 1
  BY <1>1, <1>4, <1>6, <1>7 DEF LengthOf
<1>9. Len(buf) = 1
  <2>1. ~StartsFrame(buf)
    <3>1. sent[h + 1].kind = "text"
      BY <1>3, <1>8
    <3> QED BY <1>8, <3>1, TextStartsNothing
  <2>2. ~(Len(buf) >= 2)
    BY <2>1 DEF Blocked, IsText
  <2>3. \A n \in Nat : n >= 1 /\ ~(n >= 2) => n = 1
    OBVIOUS
  <2>4. Len(buf) \in Nat /\ Len(buf) >= 1
    BY <1>1, <1>8
  <2> QED BY <2>2, <2>3, <2>4
<1>10. ASSUME k # g PROVE FALSE
  <2>1. g < k /\ k > h
    BY <1>1, <1>3, <1>10
  <2>2. sent[g].start + LengthOf(sent[g]) <= sent[k].start
    BY <1>6, <2>1 DEF LaidOut, InOrder
  <2>3. sent[k].start + LengthOf(sent[k]) <= Len(Stream) + 1
    BY <1>5, <2>1
  <2>4. PICK a \in Nat, l \in Nat \ {0} : a = sent[k].start /\ l = LengthOf(sent[k])
    BY <1>4
  <2>5. (Consumed + 1) + 1 <= a /\ a + l <= (Consumed + 1) + 1
    BY <1>2, <1>6, <1>8, <1>9, <2>2, <2>3, <2>4
  <2> QED BY <1>1, <2>4, <2>5
<1> QED BY <1>7, <1>10

(* However many bytes were lost, and whatever the payloads hold: once a    *)
(* frame that the device wrote behind the last loss is handed on, all its  *)
(* later frames are, and no other (serial.go 172-238).                     *)
THEOREM StaysInStepCorrect ==
  ASSUME DevStart1 = Start1, DevStart2 = Start2
  PROVE  LinkSpec => []StaysInStep
<1>1. TypedTail /\ LinkTyped /\ LaidOut(Stream, sent) /\ Behind /\ InStep => StaysInStep
  <2> SUFFICES ASSUME TypedTail, LinkTyped, LaidOut(Stream, sent), Behind, InStep,
                      NEW j \in DOMAIN sent, TakenInStep(j)
               PROVE  /\ OnlyGenuine(j)
                      /\ wire = << >> /\ Blocked(buf) =>
                           \A k \in DOMAIN sent :
                             k > j /\ sent[k].kind = "frame" => FrameHandedOn(sent[k])
    BY DEF StaysInStep, OnlyGenuine
  <2>1. j \in 1..Len(sent) /\ DOMAIN sent = 1..Len(sent) /\ Len(sent) \in Nat
        /\ sent \in Seq(Message)
    BY DEF LinkTyped
  <2>2. Followed(j)
    BY <2>1 DEF InStep
  <2>3. PICK h \in j..Len(sent) : Kept(j, h)
    BY <2>2 DEF Followed
  <2>4. GaplessFrom(Stream, sent, h)
    <3>1. GaplessFrom(Stream, sent, j - 1)
      BY <2>1 DEF Behind, GaplessBehind, TakenInStep
    <3>2. j - 1 \in Nat /\ h \in Nat /\ j - 1 <= h
      BY <2>1
    <3> QED BY <2>1, <3>1, <3>2, GaplessBehindLater
  <2>5. ASSUME wire = << >>, Blocked(buf),
               NEW k \in 1..Len(sent), k > j, sent[k].kind = "frame"
        PROVE  FrameHandedOn(sent[k])
    <3>1. h \in 0..Len(sent)
      BY <2>1
    <3>2. ~(k > h)
      BY <2>3, <2>4, <2>5, <3>1, NothingWaits DEF Behind, Kept
    <3>3. k \in j..h
      BY <2>1, <2>5, <3>2
    <3> QED BY <2>3, <2>5, <3>3 DEF Kept
  <2> QED BY <2>1, <2>2, <2>5 DEF Followed
<1> QED BY <1>1, InStepInvariant, LinkImplementsScanner, TypedTailInvariant,
           LinkTypedInvariant, LaidOutInvariant, PTL
=============================================================================
