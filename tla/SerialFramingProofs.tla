------------------------- MODULE SerialFramingProofs -------------------------
(***************************************************************************)
(* Safety of the byte scanner for every byte alphabet, every maximal       *)
(* payload size and inputs of any length.  The properties are inductive    *)
(* only together: that a frame handed on is a slice of the input follows   *)
(* from buf being the unread end of the input, and the order of the events *)
(* from each of them lying in the part already consumed.  That no frame    *)
(* and no text is missed needs one invariant more (Decided): every byte    *)
(* that has left buf is in a frame handed on or begins none whatever       *)
(* follows.                                                                *)
(***************************************************************************)
EXTENDS SerialFraming, FiniteSetTheorems, TLAPS

(* Where an item of n bytes behind a header at a ends.                     *)
LEMMA EndOfItem ==
  \A a, n \in Nat : n >= 1 => /\ a + HeaderLen + n - 1 \in Nat
                              /\ a + 4 <= a + HeaderLen + n - 1
                              /\ (a + HeaderLen + n - 1) + 1 = a + HeaderLen + n
                              /\ (a + 1) + HeaderLen + n - 1 = a + HeaderLen + n
  BY DEF HeaderLen

USE ByteAssumption, MaxSizeAssumption, MaxBytesAssumption

-----------------------------------------------------------------------------
(* What the conditions of the inner loop say of a buffer.                  *)

LEMMA LengthTyped ==
  ASSUME NEW b \in Seq(Byte), Len(b) >= HeaderLen
  PROVE  Length(b) \in Nat
<1>1. b[3] \in Byte /\ b[4] \in Byte
  BY DEF HeaderLen
<1>2. \A m, n \in 0..255 : m * 256 + n \in Nat
  OBVIOUS
<1>3. b[3] \in 0..255 /\ b[4] \in 0..255
  BY <1>1
<1>4. b[3] * 256 + b[4] \in Nat
  BY <1>2, <1>3
<1> QED BY <1>4 DEF Length

LEMMA FrameFacts ==
  ASSUME NEW b \in Seq(Byte), IsFrame(b)
  PROVE  /\ Length(b) \in 1..MaxSize
         /\ Len(b) \in Nat
         /\ Len(b) >= HeaderLen + Length(b)
         /\ b[1] = Start1 /\ b[2] = Start2
         /\ Length(b) = b[3] * 256 + b[4]
<1>1. Len(b) >= HeaderLen
  BY DEF IsFrame
<1>3. Length(b) \in Nat
  BY <1>1, LengthTyped
<1> QED
  BY <1>3 DEF IsFrame, BadLength, StartsFrame, Length

(* A loop that waits for input holds less than one frame of maximal size.  *)
LEMMA BlockedIsShort ==
  ASSUME NEW b \in Seq(Byte), Blocked(b)
  PROVE  Len(b) < HeaderLen + MaxSize
<1>1. CASE Len(b) < HeaderLen
  BY <1>1 DEF HeaderLen
<1>2. CASE Len(b) >= HeaderLen
  <2>2. Length(b) \in Nat
    BY <1>2, LengthTyped
  <2>3. Len(b) < HeaderLen + Length(b) /\ Length(b) <= MaxSize
    BY <1>2, <2>2 DEF Blocked, IsText, IsBadFrame, IsFrame, BadLength, HeaderLen
  <2> QED BY <2>2, <2>3 DEF HeaderLen
<1> QED BY <1>1, <1>2 DEF HeaderLen

-----------------------------------------------------------------------------
(* Types, and buf as the unread end of the input.  The two need each other: *)
(* an event's position is a natural number because buf is no longer than   *)
(* the input.                                                              *)

TypedTail == TypeOK /\ BufferIsTail

(* A step that takes n bytes from the head of buf.                         *)
LEMMA TakingKeepsTail ==
  ASSUME TypedTail, NEW n \in Nat, n <= Len(buf),
         received' = received, buf' = SubSeq(buf, n + 1, Len(buf))
  PROVE  /\ buf' \in Seq(Byte)
         /\ BufferIsTail'
         /\ Consumed' = Consumed + n
         /\ Consumed \in Nat
<1> USE DEF TypedTail, TypeOK, BufferIsTail
<1>1. Len(buf) \in Nat /\ Len(received) \in Nat /\ Len(buf) <= Len(received)
  OBVIOUS
<1>2. /\ buf' \in Seq(Byte)
      /\ Len(buf') = Len(buf) - n
      /\ \A i \in 1..Len(buf') : buf'[i] = buf[n + i]
  BY <1>1
<1>3. Consumed' = Consumed + n /\ Consumed \in Nat
  <2>1. Len(received') = Len(received)
    OBVIOUS
  <2> HIDE DEF TypedTail, TypeOK, BufferIsTail
  <2>2. \A r, b, k \in Nat : b <= r => r - (b - k) = (r - b) + k /\ r - b \in Nat
    OBVIOUS
  <2>3. Consumed = Len(received) - Len(buf) /\ Consumed' = Len(received) - (Len(buf) - n)
    BY <1>2, <2>1 DEF Consumed
  <2> QED BY <1>1, <2>2, <2>3
<1>4. ASSUME NEW i \in 1..Len(buf') PROVE buf'[i] = received'[Consumed' + i]
  <2>1. n + i \in 1..Len(buf)
    <3>1. \A b, m \in Nat : \A k \in 1..b - m : m + k \in 1..b
      OBVIOUS
    <3>2. i \in 1..Len(buf) - n
      BY <1>2
    <3> HIDE DEF TypedTail, TypeOK, BufferIsTail
    <3> QED BY <1>1, <3>1, <3>2
  <2>2. buf[n + i] = received[Consumed + (n + i)]
    BY <2>1
  <2>3. Consumed + (n + i) = Consumed' + i
    BY <1>3
  <2> QED BY <1>2, <2>2, <2>3
<1> QED BY <1>1, <1>2, <1>3, <1>4

LEMMA TailIsSubSeq1 ==
  ASSUME NEW s \in Seq(Byte), Len(s) >= 1
  PROVE  Tail(s) = SubSeq(s, 1 + 1, Len(s))
  OBVIOUS

LEMMA ReceiveKeepsTypedTail ==
  ASSUME TypedTail, NEW b \in Byte, Receive(b)
  PROVE  TypedTail' /\ Consumed' = Consumed
<1>1. /\ Len(buf) \in Nat /\ Len(received) \in Nat
      /\ Len(buf) <= Len(received)
  BY DEF TypedTail, TypeOK, BufferIsTail
<1>2. /\ Len(buf') = Len(buf) + 1
      /\ buf'[Len(buf) + 1] = b
      /\ \A i \in 1..Len(buf) : buf'[i] = buf[i]
  BY DEF TypedTail, TypeOK, Receive
<1>3. /\ Len(received') = Len(received) + 1
      /\ received'[Len(received) + 1] = b
      /\ \A i \in 1..Len(received) : received'[i] = received[i]
  BY DEF TypedTail, TypeOK, Receive
<1>4. Consumed' = Consumed /\ Consumed \in Nat /\ Consumed + Len(buf) = Len(received)
  BY <1>1, <1>2, <1>3 DEF Consumed
<1>5. TypeOK'
  BY DEF TypedTail, TypeOK, Receive
<1>6. ASSUME NEW i \in 1..Len(buf') PROVE buf'[i] = received'[Consumed' + i]
  <2>1. CASE i <= Len(buf)
    <3>1. i \in 1..Len(buf) /\ Consumed + i \in 1..Len(received)
      BY <2>1, <1>1, <1>4
    <3>2. buf[i] = received[Consumed + i]
      BY <3>1 DEF TypedTail, BufferIsTail
    <3> QED BY <1>2, <1>3, <1>4, <3>1, <3>2
  <2>2. CASE i > Len(buf)
    <3>1. i = Len(buf) + 1 /\ Consumed + i = Len(received) + 1
      BY <1>1, <1>2, <1>4, <2>2
    <3> QED BY <1>2, <1>3, <1>4, <3>1
  <2> QED BY <1>1, <1>2, <2>1, <2>2
<1>7. Len(buf') <= Len(received')
  BY <1>1, <1>2, <1>3
<1>8. BufferIsTail'
  BY <1>6, <1>7 DEF BufferIsTail
<1> QED BY <1>4, <1>5, <1>8 DEF TypedTail

(* The five branches of the inner loop take 1 byte or a whole frame.       *)
LEMMA ScanKeepsTypedTail ==
  ASSUME TypedTail, Scan
  PROVE  TypedTail'
<1> USE DEF TypedTail, TypeOK
<1>0. Consumed \in Nat
  BY DEF Consumed, BufferIsTail
<1>1. CASE EndLine
  <2>1. Len(buf) >= 1 /\ buf' = SubSeq(buf, 1 + 1, Len(buf)) /\ received' = received
    BY <1>1, TailIsSubSeq1 DEF EndLine, IsText
  <2>2. buf' \in Seq(Byte) /\ BufferIsTail'
    BY <2>1, TakingKeepsTail
  <2>3. [kind |-> "line", at |-> Consumed + 1, data |-> logBuf] \in Event
    BY <1>0 DEF Event
  <2> QED BY <1>1, <2>2, <2>3 DEF EndLine
<1>2. CASE DropReturn
  <2>1. Len(buf) >= 1 /\ buf' = SubSeq(buf, 1 + 1, Len(buf)) /\ received' = received
    BY <1>2, TailIsSubSeq1 DEF DropReturn, IsText
  <2>2. buf' \in Seq(Byte) /\ BufferIsTail'
    BY <2>1, TakingKeepsTail
  <2> QED BY <1>2, <2>2 DEF DropReturn
<1>3. CASE LogByte
  <2>1. Len(buf) >= 1 /\ buf' = SubSeq(buf, 1 + 1, Len(buf)) /\ received' = received
    BY <1>3, TailIsSubSeq1 DEF LogByte, IsText
  <2>2. buf' \in Seq(Byte) /\ BufferIsTail'
    BY <2>1, TakingKeepsTail
  <2>3. Head(buf) \in Text
    BY <1>3, <2>1 DEF LogByte, Text
  <2> QED BY <1>3, <2>2, <2>3 DEF LogByte
<1>4. CASE DropStart
  <2>1. Len(buf) >= 1 /\ buf' = SubSeq(buf, 1 + 1, Len(buf)) /\ received' = received
    BY <1>4, TailIsSubSeq1 DEF DropStart, IsBadFrame, StartsFrame
  <2>2. buf' \in Seq(Byte) /\ BufferIsTail'
    BY <2>1, TakingKeepsTail
  <2> QED BY <1>4, <2>2 DEF DropStart
<1>5. CASE TakeFrame
  <2>1. /\ Length(buf) \in 1..MaxSize
        /\ HeaderLen + Length(buf) <= Len(buf)
        /\ Len(buf) \in Nat
    BY <1>5, FrameFacts DEF TakeFrame
  <2>2. /\ HeaderLen + Length(buf) \in Nat
        /\ buf' = SubSeq(buf, (HeaderLen + Length(buf)) + 1, Len(buf))
        /\ received' = received
    BY <1>5, <2>1 DEF TakeFrame, HeaderLen
  <2>3. buf' \in Seq(Byte) /\ BufferIsTail'
    BY <2>1, <2>2, TakingKeepsTail
  <2>4. SubSeq(buf, HeaderLen + 1, HeaderLen + Length(buf)) \in Seq(Byte)
    BY <2>1 DEF HeaderLen
  <2>5. [kind |-> "frame", at |-> Consumed + 1,
         data |-> SubSeq(buf, HeaderLen + 1, HeaderLen + Length(buf))] \in Event
    BY <1>0, <2>4 DEF Event
  <2> QED BY <1>5, <2>3, <2>5 DEF TakeFrame
<1> QED BY <1>1, <1>2, <1>3, <1>4, <1>5 DEF Scan

LEMMA TypedTailInvariant == Spec => []TypedTail
<1>1. Init => TypedTail
  BY DEF Init, TypedTail, TypeOK, BufferIsTail, Consumed
<1>2. TypedTail /\ [Next]_vars => TypedTail'
  <2> SUFFICES ASSUME TypedTail, [Next]_vars PROVE TypedTail'
    OBVIOUS
  <2>1. CASE UNCHANGED vars
    BY <2>1 DEF vars, TypedTail, TypeOK, BufferIsTail, Consumed
  <2> QED BY <2>1, ReceiveKeepsTypedTail, ScanKeepsTypedTail DEF Next
<1> QED BY <1>1, <1>2, PTL DEF Spec

(* The variables of the scanner have their types, for every input.         *)
THEOREM TypeCorrect == Spec => []TypeOK
  BY TypedTailInvariant, PTL DEF TypedTail

(* Scanning consumes the input from its front and touches nothing else.    *)
THEOREM TailCorrect == Spec => []BufferIsTail
  BY TypedTailInvariant, PTL DEF TypedTail

-----------------------------------------------------------------------------
(* The buffer never exceeds one frame of maximal size.                     *)

LEMMA StepKeepsBound ==
  ASSUME TypedTail, BufferBounded, [Next]_vars
  PROVE  BufferBounded'
<1>1. Len(buf) \in Nat /\ buf \in Seq(Byte) /\ buf' \in Seq(Byte)
  <2>1. TypedTail'
    <3>1. CASE UNCHANGED vars
      BY <3>1 DEF vars, TypedTail, TypeOK, BufferIsTail, Consumed
    <3> QED BY <3>1, ReceiveKeepsTypedTail, ScanKeepsTypedTail DEF Next
  <2>2. buf \in Seq(Byte) /\ buf' \in Seq(Byte)
    BY <2>1 DEF TypedTail, TypeOK
  <2> QED BY <2>2
<1>2. Len(buf') <= HeaderLen + MaxSize
  <2>1. CASE \E b \in Byte : Receive(b)
    <3>1. Len(buf') = Len(buf) + 1 /\ Blocked(buf)
      BY <1>1, <2>1 DEF Receive
    <3> QED BY <1>1, <3>1, BlockedIsShort DEF HeaderLen
  <2>2. CASE EndLine \/ DropReturn \/ LogByte \/ DropStart
    <3>1. Len(buf) >= 1 /\ buf' = Tail(buf)
      BY <2>2 DEF EndLine, DropReturn, LogByte, DropStart, IsText, IsBadFrame, StartsFrame
    <3>2. Len(buf') <= Len(buf)
      BY <1>1, <3>1
    <3> QED BY <1>1, <3>2 DEF BufferBounded, HeaderLen
  <2>3. CASE TakeFrame
    <3>1. Length(buf) \in 1..MaxSize /\ Len(buf) >= HeaderLen + Length(buf)
      BY <1>1, <2>3, FrameFacts DEF TakeFrame
    <3>2. Len(buf') <= Len(buf)
      BY <1>1, <2>3, <3>1 DEF TakeFrame, HeaderLen
    <3> QED BY <1>1, <3>2 DEF BufferBounded, HeaderLen
  <2>4. CASE UNCHANGED vars
    BY <2>4 DEF vars, BufferBounded
  <2> QED BY <2>1, <2>2, <2>3, <2>4 DEF Next, Scan
<1>3. Blocked(buf') => Len(buf') < HeaderLen + MaxSize
  BY <1>1, BlockedIsShort
<1> QED BY <1>2, <1>3 DEF BufferBounded

(* No input makes the scan buffer grow beyond one maximal frame.           *)
THEOREM BufferBoundedCorrect == Spec => []BufferBounded
<1>1. Init => BufferBounded
  BY DEF Init, BufferBounded, HeaderLen
<1>2. TypedTail /\ BufferBounded /\ [Next]_vars => BufferBounded'
  BY StepKeepsBound
<1> QED BY <1>1, <1>2, TypedTailInvariant, PTL DEF Spec

-----------------------------------------------------------------------------
(* Events: frames are slices of the input, and no two events share a byte. *)

Handled == FramesSound /\ EventsOrdered

LEMMA OneByteTaken ==
  ASSUME TypedTail, EndLine \/ DropReturn \/ LogByte \/ DropStart
  PROVE  received' = received /\ Consumed' = Consumed + 1 /\ Consumed \in Nat
<1>1. /\ Len(buf) >= 1 /\ buf' = Tail(buf) /\ received' = received
      /\ buf \in Seq(Byte)
  BY DEF EndLine, DropReturn, LogByte, DropStart, IsText, IsBadFrame, StartsFrame, TypedTail, TypeOK
<1>2. buf' = SubSeq(buf, 1 + 1, Len(buf))
  BY <1>1, TailIsSubSeq1
<1> QED BY <1>1, <1>2, TakingKeepsTail

LEMMA FrameTaken ==
  ASSUME TypedTail, TakeFrame
  PROVE  /\ received' = received
         /\ Consumed \in Nat
         /\ Length(buf) \in 1..MaxSize
         /\ HeaderLen + Length(buf) <= Len(buf)
         /\ Consumed' = Consumed + HeaderLen + Length(buf)
         /\ buf[1] = Start1 /\ buf[2] = Start2
         /\ Length(buf) = buf[3] * 256 + buf[4]
         /\ Len(buf) \in Nat
<1>1. buf \in Seq(Byte) /\ IsFrame(buf) /\ received' = received
  BY DEF TypedTail, TypeOK, TakeFrame
<1>2. /\ Length(buf) \in 1..MaxSize
      /\ HeaderLen + Length(buf) <= Len(buf)
      /\ Len(buf) \in Nat
      /\ buf[1] = Start1 /\ buf[2] = Start2
      /\ Length(buf) = buf[3] * 256 + buf[4]
  BY <1>1, FrameFacts
<1>3. /\ HeaderLen + Length(buf) \in Nat
      /\ buf' = SubSeq(buf, (HeaderLen + Length(buf)) + 1, Len(buf))
  <2>1. HeaderLen + Length(buf) \in Nat
    BY <1>2 DEF HeaderLen
  <2>2. buf' = SubSeq(buf, HeaderLen + Length(buf) + 1, Len(buf))
    BY DEF TakeFrame
  <2> QED BY <2>1, <2>2
<1>4. Consumed' = Consumed + (HeaderLen + Length(buf)) /\ Consumed \in Nat
  BY <1>1, <1>2, <1>3, TakingKeepsTail
<1> QED BY <1>1, <1>2, <1>4 DEF HeaderLen

(* Every iteration of the inner loop shortens buf: it comes back to the    *)
(* read after as many iterations as buf holds bytes, at the most (serial.go *)
(* 172-238).                                                               *)
THEOREM ScanShortensBuffer == Spec => [][Scan => Len(buf') < Len(buf)]_vars
<1>1. TypedTail /\ Scan => Len(buf') < Len(buf)
  <2> SUFFICES ASSUME TypedTail, Scan PROVE Len(buf') < Len(buf)
    OBVIOUS
  <2>1. /\ Len(buf) \in Nat /\ Len(buf') \in Nat /\ Len(received) \in Nat
        /\ Consumed = Len(received) - Len(buf) /\ Consumed' = Len(received') - Len(buf')
    BY ScanKeepsTypedTail DEF TypedTail, TypeOK, Consumed
  <2>2. received' = received /\ Consumed' > Consumed
    <3>1. CASE EndLine \/ DropReturn \/ LogByte \/ DropStart
      BY <3>1, OneByteTaken
    <3>2. CASE TakeFrame
      BY <3>2, FrameTaken DEF HeaderLen
    <3> QED BY <3>1, <3>2 DEF Scan
  <2> QED BY <2>1, <2>2
<1>2. TypedTail /\ [Next]_vars => [Scan => Len(buf') < Len(buf)]_vars
  BY <1>1
<1> QED BY <1>2, TypedTailInvariant, PTL DEF Spec

(* Sound and ordered events stay so when bytes are read or dropped.        *)
LEMMA SameEventsHandled ==
  ASSUME TypedTail, Handled, events' = events, Consumed \in Nat, Consumed' \in Nat,
         Consumed' >= Consumed,
         \A k \in 1..Consumed : received'[k] = received[k]
  PROVE  Handled'
<1>1. /\ FrameEvents' = FrameEvents
      /\ \A i \in FrameEvents : i \in 1..Len(events) /\ events[i] \in Event /\ events[i].kind = "frame"
  BY DEF FrameEvents, TypedTail, TypeOK
<1>2. ASSUME NEW i \in FrameEvents PROVE SoundFrame(events[i])'
  <2> DEFINE e == events[i]
  <2>1. /\ SoundFrame(e) /\ e \in Event /\ e.kind = "frame" /\ e.at >= 1
    BY <1>1 DEF Handled, FramesSound, EventsOrdered
  <2>2. e.at \in Nat /\ Len(e.data) \in Nat
    BY <2>1 DEF Event
  <2>3. e' = e
    OBVIOUS
  <2> HIDE DEF e
  <2>4. e.at + HeaderLen + Len(e.data) - 1 <= Consumed /\ Len(e.data) >= 1
    BY <2>1 DEF SoundFrame, LastByteOf
  <2>5. /\ received'[e.at] = received[e.at]
        /\ received'[e.at + 1] = received[e.at + 1]
        /\ received'[e.at + 2] = received[e.at + 2]
        /\ received'[e.at + 3] = received[e.at + 3]
    <3>1. /\ e.at \in 1..Consumed
          /\ e.at + 1 \in 1..Consumed
          /\ e.at + 2 \in 1..Consumed
          /\ e.at + 3 \in 1..Consumed
      <4>1. \A a, n \in Nat : a >= 1 /\ n >= 1 /\ a + HeaderLen + n - 1 <= Consumed
              => /\ a \in 1..Consumed
                 /\ a + 1 \in 1..Consumed
                 /\ a + 2 \in 1..Consumed
                 /\ a + 3 \in 1..Consumed
        BY DEF HeaderLen
      <4> QED BY <2>1, <2>2, <2>4, <4>1
    <3> QED BY <3>1
  <2>6. \A k \in 1..Len(e.data) : received'[e.at + HeaderLen + k - 1] = received[e.at + HeaderLen + k - 1]
    <3>1. \A k \in 1..Len(e.data) : e.at + HeaderLen + k - 1 \in 1..Consumed
      <4>1. Consumed \in Nat
        BY DEF TypedTail, TypeOK, BufferIsTail, Consumed
      <4>2. PICK a \in Nat, l \in Nat : a = e.at /\ l = Len(e.data) /\ a >= 1 /\ a + 4 + l - 1 <= Consumed
        BY <2>1, <2>2, <2>4 DEF HeaderLen
      <4>3. \A x, n, c \in Nat : \A k \in 1..n : x >= 1 /\ x + 4 + n - 1 <= c => x + 4 + k - 1 \in 1..c
        OBVIOUS
      <4>4. \A k \in 1..l : a + 4 + k - 1 \in 1..Consumed
        BY <4>1, <4>2, <4>3, SMTT(30)
      <4> QED BY <4>2, <4>4 DEF HeaderLen
    <3> QED BY <3>1
  <2>7. e.at + HeaderLen + Len(e.data) - 1 <= Consumed'
    BY <2>2, <2>4 DEF HeaderLen
  <2>8. SoundFrame(e)'
    BY <2>1, <2>3, <2>5, <2>6, <2>7 DEF SoundFrame, LastByteOf, LengthAt
  <2> QED BY <2>8 DEF e
<1>3. FramesSound'
  BY <1>1, <1>2 DEF FramesSound
<1>4. EventsOrdered'
  <2>1. \A i \in 1..Len(events) : LastByteOf(events[i]) \in Int
    BY DEF LastByteOf, TypedTail, TypeOK, Event, HeaderLen
  <2>2. \A i \in 1..Len(events) : LastByteOf(events[i])' = LastByteOf(events[i])
    BY DEF LastByteOf
  <2> QED BY <2>1, <2>2 DEF Handled, EventsOrdered
<1> QED BY <1>3, <1>4 DEF Handled

(* An event for the bytes taken in this step comes after all others.       *)
LEMMA NewEventOrdered ==
  ASSUME TypedTail, EventsOrdered, NEW e \in Event,
         events' = Append(events, e), Consumed \in Nat, Consumed' \in Nat,
         e.at = Consumed + 1, LastByteOf(e) = Consumed', Consumed' > Consumed
  PROVE  EventsOrdered'
<1>1. /\ events \in Seq(Event) /\ Len(events) \in Nat
      /\ Len(events') = Len(events) + 1
      /\ events'[Len(events) + 1] = e
      /\ \A i \in 1..Len(events) : events'[i] = events[i]
  BY DEF TypedTail, TypeOK
<1>2. \A i \in 1..Len(events) : LastByteOf(events[i]) \in Int
  BY <1>1 DEF LastByteOf, Event, HeaderLen
<1>3. ASSUME NEW i \in 1..Len(events') PROVE events'[i].at >= 1 /\ LastByteOf(events'[i]) <= Consumed'
  BY <1>1, <1>2 DEF EventsOrdered
<1>4. ASSUME NEW i \in 1..Len(events'), NEW j \in 1..Len(events'), i < j
      PROVE  LastByteOf(events'[i]) < events'[j].at
  <2>1. i \in 1..Len(events) /\ events'[i] = events[i]
    BY <1>1, <1>4
  <2>2. CASE j \in 1..Len(events)
    BY <1>1, <1>4, <2>1, <2>2 DEF EventsOrdered
  <2>3. CASE j = Len(events) + 1
    BY <1>1, <1>2, <2>1, <2>3 DEF EventsOrdered
  <2> QED BY <1>1, <2>2, <2>3
<1>5. \A i \in 1..Len(events') : LastByteOf(events[i])' = LastByteOf(events'[i])
  BY DEF LastByteOf
<1> QED BY <1>3, <1>4, <1>5 DEF EventsOrdered

LEMMA EndLineHandled ==
  ASSUME TypedTail, Handled, EndLine
  PROVE  Handled'
<1> DEFINE e == [kind |-> "line", at |-> Consumed + 1, data |-> logBuf]
<1>1. received' = received /\ Consumed' = Consumed + 1 /\ Consumed \in Nat
  BY OneByteTaken
<1>2. e \in Event
  BY <1>1 DEF TypedTail, TypeOK, Event
<1>3. LastByteOf(e) = Consumed' /\ e.at = Consumed + 1 /\ e.kind = "line"
  BY <1>1 DEF LastByteOf
<1>4. events' = Append(events, e)
  BY DEF EndLine
<1> HIDE DEF e
<1>5. EventsOrdered'
  BY <1>1, <1>2, <1>3, <1>4, NewEventOrdered DEF Handled
<1>6. ASSUME NEW i \in FrameEvents' PROVE SoundFrame(events[i])'
  <2>1. i \in FrameEvents /\ events'[i] = events[i]
    BY <1>2, <1>3, <1>4 DEF FrameEvents, TypedTail, TypeOK
  <2>2. SoundFrame(events[i]) /\ events[i] \in Event /\ events[i].kind = "frame"
    BY <2>1 DEF Handled, FramesSound, FrameEvents, TypedTail, TypeOK
  <2>3. LastByteOf(events[i]) \in Int
    BY <2>2 DEF LastByteOf, Event, HeaderLen
  <2> QED BY <1>1, <2>1, <2>2, <2>3 DEF SoundFrame, LastByteOf, LengthAt
<1> QED BY <1>5, <1>6 DEF Handled, FramesSound

(* The frame just taken is the slice of the input the header announced.    *)
LEMMA TakenFrameSound ==
  ASSUME TypedTail, TakeFrame, NEW e \in Event,
         e = [kind |-> "frame", at |-> Consumed + 1,
              data |-> SubSeq(buf, HeaderLen + 1, HeaderLen + Length(buf))]
  PROVE  SoundFrame(e)' /\ LastByteOf(e) = Consumed'
<1>1. /\ received' = received
      /\ Consumed \in Nat
      /\ Length(buf) \in 1..MaxSize
      /\ HeaderLen + Length(buf) <= Len(buf)
      /\ Consumed' = Consumed + HeaderLen + Length(buf)
      /\ buf[1] = Start1 /\ buf[2] = Start2
      /\ Length(buf) = buf[3] * 256 + buf[4]
      /\ Len(buf) \in Nat
      /\ buf \in Seq(Byte)
  BY FrameTaken DEF TypedTail, TypeOK
<1>2. \A i \in 1..Len(buf) : buf[i] = received[Consumed + i]
  BY DEF TypedTail, BufferIsTail
<1>3. /\ e.kind = "frame" /\ e.at = Consumed + 1
      /\ Len(e.data) = Length(buf)
      /\ \A k \in 1..Length(buf) : e.data[k] = buf[HeaderLen + k]
  <2>1. PICK l \in Nat : l = Length(buf) /\ 4 + l <= Len(buf)
    BY <1>1 DEF HeaderLen
  <2>2. /\ Len(SubSeq(buf, 5, 4 + l)) = l
        /\ \A k \in 1..l : SubSeq(buf, 5, 4 + l)[k] = buf[4 + k]
    BY <1>1, <2>1
  <2>3. e.data = SubSeq(buf, 5, 4 + l)
    BY <2>1 DEF HeaderLen
  <2> QED BY <2>1, <2>2, <2>3 DEF HeaderLen
<1>4. LastByteOf(e) = Consumed'
  <2>1. LastByteOf(e) = (Consumed + 1) + HeaderLen + Length(buf) - 1
    BY <1>3 DEF LastByteOf
  <2>2. PICK c \in Nat, n \in Nat : c = Consumed /\ n = Length(buf) /\ n >= 1
    <3>1. Consumed \in Nat /\ Length(buf) \in 1..MaxSize
      BY <1>1
    <3> QED BY <3>1
  <2>3. (c + 1) + HeaderLen + n - 1 = c + HeaderLen + n
    BY <2>2, EndOfItem
  <2>4. LastByteOf(e) = c + HeaderLen + n
    BY <2>1, <2>2, <2>3
  <2>5. Consumed' = c + HeaderLen + n
    BY <1>1, <2>2
  <2> QED BY <2>4, <2>5
<1>5. /\ received[Consumed + 1] = buf[1] /\ received[Consumed + 2] = buf[2]
      /\ received[Consumed + 3] = buf[3] /\ received[Consumed + 4] = buf[4]
  <2>1. 1 \in 1..Len(buf) /\ 2 \in 1..Len(buf) /\ 3 \in 1..Len(buf) /\ 4 \in 1..Len(buf)
    <3>1. Len(buf) >= 4
      BY <1>1 DEF HeaderLen
    <3> QED BY <1>1, <3>1
  <2> QED BY <1>2, <2>1
<1>6. ASSUME NEW k \in 1..Len(e.data)
      PROVE  e.data[k] = received[e.at + HeaderLen + k - 1]
  <2>1. HeaderLen + k \in 1..Len(buf) /\ k \in 1..Length(buf)
    BY <1>1, <1>3 DEF HeaderLen
  <2>2. e.data[k] = received[Consumed + (HeaderLen + k)]
    BY <1>2, <1>3, <2>1
  <2>3. Consumed + (HeaderLen + k) = e.at + HeaderLen + k - 1
    BY <1>1, <1>3 DEF HeaderLen
  <2> QED BY <2>2, <2>3
<1>7. LengthAt(received, e.at) = Length(buf)
  <2>1. e.at + 2 = Consumed + 3 /\ e.at + 3 = Consumed + 4
    BY <1>1, <1>3
  <2> QED BY <1>1, <1>5, <2>1 DEF LengthAt
<1>8. received[e.at] = Start1 /\ received[e.at + 1] = Start2
  <2>1. e.at + 1 = Consumed + 2
    BY <1>1, <1>3
  <2> QED BY <1>1, <1>3, <1>5, <2>1
<1>9. LastByteOf(e)' = LastByteOf(e)
  BY DEF LastByteOf
<1>10. Consumed' <= Consumed'
  BY <1>1 DEF HeaderLen
<1>11. LengthAt(received, e.at)' = LengthAt(received, e.at)
  BY <1>1 DEF LengthAt
<1>12. received' = received /\ Len(e.data) \in 1..MaxSize
  BY <1>1, <1>3
<1>13. LastByteOf(e)' <= Consumed'
  BY <1>4, <1>9, <1>10
<1>14. Len(e.data) = LengthAt(received, e.at)'
  BY <1>3, <1>7, <1>11
<1>15. received'[e.at] = Start1 /\ received'[e.at + 1] = Start2
  BY <1>8, <1>12
<1>16. \A k \in 1..Len(e.data) : e.data[k] = received'[e.at + HeaderLen + k - 1]
  BY <1>6, <1>12
<1>17. SoundFrame(e)'
  BY <1>12, <1>13, <1>14, <1>15, <1>16 DEF SoundFrame
<1> QED BY <1>4, <1>17 DEF SoundFrame

LEMMA TakeFrameHandled ==
  ASSUME TypedTail, Handled, TakeFrame
  PROVE  Handled'
<1>0. PICK e : e = [kind |-> "frame", at |-> Consumed + 1,
                    data |-> SubSeq(buf, HeaderLen + 1, HeaderLen + Length(buf))]
  OBVIOUS
<1>1. /\ received' = received /\ Consumed \in Nat
      /\ Consumed' = Consumed + HeaderLen + Length(buf)
      /\ Length(buf) \in Nat
      /\ HeaderLen + Length(buf) <= Len(buf) /\ Len(buf) \in Nat
  BY FrameTaken
<1>2. e \in Event
  <2>1. SubSeq(buf, HeaderLen + 1, HeaderLen + Length(buf)) \in Seq(Byte)
    BY <1>1 DEF TypedTail, TypeOK, HeaderLen
  <2> QED BY <1>0, <1>1, <2>1 DEF Event
<1>3. SoundFrame(e)' /\ LastByteOf(e) = Consumed'
  BY <1>0, <1>2, TakenFrameSound
<1>4. events' = Append(events, e) /\ e.at = Consumed + 1
  BY <1>0 DEF TakeFrame
<1>5. Consumed' \in Nat /\ Consumed' > Consumed
  BY <1>1 DEF HeaderLen
<1>6. EventsOrdered'
  BY <1>1, <1>2, <1>3, <1>4, <1>5, NewEventOrdered DEF Handled
<1>7. ASSUME NEW i \in FrameEvents' PROVE SoundFrame(events[i])'
  <2>1. CASE i \in 1..Len(events)
    <3>1. i \in FrameEvents /\ events'[i] = events[i]
      BY <1>2, <1>4, <1>7, <2>1 DEF FrameEvents, TypedTail, TypeOK
    <3>2. SoundFrame(events[i]) /\ events[i] \in Event /\ events[i].kind = "frame"
      BY <3>1 DEF Handled, FramesSound, FrameEvents, TypedTail, TypeOK
    <3>3. LastByteOf(events[i]) \in Int
      BY <3>2 DEF LastByteOf, Event, HeaderLen
    <3>4. LastByteOf(events[i]) <= Consumed'
      BY <1>1, <1>5, <3>2, <3>3 DEF SoundFrame
    <3>6. received' = received
      BY <1>1
    <3>8. LastByteOf(events'[i]) <= Consumed'
      BY <3>1, <3>4
    <3> QED BY <3>1, <3>2, <3>6, <3>8 DEF SoundFrame, LastByteOf, LengthAt
  <2>2. CASE i = Len(events) + 1
    <3>1. events'[i] = e
      BY <1>2, <1>4, <2>2 DEF TypedTail, TypeOK
    <3> QED BY <1>3, <3>1 DEF SoundFrame, LastByteOf, LengthAt
  <2>3. i \in 1..Len(events) \/ i = Len(events) + 1
    BY <1>2, <1>4, <1>7 DEF FrameEvents, TypedTail, TypeOK
  <2> QED BY <2>1, <2>2, <2>3
<1> QED BY <1>6, <1>7 DEF Handled, FramesSound

LEMMA StepHandled ==
  ASSUME TypedTail, Handled, [Next]_vars
  PROVE  Handled'
<1>1. CASE \E b \in Byte : Receive(b)
  <2>1. /\ events' = events /\ Consumed' = Consumed /\ Consumed \in Nat
        /\ \A k \in 1..Consumed : received'[k] = received[k]
    <3>1. Consumed' = Consumed /\ events' = events
      BY <1>1, ReceiveKeepsTypedTail DEF Receive
    <3>2. Consumed \in Nat /\ Consumed <= Len(received)
      BY DEF TypedTail, TypeOK, BufferIsTail, Consumed
    <3>3. \A k \in 1..Len(received) : received'[k] = received[k]
      BY <1>1 DEF Receive, TypedTail, TypeOK
    <3>4. Len(received) \in Nat
      BY DEF TypedTail, TypeOK
    <3> QED BY <3>1, <3>2, <3>3, <3>4
  <2> QED BY <2>1, SameEventsHandled
<1>2. CASE DropReturn \/ LogByte \/ DropStart
  <2>1. received' = received /\ Consumed' = Consumed + 1 /\ Consumed \in Nat /\ events' = events
    BY <1>2, OneByteTaken DEF DropReturn, LogByte, DropStart
  <2> QED BY <2>1, SameEventsHandled
<1>3. CASE UNCHANGED vars
  <2>1. received' = received /\ Consumed' = Consumed /\ events' = events
    BY <1>3 DEF vars, Consumed
  <2>2. Consumed \in Nat
    BY DEF TypedTail, TypeOK, BufferIsTail, Consumed
  <2> QED BY <2>1, <2>2, SameEventsHandled
<1> QED BY <1>1, <1>2, <1>3, EndLineHandled, TakeFrameHandled DEF Next, Scan

LEMMA HandledInvariant == Spec => []Handled
<1>1. Init => Handled
  BY DEF Init, Handled, FramesSound, EventsOrdered, FrameEvents
<1>2. TypedTail /\ Handled /\ [Next]_vars => Handled'
  BY StepHandled
<1> QED BY <1>1, <1>2, TypedTailInvariant, PTL DEF Spec

(* Every frame handed to the decoders is an exact slice of the input,      *)
(* behind a header that announces its length.                              *)
THEOREM FramesSoundCorrect == Spec => []FramesSound
  BY HandledInvariant, PTL DEF Handled

(* Lines and frames are handed on in input order and share no byte.        *)
THEOREM EventsOrderedCorrect == Spec => []EventsOrdered
  BY HandledInvariant, PTL DEF Handled
-----------------------------------------------------------------------------
(* Induction over the numbers.  The library's theorem of that name speaks  *)
(* of an operator; the provers can use this one, which speaks of a set.    *)

LEMMA LeastNumber ==
  ASSUME NEW S \in SUBSET Nat, S # {}
  PROVE  \E n \in S : \A m \in S : n <= m
<1> DEFINE R == OpToRel(<, Nat)
<1>1. IsWellFoundedOn(R, Nat)
  BY NatLessThanWellFounded
<1>2. R = {ss \in Nat \X Nat : ss[1] < ss[2]}
  BY DEF OpToRel
<1> HIDE DEF R
<1>3. PICK n \in S : \A m \in S : ~ (<<m, n>> \in R)
  BY <1>1, WFMin
<1>4. \A m \in S : ~ (m < n)
  BY <1>2, <1>3
<1> QED BY <1>3, <1>4

LEMMA Induction ==
  ASSUME NEW S, 0 \in S, \A n \in Nat : n \in S => n + 1 \in S
  PROVE  Nat \subseteq S
<1> SUFFICES ASSUME Nat \ S # {} PROVE FALSE
  OBVIOUS
<1>1. PICK n \in Nat \ S : \A m \in Nat \ S : n <= m
  BY LeastNumber
<1>2. n - 1 \in Nat /\ n - 1 \in S
  BY <1>1
<1> QED BY <1>1, <1>2

-----------------------------------------------------------------------------
(* The reference definition FrameStarts is recursive.  First, that the     *)
(* recursion defines a function; then what it says without recursion.      *)

StartsUpTo(s, g, i) ==
  IF i = 0 THEN {}
  ELSE IF OpensFrame(s, i) /\ \A j \in g[i - 1] : EndOfFrame(s, j) <= i
       THEN g[i - 1] \cup {i}
       ELSE g[i - 1]

LEMMA StartsExist ==
  ASSUME NEW s \in Seq(Byte), NEW n \in Nat
  PROVE  \E g : g = [i \in 0..n |-> StartsUpTo(s, g, i)]
<1> DEFINE D == {m \in Nat : \E g : g = [i \in 0..m |-> StartsUpTo(s, g, i)]}
<1>1. 0 \in D
  <2> DEFINE h == [i \in 0..0 |-> {}]
  <2>1. h = [i \in 0..0 |-> StartsUpTo(s, h, i)]
    BY DEF StartsUpTo
  <2> QED BY <2>1
<1>2. ASSUME NEW m \in Nat, m \in D PROVE m + 1 \in D
  <2>1. PICK g : g = [i \in 0..m |-> StartsUpTo(s, g, i)]
    BY <1>2
  <2> DEFINE h == [i \in 0..m + 1 |-> IF i <= m THEN g[i] ELSE StartsUpTo(s, g, i)]
  <2>2. ASSUME NEW i \in 0..m + 1 PROVE h[i] = StartsUpTo(s, h, i)
    <3>1. i # 0 => i - 1 \in 0..m /\ h[i - 1] = g[i - 1]
      OBVIOUS
    <3>2. StartsUpTo(s, h, i) = StartsUpTo(s, g, i)
      BY <3>1 DEF StartsUpTo
    <3>3. h[i] = StartsUpTo(s, g, i)
      BY <2>1
    <3> QED BY <3>2, <3>3
  <2>3. h = [i \in 0..m + 1 |-> StartsUpTo(s, h, i)]
    BY <2>2
  <2> HIDE DEF h
  <2>4. \E f : f = [i \in 0..m + 1 |-> StartsUpTo(s, f, i)]
    BY <2>3
  <2> QED BY <2>4
<1>3. n \in D
  BY <1>1, <1>2, Induction
<1> QED BY <1>3

LEMMA StartsDefined ==
  ASSUME NEW s \in Seq(Byte)
  PROVE  \E g : /\ g = [i \in 0..Len(s) |-> StartsUpTo(s, g, i)]
                /\ FrameStarts(s) = g[Len(s)]
<1> DEFINE F == CHOOSE g : g = [i \in 0..Len(s) |-> StartsUpTo(s, g, i)]
<1>1. F = [i \in 0..Len(s) |-> StartsUpTo(s, F, i)]
  BY StartsExist
<1>2. FrameStarts(s) = F[Len(s)]
  BY DEF FrameStarts, StartsUpTo
<1> QED BY <1>1, <1>2

(* What the recursion says without recursion: a position starts a frame    *)
(* iff it opens one and every frame that starts earlier has ended.         *)
LEMMA FrameStartsAre ==
  ASSUME NEW s \in Seq(Byte)
  PROVE  /\ FrameStarts(s) \subseteq 1..Len(s)
         /\ \A k \in 1..Len(s) :
              k \in FrameStarts(s) <=>
                /\ OpensFrame(s, k)
                /\ \A j \in FrameStarts(s) : j < k => EndOfFrame(s, j) <= k
<1>1. PICK g : /\ g = [i \in 0..Len(s) |-> StartsUpTo(s, g, i)]
               /\ FrameStarts(s) = g[Len(s)]
  BY StartsDefined
<1>2. Len(s) \in Nat
  OBVIOUS
<1>3. g[0] = {} /\ \A i \in 1..Len(s) : g[i] = StartsUpTo(s, g, i)
  <2>1. \A i \in 0..Len(s) : g[i] = StartsUpTo(s, g, i)
    BY <1>1
  <2>2. g[0] = StartsUpTo(s, g, 0)
    BY <1>2, <2>1
  <2>3. g[0] = {}
    BY <2>2 DEF StartsUpTo
  <2> QED BY <1>2, <2>1, <2>3
<1> DEFINE D == {i \in Nat : i <= Len(s) => g[i] = {k \in 1..i : k \in g[k]}}
<1>4. 0 \in D
  BY <1>3
<1>5. ASSUME NEW i \in Nat, i \in D PROVE i + 1 \in D
  <2> SUFFICES ASSUME i + 1 <= Len(s) PROVE g[i + 1] = {k \in 1..i + 1 : k \in g[k]}
    OBVIOUS
  <2>1. g[i] = {k \in 1..i : k \in g[k]}
    BY <1>2, <1>5
  <2>2. g[i + 1] = g[i] \/ g[i + 1] = g[i] \cup {i + 1}
    <3>1. g[i + 1] = StartsUpTo(s, g, i + 1) /\ (i + 1) - 1 = i /\ i + 1 # 0
      BY <1>2, <1>3
    <3> QED BY <3>1 DEF StartsUpTo
  <2> QED BY <2>1, <2>2
<1>6. \A i \in 0..Len(s) : g[i] = {k \in 1..i : k \in g[k]}
  <2>1. Nat \subseteq D
    <3> HIDE DEF D
    <3> QED BY <1>4, <1>5, Induction
  <2> QED BY <1>2, <2>1
<1>7. FrameStarts(s) = {k \in 1..Len(s) : k \in g[k]}
  <2>1. Len(s) \in 0..Len(s)
    BY <1>2
  <2>2. g[Len(s)] = {k \in 1..Len(s) : k \in g[k]}
    BY <1>6, <2>1
  <2> QED BY <1>1, <2>2
<1>8. ASSUME NEW k \in 1..Len(s)
      PROVE  k \in FrameStarts(s) <=>
               /\ OpensFrame(s, k)
               /\ \A j \in FrameStarts(s) : j < k => EndOfFrame(s, j) <= k
  <2>1. k - 1 \in 0..Len(s) /\ g[k - 1] = {j \in FrameStarts(s) : j < k}
    BY <1>2, <1>6, <1>7
  <2>2. k \in FrameStarts(s) <=> k \in g[k]
    BY <1>7
  <2>3. k \notin g[k - 1]
    BY <2>1
  <2>4. g[k] = StartsUpTo(s, g, k) /\ k # 0
    BY <1>3
  <2>5. k \in g[k] <=> OpensFrame(s, k) /\ \A j \in g[k - 1] : EndOfFrame(s, j) <= k
    BY <2>3, <2>4 DEF StartsUpTo
  <2> QED BY <2>1, <2>2, <2>5
<1> QED BY <1>7, <1>8

-----------------------------------------------------------------------------
(* No frame is missed.  Every byte that has left buf belongs to a frame    *)
(* handed on or certainly begins none, whatever bytes follow; with that,   *)
(* the frames handed on are those of the reference definition.             *)

TakenBy(ev, k) ==
  \E i \in 1..Len(ev) : ev[i].kind = "frame" /\ ev[i].at <= k /\ k <= LastByteOf(ev[i])

NoFrameAt(s, k) == k + 1 <= Len(s) /\ ~OpensFrame(s, k)

Decided == \A k \in 1..Consumed : TakenBy(events, k) \/ NoFrameAt(received, k)

LEMMA NoFrameStays ==
  ASSUME NEW s \in Seq(Byte), NEW t \in Seq(Byte), Len(s) <= Len(t),
         \A i \in 1..Len(s) : t[i] = s[i],
         NEW k \in 1..Len(s), NoFrameAt(s, k)
  PROVE  NoFrameAt(t, k)
<1>1. Len(s) \in Nat /\ Len(t) \in Nat /\ k + 1 \in 1..Len(s)
  BY DEF NoFrameAt
<1>2. t[k] = s[k] /\ t[k + 1] = s[k + 1]
  BY <1>1
<1>3. HeaderAt(t, k) => HeaderAt(s, k)
  BY <1>1, <1>2 DEF HeaderAt
<1>4. ASSUME LengthKnownAt(s, k)
      PROVE  LengthKnownAt(t, k) /\ LengthAt(t, k) = LengthAt(s, k)
  <2>1. k + 3 <= Len(s) /\ k + 3 <= Len(t)
    BY <1>1, <1>4 DEF LengthKnownAt
  <2>2. k + 2 \in 1..Len(s) /\ k + 3 \in 1..Len(s)
    BY <1>1, <2>1
  <2>3. t[k + 2] = s[k + 2] /\ t[k + 3] = s[k + 3]
    BY <2>2
  <2> QED BY <2>1, <2>3 DEF LengthKnownAt, LengthAt
<1> QED BY <1>1, <1>3, <1>4 DEF NoFrameAt, OpensFrame

(* A frame handed on is a frame of the input, and ends where the reference *)
(* definition says.                                                        *)
LEMMA TakenFrameFacts ==
  ASSUME TypedTail, Handled, NEW i \in 1..Len(events), events[i].kind = "frame"
  PROVE  /\ events[i].at \in 1..Consumed
         /\ LastByteOf(events[i]) \in Nat
         /\ events[i].at <= LastByteOf(events[i])
         /\ LastByteOf(events[i]) <= Consumed
         /\ LengthKnownAt(received, events[i].at)
         /\ OpensFrame(received, events[i].at)
         /\ EndOfFrame(received, events[i].at) = LastByteOf(events[i]) + 1
<1> DEFINE e == events[i]
<1>1. /\ e \in Event /\ e.kind = "frame" /\ e.at >= 1 /\ SoundFrame(e)
      /\ e.at \in Nat /\ Len(e.data) \in Nat
  BY DEF TypedTail, TypeOK, Handled, FramesSound, FrameEvents, EventsOrdered, Event
<1>2. Consumed \in Nat /\ Len(received) \in Nat /\ Consumed <= Len(received)
  BY DEF TypedTail, TypeOK, BufferIsTail, Consumed
<1> HIDE DEF e
<1>3. /\ LastByteOf(e) = e.at + HeaderLen + Len(e.data) - 1
      /\ LastByteOf(e) <= Consumed
      /\ received[e.at] = Start1 /\ received[e.at + 1] = Start2
      /\ Len(e.data) = LengthAt(received, e.at)
      /\ Len(e.data) \in 1..MaxSize
  BY <1>1 DEF SoundFrame, LastByteOf
<1>4. /\ LastByteOf(e) \in Nat /\ e.at + 4 <= LastByteOf(e)
      /\ LastByteOf(e) + 1 = e.at + HeaderLen + Len(e.data)
  <2>1. PICK a \in Nat, n \in Nat : a = e.at /\ n = Len(e.data) /\ n >= 1
    BY <1>1, <1>3
  <2>2. /\ a + HeaderLen + n - 1 \in Nat /\ a + 4 <= a + HeaderLen + n - 1
        /\ (a + HeaderLen + n - 1) + 1 = a + HeaderLen + n
    BY <2>1, EndOfItem
  <2>3. LastByteOf(e) = a + HeaderLen + n - 1
    BY <1>3, <2>1
  <2> QED BY <2>1, <2>2, <2>3
<1>5. e.at + 3 <= Len(received) /\ e.at \in 1..Consumed /\ e.at + 1 <= Len(received)
  <2>1. \A a, l, c, n \in Nat : 1 <= a /\ a + 4 <= l /\ l <= c /\ c <= n
          => a + 3 <= n /\ a \in 1..c /\ a + 1 <= n
    OBVIOUS
  <2>2. e.at \in Nat /\ 1 <= e.at
    BY <1>1
  <2> QED BY <1>2, <1>3, <1>4, <2>1, <2>2
<1>6. LengthKnownAt(received, e.at) /\ OpensFrame(received, e.at)
  BY <1>3, <1>5 DEF LengthKnownAt, OpensFrame, HeaderAt
<1>7. EndOfFrame(received, e.at) = LastByteOf(e) + 1
  BY <1>3, <1>4, <1>6 DEF EndOfFrame
<1>8. e.at <= LastByteOf(e)
  BY <1>1, <1>4
<1> QED BY <1>3, <1>4, <1>5, <1>6, <1>7, <1>8 DEF e

LEMMA FramesAreApart ==
  ASSUME TypedTail, Handled,
         NEW i \in 1..Len(events), NEW j \in 1..Len(events),
         events[i].kind = "frame", events[j].kind = "frame", events[i].at < events[j].at
  PROVE  LastByteOf(events[i]) < events[j].at
<1>1. Len(events) \in Nat
  BY DEF TypedTail, TypeOK
<1>2. /\ events[i].at \in Nat /\ LastByteOf(events[i]) \in Nat
      /\ events[j].at \in Nat /\ LastByteOf(events[j]) \in Nat
      /\ events[j].at <= LastByteOf(events[j])
  BY TakenFrameFacts
<1>3. i # j
  BY <1>2
<1>4. CASE i < j
  BY <1>4 DEF Handled, EventsOrdered
<1>5. CASE j < i
  <2>1. LastByteOf(events[j]) < events[i].at
    BY <1>5 DEF Handled, EventsOrdered
  <2> QED BY <1>2, <2>1
<1> QED BY <1>1, <1>3, <1>4, <1>5

(* Up to where the scanner is, the frames handed on are those of the       *)
(* reference definition.                                                   *)
LEMMA StartsBehind ==
  ASSUME TypedTail, Handled, Decided, NEW k \in 1..Consumed
  PROVE  k \in FrameStarts(received) <=>
           \E i \in 1..Len(events) : events[i].kind = "frame" /\ events[i].at = k
<1> DEFINE Begins(m) == \E i \in 1..Len(events) : events[i].kind = "frame" /\ events[i].at = m
           Wrong == {m \in 1..Consumed : ~(m \in FrameStarts(received) <=> Begins(m))}
<1>1. /\ Consumed \in Nat /\ Len(received) \in Nat /\ Consumed <= Len(received)
      /\ received \in Seq(Byte)
  BY DEF TypedTail, TypeOK, BufferIsTail, Consumed
<1> SUFFICES ASSUME Wrong # {} PROVE FALSE
  OBVIOUS
<1>2. PICK m \in Wrong : \A n \in Wrong : m <= n
  <2>1. Wrong \in SUBSET Nat
    BY <1>1
  <2> HIDE DEF Wrong
  <2> QED BY <2>1, LeastNumber
<1>3. m \in 1..Consumed /\ m \in 1..Len(received)
  BY <1>1, <1>2
<1>4. \A n \in 1..Consumed : n < m => (n \in FrameStarts(received) <=> Begins(n))
  BY <1>1, <1>2
<1>5. m \in FrameStarts(received) <=>
        /\ OpensFrame(received, m)
        /\ \A j \in FrameStarts(received) : j < m => EndOfFrame(received, j) <= m
  BY <1>1, <1>3, FrameStartsAre
<1>6. FrameStarts(received) \subseteq 1..Len(received)
  BY <1>1, FrameStartsAre
<1>7. CASE Begins(m)
  <2>1. PICK i \in 1..Len(events) : events[i].kind = "frame" /\ events[i].at = m
    BY <1>7
  <2>2. OpensFrame(received, m)
    BY <2>1, TakenFrameFacts
  <2>3. ASSUME NEW j \in FrameStarts(received), j < m PROVE EndOfFrame(received, j) <= m
    <3>1. j \in 1..Consumed
      BY <1>1, <1>3, <1>6, <2>3
    <3>2. PICK h \in 1..Len(events) : events[h].kind = "frame" /\ events[h].at = j
      BY <1>4, <2>3, <3>1
    <3>3. LastByteOf(events[h]) < m
      BY <2>1, <2>3, <3>2, FramesAreApart
    <3>4. LastByteOf(events[h]) \in Nat /\ EndOfFrame(received, j) = LastByteOf(events[h]) + 1
      BY <3>2, TakenFrameFacts
    <3> QED BY <1>3, <3>3, <3>4
  <2> QED BY <1>2, <1>5, <1>7, <2>2, <2>3
<1>8. CASE ~Begins(m)
  <2>1. CASE NoFrameAt(received, m)
    BY <1>2, <1>5, <1>8, <2>1 DEF NoFrameAt
  <2>2. CASE TakenBy(events, m)
    <3>1. PICK i \in 1..Len(events) : /\ events[i].kind = "frame" /\ events[i].at <= m
                                      /\ m <= LastByteOf(events[i])
      BY <2>2 DEF TakenBy
    <3>2. /\ events[i].at \in 1..Consumed /\ LastByteOf(events[i]) \in Nat
          /\ EndOfFrame(received, events[i].at) = LastByteOf(events[i]) + 1
      BY <3>1, TakenFrameFacts
    <3>3. events[i].at < m
      BY <1>3, <1>8, <3>1, <3>2
    <3>4. events[i].at \in FrameStarts(received)
      BY <1>4, <3>1, <3>2, <3>3
    <3>5. EndOfFrame(received, events[i].at) > m
      BY <1>3, <3>1, <3>2
    <3>6. ~(EndOfFrame(received, events[i].at) <= m)
      BY <1>3, <3>2, <3>5
    <3> QED BY <1>2, <1>5, <1>8, <3>3, <3>4, <3>6
  <2> QED BY <1>3, <2>1, <2>2 DEF Decided
<1> QED BY <1>7, <1>8

(* What the head of buf is, seen from the whole input.                     *)
LEMMA HeadOfBuffer ==
  ASSUME TypedTail
  PROVE  /\ Consumed \in Nat /\ Len(buf) \in Nat /\ Len(received) = Consumed + Len(buf)
         /\ \A i \in 1..Len(buf) : buf[i] = received[Consumed + i]
         /\ HeaderAt(received, Consumed + 1) <=> StartsFrame(buf)
         /\ LengthKnownAt(received, Consumed + 1) <=> Len(buf) >= HeaderLen
         /\ Len(buf) >= HeaderLen => LengthAt(received, Consumed + 1) = Length(buf)
<1>1. /\ Consumed \in Nat /\ Len(buf) \in Nat /\ Len(received) = Consumed + Len(buf)
      /\ \A i \in 1..Len(buf) : buf[i] = received[Consumed + i]
  <2>1. Len(buf) \in Nat /\ Len(received) \in Nat /\ Len(buf) <= Len(received)
    BY DEF TypedTail, TypeOK, BufferIsTail
  <2>2. \A i \in 1..Len(buf) : buf[i] = received[Consumed + i]
    BY DEF TypedTail, BufferIsTail
  <2>3. Consumed \in Nat /\ Len(received) = Consumed + Len(buf)
    BY <2>1 DEF Consumed
  <2> QED BY <2>1, <2>2, <2>3
<1>2. HeaderAt(received, Consumed + 1) <=> StartsFrame(buf)
  <2>1. Consumed + 1 + 1 = Consumed + 2
    BY <1>1
  <2>2. Len(buf) >= 2 => buf[1] = received[Consumed + 1] /\ buf[2] = received[Consumed + 2]
    BY <1>1
  <2>3. Consumed + 2 <= Len(received) <=> Len(buf) >= 2
    BY <1>1
  <2> QED BY <2>1, <2>2, <2>3 DEF HeaderAt, StartsFrame
<1>3. LengthKnownAt(received, Consumed + 1) <=> Len(buf) >= HeaderLen
  BY <1>1 DEF LengthKnownAt, HeaderLen
<1>4. Len(buf) >= HeaderLen => LengthAt(received, Consumed + 1) = Length(buf)
  <2>1. Consumed + 1 + 2 = Consumed + 3 /\ Consumed + 1 + 3 = Consumed + 4
    BY <1>1
  <2>2. Len(buf) >= HeaderLen => buf[3] = received[Consumed + 3] /\ buf[4] = received[Consumed + 4]
    BY <1>1 DEF HeaderLen
  <2> QED BY <2>1, <2>2 DEF LengthAt, Length
<1> QED BY <1>1, <1>2, <1>3, <1>4

(* While the loop waits, the head of a buf of two bytes or more opens a    *)
(* frame that the input does not hold to its end.                          *)
LEMMA WaitingForFrame ==
  ASSUME TypedTail, Blocked(buf), Len(buf) >= 2
  PROVE  /\ OpensFrame(received, Consumed + 1)
         /\ EndOfFrame(received, Consumed + 1) \in Int
         /\ EndOfFrame(received, Consumed + 1) > Len(received)
         /\ ~(LengthKnownAt(received, Consumed + 1)
                /\ EndOfFrame(received, Consumed + 1) <= Len(received) + 1)
<1>1. /\ Consumed \in Nat /\ Len(buf) \in Nat /\ Len(received) = Consumed + Len(buf)
      /\ HeaderAt(received, Consumed + 1) <=> StartsFrame(buf)
      /\ LengthKnownAt(received, Consumed + 1) <=> Len(buf) >= HeaderLen
      /\ Len(buf) >= HeaderLen => LengthAt(received, Consumed + 1) = Length(buf)
  BY HeadOfBuffer
<1>2. StartsFrame(buf)
  BY DEF Blocked, IsText
<1>3. CASE Len(buf) >= HeaderLen
  <2>1. Length(buf) \in Nat
    BY <1>3, LengthTyped DEF TypedTail, TypeOK
  <2>2. Length(buf) \in 1..MaxSize /\ Len(buf) < HeaderLen + Length(buf)
    <3>1. ~BadLength(Length(buf)) /\ ~(Len(buf) >= HeaderLen + Length(buf))
      BY <1>2, <1>3 DEF Blocked, IsBadFrame, IsFrame
    <3> QED BY <1>1, <2>1, <3>1 DEF BadLength, HeaderLen
  <2>3. EndOfFrame(received, Consumed + 1) = Consumed + 1 + HeaderLen + Length(buf)
    BY <1>1, <1>3 DEF EndOfFrame
  <2> QED BY <1>1, <1>2, <1>3, <2>2, <2>3 DEF OpensFrame, HeaderLen
<1>4. CASE ~(Len(buf) >= HeaderLen)
  BY <1>1, <1>2, <1>4 DEF OpensFrame, EndOfFrame
<1> QED BY <1>3, <1>4

LEMMA DecidedIsComplete ==
  ASSUME TypedTail, Handled, Decided
  PROVE  FramesComplete
<1> SUFFICES ASSUME Blocked(buf)
             PROVE  {events[i].at : i \in FrameEvents} = CompleteFrames(received)
  BY DEF FramesComplete
<1>1. /\ Consumed \in Nat /\ Len(buf) \in Nat /\ Len(received) = Consumed + Len(buf)
      /\ received \in Seq(Byte) /\ Len(received) \in Nat
      /\ HeaderAt(received, Consumed + 1) <=> StartsFrame(buf)
  BY HeadOfBuffer DEF TypedTail, TypeOK
<1>2. FrameStarts(received) \subseteq 1..Len(received)
  BY <1>1, FrameStartsAre
<1>3. ASSUME NEW i \in FrameEvents PROVE events[i].at \in CompleteFrames(received)
  <2>1. i \in 1..Len(events) /\ events[i].kind = "frame"
    BY DEF FrameEvents
  <2>2. /\ events[i].at \in 1..Consumed /\ LastByteOf(events[i]) \in Nat
        /\ LastByteOf(events[i]) <= Consumed
        /\ LengthKnownAt(received, events[i].at)
        /\ EndOfFrame(received, events[i].at) = LastByteOf(events[i]) + 1
    BY <2>1, TakenFrameFacts
  <2>3. events[i].at \in FrameStarts(received)
    BY <2>1, <2>2, StartsBehind
  <2>4. EndOfFrame(received, events[i].at) <= Len(received) + 1
    BY <1>1, <2>2
  <2> QED BY <2>2, <2>3, <2>4 DEF CompleteFrames
<1>4. ASSUME NEW k \in CompleteFrames(received) PROVE \E i \in FrameEvents : events[i].at = k
  <2>1. /\ k \in FrameStarts(received) /\ k \in 1..Len(received)
        /\ LengthKnownAt(received, k) /\ EndOfFrame(received, k) <= Len(received) + 1
    BY <1>2 DEF CompleteFrames
  <2>2. k + 3 <= Len(received) /\ k \in Nat
    BY <2>1 DEF LengthKnownAt
  <2>3. CASE k <= Consumed
    <3>1. k \in 1..Consumed
      BY <1>1, <2>1, <2>3
    <3> QED BY <2>1, <3>1, StartsBehind DEF FrameEvents
  <2>4. CASE k > Consumed
    <3>1. Len(buf) >= 2
      BY <1>1, <2>2, <2>4
    <3>2. /\ OpensFrame(received, Consumed + 1)
          /\ EndOfFrame(received, Consumed + 1) \in Int
          /\ EndOfFrame(received, Consumed + 1) > Len(received)
          /\ ~(LengthKnownAt(received, Consumed + 1)
                /\ EndOfFrame(received, Consumed + 1) <= Len(received) + 1)
      BY <3>1, WaitingForFrame
    <3>3. k # Consumed + 1
      BY <2>1, <3>2
    <3>4. k > Consumed + 1 /\ Consumed + 1 \in 1..Len(received)
      BY <1>1, <2>2, <2>4, <3>1, <3>3
    <3>5. ASSUME NEW j \in FrameStarts(received), j < Consumed + 1
          PROVE  EndOfFrame(received, j) <= Consumed + 1
      <4>1. j \in 1..Consumed
        BY <1>1, <1>2, <3>5
      <4>2. PICK i \in 1..Len(events) : events[i].kind = "frame" /\ events[i].at = j
        BY <3>5, <4>1, StartsBehind
      <4>3. /\ LastByteOf(events[i]) \in Nat /\ LastByteOf(events[i]) <= Consumed
            /\ EndOfFrame(received, j) = LastByteOf(events[i]) + 1
        BY <4>2, TakenFrameFacts
      <4> QED BY <1>1, <4>3
    <3>6. Consumed + 1 \in FrameStarts(received)
      BY <1>1, <3>2, <3>4, <3>5, FrameStartsAre
    <3>7. EndOfFrame(received, Consumed + 1) <= k
      BY <1>1, <2>1, <3>4, <3>6, FrameStartsAre
    <3> QED BY <1>1, <2>1, <3>2, <3>7
  <2> QED BY <1>1, <2>2, <2>3, <2>4
<1> QED BY <1>3, <1>4

LEMMA StepDecided ==
  ASSUME TypedTail, Handled, Decided, [Next]_vars
  PROVE  Decided'
<1>1. /\ Consumed \in Nat /\ Len(buf) \in Nat /\ Len(received) = Consumed + Len(buf)
      /\ received \in Seq(Byte) /\ buf \in Seq(Byte) /\ events \in Seq(Event)
      /\ Len(events) \in Nat /\ Len(received) \in Nat
  BY HeadOfBuffer DEF TypedTail, TypeOK
<1>2. CASE \E b \in Byte : Receive(b)
  <2>1. PICK b \in Byte : Receive(b)
    BY <1>2
  <2>2. Consumed' = Consumed /\ events' = events
    BY <2>1, ReceiveKeepsTypedTail DEF Receive
  <2>3. /\ received' \in Seq(Byte) /\ Len(received) <= Len(received')
        /\ \A i \in 1..Len(received) : received'[i] = received[i]
    BY <1>1, <2>1 DEF Receive
  <2>4. ASSUME NEW k \in 1..Consumed PROVE TakenBy(events', k) \/ NoFrameAt(received', k)
    <3>1. CASE TakenBy(events, k)
      BY <2>2, <3>1
    <3>2. CASE NoFrameAt(received, k)
      <4>1. k \in 1..Len(received)
        BY <1>1
      <4> QED BY <1>1, <2>3, <3>2, <4>1, NoFrameStays
    <3> QED BY <3>1, <3>2 DEF Decided
  <2> QED BY <2>2, <2>4 DEF Decided
<1>3. CASE EndLine \/ DropReturn \/ LogByte \/ DropStart
  <2>1. received' = received /\ Consumed' = Consumed + 1
    BY <1>3, OneByteTaken
  <2>2. /\ Len(events') >= Len(events) /\ Len(events') \in Nat
        /\ \A i \in 1..Len(events) : events'[i] = events[i]
    <3>1. CASE EndLine
      <4>1. PICK e : e = [kind |-> "line", at |-> Consumed + 1, data |-> logBuf]
        OBVIOUS
      <4>2. e \in Event
        BY <1>1, <4>1 DEF TypedTail, TypeOK, Event
      <4>3. events' = Append(events, e)
        BY <3>1, <4>1 DEF EndLine
      <4> QED BY <1>1, <4>2, <4>3
    <3>2. CASE DropReturn \/ LogByte \/ DropStart
      BY <1>1, <3>2 DEF DropReturn, LogByte, DropStart
    <3> QED BY <1>3, <3>1, <3>2
  <2>3. NoFrameAt(received, Consumed + 1)
    <3>1. /\ HeaderAt(received, Consumed + 1) <=> StartsFrame(buf)
          /\ LengthKnownAt(received, Consumed + 1) <=> Len(buf) >= HeaderLen
          /\ Len(buf) >= HeaderLen => LengthAt(received, Consumed + 1) = Length(buf)
      BY HeadOfBuffer
    <3>2. CASE IsText(buf)
      BY <1>1, <3>1, <3>2 DEF NoFrameAt, OpensFrame, IsText
    <3>3. CASE IsBadFrame(buf)
      <4>1. Length(buf) \notin 1..MaxSize /\ Len(buf) >= HeaderLen
        <5>1. Len(buf) >= HeaderLen /\ BadLength(Length(buf))
          BY <3>3 DEF IsBadFrame
        <5>2. Length(buf) \in Nat
          BY <1>1, <5>1, LengthTyped
        <5> QED BY <5>1, <5>2 DEF BadLength
      <4> QED BY <1>1, <3>1, <4>1 DEF NoFrameAt, OpensFrame, HeaderLen
    <3> QED BY <1>3, <3>2, <3>3 DEF EndLine, DropReturn, LogByte, DropStart
  <2>4. ASSUME NEW k \in 1..Consumed + 1 PROVE TakenBy(events', k) \/ NoFrameAt(received, k)
    <3>1. CASE k = Consumed + 1
      BY <2>3, <3>1
    <3>2. CASE k # Consumed + 1
      <4>1. k \in 1..Consumed
        BY <1>1, <3>2
      <4>2. TakenBy(events, k) => TakenBy(events', k)
        BY <1>1, <2>2 DEF TakenBy
      <4> QED BY <4>1, <4>2 DEF Decided
    <3> QED BY <3>1, <3>2
  <2> QED BY <2>1, <2>4 DEF Decided
<1>4. CASE TakeFrame
  <2>1. /\ received' = received /\ Length(buf) \in 1..MaxSize
        /\ HeaderLen + Length(buf) <= Len(buf)
        /\ Consumed' = Consumed + HeaderLen + Length(buf)
    BY <1>4, FrameTaken
  <2>2. PICK e : e = [kind |-> "frame", at |-> Consumed + 1,
                      data |-> SubSeq(buf, HeaderLen + 1, HeaderLen + Length(buf))]
    OBVIOUS
  <2>3. e \in Event /\ Length(buf) \in Nat
    <3>1. SubSeq(buf, HeaderLen + 1, HeaderLen + Length(buf)) \in Seq(Byte)
      BY <1>1, <2>1 DEF HeaderLen
    <3> QED BY <1>1, <2>1, <2>2, <3>1 DEF Event
  <2>4. e.at = Consumed + 1 /\ LastByteOf(e) = Consumed' /\ e.kind = "frame"
    BY <1>4, <2>2, <2>3, TakenFrameSound
  <2>5. events' = Append(events, e)
    BY <1>4, <2>2 DEF TakeFrame
  <2>6. /\ Len(events') = Len(events) + 1 /\ events'[Len(events) + 1] = e
        /\ \A i \in 1..Len(events) : events'[i] = events[i]
    BY <1>1, <2>3, <2>5
  <2>7. ASSUME NEW k \in 1..Consumed' PROVE TakenBy(events', k) \/ NoFrameAt(received, k)
    <3>1. CASE k <= Consumed
      <4>1. k \in 1..Consumed
        BY <1>1, <3>1
      <4>2. TakenBy(events, k) => TakenBy(events', k)
        BY <1>1, <2>6 DEF TakenBy
      <4> QED BY <4>1, <4>2 DEF Decided
    <3>2. CASE k > Consumed
      <4>1. Consumed + 1 <= k /\ k <= Consumed' /\ Len(events) + 1 \in 1..Len(events')
        BY <1>1, <2>6, <3>2
      <4> QED BY <2>4, <2>6, <4>1 DEF TakenBy
    <3> QED BY <1>1, <3>1, <3>2
  <2> QED BY <2>1, <2>7 DEF Decided
<1>5. CASE UNCHANGED vars
  BY <1>5 DEF vars, Decided, Consumed
<1> QED BY <1>2, <1>3, <1>4, <1>5 DEF Next, Scan

LEMMA DecidedInvariant == Spec => []Decided
<1>1. Init => Decided
  BY DEF Init, Decided, Consumed
<1>2. TypedTail /\ Handled /\ Decided /\ [Next]_vars => Decided'
  BY StepDecided
<1> QED BY <1>1, <1>2, TypedTailInvariant, HandledInvariant, PTL DEF Spec

(* Reading byte by byte finds the frames of the reference definition,      *)
(* which looks at the whole input: none is missed behind text, a refused   *)
(* header or another frame, and none is found that is not there.           *)
THEOREM FramesCompleteCorrect == Spec => []FramesComplete
<1>1. TypedTail /\ Handled /\ Decided => FramesComplete
  BY DecidedIsComplete
<1> QED BY <1>1, TypedTailInvariant, HandledInvariant, DecidedInvariant, PTL

-----------------------------------------------------------------------------
(* Lines.  The text gathered in logBuf, and the text of each line handed   *)
(* on, is spelled by the positions of the input that hold text and lie     *)
(* behind the previous newline.                                            *)

TextHere(s, ev, k) == ~TakenBy(ev, k) /\ s[k] \notin {NewLine, Return} /\ ~HeaderAt(s, k)

NewLineHere(s, ev, k) == ~TakenBy(ev, k) /\ s[k] = NewLine

TextSince(s, ev, n) ==
  {k \in 1..n - 1 : TextHere(s, ev, k) /\ \A j \in 1..n - 1 : NewLineHere(s, ev, j) => j < k}

Spells(s, data, P) == /\ Len(data) = Cardinality(P)
                      /\ \A k \in P : data[Cardinality({j \in P : j <= k})] = s[k]

Gathered ==
  /\ Spells(received, logBuf, TextSince(received, events, Consumed + 1))
  /\ \A i \in LineEvents : Spells(received, events[i].data, TextSince(received, events, events[i].at))

(* Counting the members of a finite set of numbers up to one of them.      *)
LEMMA RankInside ==
  ASSUME NEW n \in Nat, NEW P \in SUBSET (1..n)
  PROVE  /\ IsFiniteSet(P) /\ Cardinality(P) \in Nat
         /\ \A k \in P : Cardinality({j \in P : j <= k}) \in 1..Cardinality(P)
<1>1. IsFiniteSet(1..n)
  BY FS_Interval
<1>2. IsFiniteSet(P) /\ Cardinality(P) \in Nat
  BY <1>1, FS_Subset, FS_CardinalityType
<1>3. ASSUME NEW k \in P PROVE Cardinality({j \in P : j <= k}) \in 1..Cardinality(P)
  <2> DEFINE Q == {j \in P : j <= k}
  <2>1. Q \in SUBSET P /\ k \in Q
    OBVIOUS
  <2> HIDE DEF Q
  <2>2. IsFiniteSet(Q) /\ Cardinality(Q) <= Cardinality(P) /\ Cardinality(Q) \in Nat
    BY <1>2, <2>1, FS_Subset, FS_CardinalityType
  <2>3. Cardinality(Q) # 0
    BY <2>1, <2>2, FS_EmptySet
  <2>4. Cardinality(Q) \in 1..Cardinality(P)
    BY <1>2, <2>2, <2>3
  <2> QED BY <2>4 DEF Q
<1> QED BY <1>2, <1>3

(* One more byte of text, behind all others.                               *)
LEMMA SpellsOneMore ==
  ASSUME NEW s \in Seq(Byte), NEW data \in Seq(Byte), NEW n \in Nat, n + 1 <= Len(s),
         NEW P \in SUBSET (1..n), Spells(s, data, P)
  PROVE  Spells(s, Append(data, s[n + 1]), P \cup {n + 1})
<1> DEFINE Q == P \cup {n + 1}
           d == Append(data, s[n + 1])
<1>1. IsFiniteSet(P) /\ Cardinality(P) \in Nat /\ Len(data) = Cardinality(P)
  BY RankInside DEF Spells
<1>2. n + 1 \notin P
  OBVIOUS
<1>3. Cardinality(Q) = Cardinality(P) + 1
  BY <1>1, <1>2, FS_AddElement
<1>4. s[n + 1] \in Byte
  OBVIOUS
<1>5. /\ Len(d) = Len(data) + 1
      /\ d[Len(data) + 1] = s[n + 1]
      /\ \A i \in 1..Len(data) : d[i] = data[i]
  BY <1>4
<1>6. ASSUME NEW k \in Q PROVE d[Cardinality({j \in Q : j <= k})] = s[k]
  <2>1. CASE k \in P
    <3>1. {j \in Q : j <= k} = {j \in P : j <= k}
      BY <2>1
    <3>2. Cardinality({j \in P : j <= k}) \in 1..Len(data)
      BY <1>1, <2>1, RankInside
    <3>3. data[Cardinality({j \in P : j <= k})] = s[k]
      BY <2>1 DEF Spells
    <3> HIDE DEF d, Q
    <3>4. d[Cardinality({j \in P : j <= k})] = s[k]
      BY <1>5, <3>2, <3>3
    <3> QED BY <3>1, <3>4
  <2>2. CASE k = n + 1
    <3>1. {j \in Q : j <= k} = Q
      <4>1. \A j \in Q : j <= n + 1
        OBVIOUS
      <4> HIDE DEF Q
      <4> QED BY <2>2, <4>1
    <3> HIDE DEF d, Q
    <3> QED BY <1>1, <1>3, <1>5, <2>2, <3>1
  <2> QED BY <2>1, <2>2
<1>7. Spells(s, d, Q)
  <2> HIDE DEF d, Q
  <2> QED BY <1>1, <1>3, <1>5, <1>6 DEF Spells
<1> QED BY <1>7

(* What is spelled depends only on the bytes it is spelled with.           *)
LEMMA SpellsSame ==
  ASSUME NEW s, NEW t, NEW data, NEW P, Spells(s, data, P), \A k \in P : t[k] = s[k]
  PROVE  Spells(t, data, P)
BY DEF Spells

(* Text before position n is the same when more input or more events come, *)
(* as long as no new frame lies before n.                                  *)
LEMMA TextSinceSame ==
  ASSUME NEW s \in Seq(Byte), NEW t \in Seq(Byte), NEW ev, NEW fv, NEW n \in Nat,
         Len(s) <= Len(t), n - 1 <= Len(s), \A i \in 1..Len(s) : t[i] = s[i],
         \A k \in 1..n - 1 : TakenBy(ev, k) \/ NoFrameAt(s, k),
         \A k \in 1..n - 1 : TakenBy(fv, k) <=> TakenBy(ev, k)
  PROVE  TextSince(t, fv, n) = TextSince(s, ev, n)
<1>1. ASSUME NEW k \in 1..n - 1
      PROVE  /\ TextHere(t, fv, k) <=> TextHere(s, ev, k)
             /\ NewLineHere(t, fv, k) <=> NewLineHere(s, ev, k)
  <2>1. k \in 1..Len(s) /\ t[k] = s[k] /\ (TakenBy(fv, k) <=> TakenBy(ev, k))
    OBVIOUS
  <2>2. ASSUME NoFrameAt(s, k) PROVE HeaderAt(t, k) <=> HeaderAt(s, k)
    <3>1. k + 1 <= Len(s) /\ Len(s) \in Nat /\ Len(t) \in Nat
      BY <2>2 DEF NoFrameAt
    <3>2. t[k + 1] = s[k + 1] /\ k + 1 <= Len(t)
      BY <2>1, <3>1
    <3> QED BY <2>1, <3>1, <3>2 DEF HeaderAt
  <2> QED BY <2>1, <2>2 DEF TextHere, NewLineHere
<1> QED BY <1>1 DEF TextSince

LEMMA TextSinceSkips ==
  ASSUME NEW s, NEW ev, NEW n \in Nat, NEW m \in Nat, 1 <= n, n <= m,
         \A k \in n..m - 1 : ~TextHere(s, ev, k) /\ ~NewLineHere(s, ev, k)
  PROVE  TextSince(s, ev, m) = TextSince(s, ev, n)
<1>1. \A k \in 1..m - 1 : k \in 1..n - 1 \/ k \in n..m - 1
  OBVIOUS
<1>2. \A k \in 1..n - 1 : k \in 1..m - 1
  OBVIOUS
<1>3. \A k \in 1..m - 1 : TextHere(s, ev, k) => k \in 1..n - 1
  BY <1>1
<1>4. \A k \in 1..m - 1 : NewLineHere(s, ev, k) => k \in 1..n - 1
  BY <1>1
<1> QED BY <1>2, <1>3, <1>4 DEF TextSince

LEMMA TextSinceGrows ==
  ASSUME NEW s, NEW ev, NEW n \in Nat, 1 <= n,
         TextHere(s, ev, n), ~NewLineHere(s, ev, n)
  PROVE  TextSince(s, ev, n + 1) = TextSince(s, ev, n) \cup {n}
<1>1. \A k : k \in 1..(n + 1) - 1 <=> k \in 1..n - 1 \/ k = n
  OBVIOUS
<1>2. \A j \in 1..n - 1 : j < n
  OBVIOUS
<1> QED BY <1>1, <1>2 DEF TextSince

LEMMA TextSinceRestarts ==
  ASSUME NEW s, NEW ev, NEW n \in Nat, 1 <= n, NewLineHere(s, ev, n)
  PROVE  TextSince(s, ev, n + 1) = {}
<1>1. n \in 1..(n + 1) - 1 /\ \A k \in 1..(n + 1) - 1 : ~(n < k)
  OBVIOUS
<1> QED BY <1>1 DEF TextSince

(* The lines already handed on, and the text already gathered, stand.      *)
LEMMA OldTextStays ==
  ASSUME TypedTail, Handled, Decided, Gathered,
         received' \in Seq(Byte), Len(received) <= Len(received'),
         \A i \in 1..Len(received) : received'[i] = received[i],
         \A k \in 1..Consumed : TakenBy(events', k) <=> TakenBy(events, k)
  PROVE  /\ Spells(received', logBuf, TextSince(received', events', Consumed + 1))
         /\ \A i \in LineEvents :
              Spells(received', events[i].data, TextSince(received', events', events[i].at))
<1>1. /\ Consumed \in Nat /\ Consumed <= Len(received) /\ Len(received) \in Nat
      /\ received \in Seq(Byte)
  BY HeadOfBuffer DEF TypedTail, TypeOK
<1>2. ASSUME NEW n \in Nat, NEW data, n - 1 <= Consumed,
             Spells(received, data, TextSince(received, events, n))
      PROVE  Spells(received', data, TextSince(received', events', n))
  <2>1. \A k \in 1..n - 1 : TakenBy(events, k) \/ NoFrameAt(received, k)
    BY <1>1, <1>2 DEF Decided
  <2>2. \A k \in 1..n - 1 : TakenBy(events', k) <=> TakenBy(events, k)
    BY <1>1, <1>2
  <2>3. n - 1 <= Len(received)
    BY <1>1, <1>2
  <2>4. TextSince(received', events', n) = TextSince(received, events, n)
    BY <1>1, <2>1, <2>2, <2>3, TextSinceSame
  <2>5. \A k \in TextSince(received, events, n) : received'[k] = received[k]
    BY <1>1, <2>3 DEF TextSince
  <2> QED BY <1>2, <2>4, <2>5, SpellsSame
<1>3. Spells(received', logBuf, TextSince(received', events', Consumed + 1))
  BY <1>1, <1>2 DEF Gathered
<1>4. ASSUME NEW i \in LineEvents
      PROVE  Spells(received', events[i].data, TextSince(received', events', events[i].at))
  <2>1. events[i].at \in Nat /\ events[i].at - 1 <= Consumed
    <3>1. i \in 1..Len(events) /\ events[i] \in Event /\ events[i].kind = "line"
      BY DEF LineEvents, TypedTail, TypeOK
    <3>2. LastByteOf(events[i]) <= Consumed /\ LastByteOf(events[i]) = events[i].at
      BY <3>1 DEF Handled, EventsOrdered, LastByteOf
    <3> QED BY <1>1, <3>1, <3>2 DEF Event
  <2> QED BY <1>2, <2>1 DEF Gathered
<1> QED BY <1>3, <1>4

(* The byte at the head of buf belongs to no frame handed on so far.       *)
LEMMA HeadIsFree ==
  ASSUME TypedTail, Handled
  PROVE  ~TakenBy(events, Consumed + 1)
<1>1. Consumed \in Nat
  BY HeadOfBuffer
<1> QED BY <1>1, TakenFrameFacts DEF TakenBy

LEMMA OneByteGathered ==
  ASSUME TypedTail, Handled, Decided, Gathered, DropReturn \/ LogByte \/ DropStart
  PROVE  Gathered'
<1>1. /\ Consumed \in Nat /\ Len(buf) \in Nat /\ Len(received) = Consumed + Len(buf)
      /\ received \in Seq(Byte) /\ Len(received) \in Nat
      /\ \A i \in 1..Len(buf) : buf[i] = received[Consumed + i]
      /\ HeaderAt(received, Consumed + 1) <=> StartsFrame(buf)
  BY HeadOfBuffer DEF TypedTail, TypeOK
<1>2. received' = received /\ Consumed' = Consumed + 1 /\ events' = events
  BY OneByteTaken DEF DropReturn, LogByte, DropStart
<1>3. /\ Spells(received, logBuf, TextSince(received, events, Consumed + 1))
      /\ \A i \in LineEvents :
           Spells(received, events[i].data, TextSince(received, events, events[i].at))
  BY DEF Gathered
<1>4. LineEvents' = LineEvents
  BY <1>2 DEF LineEvents
<1>5. ~TakenBy(events, Consumed + 1)
  BY HeadIsFree
<1>6. Len(buf) >= 2 /\ Head(buf) = received[Consumed + 1]
  <2>1. Len(buf) >= 2
    BY DEF DropReturn, LogByte, DropStart, IsText, IsBadFrame, StartsFrame
  <2>2. Head(buf) = buf[1]
    BY <2>1 DEF TypedTail, TypeOK
  <2> QED BY <1>1, <2>1, <2>2
<1>7. CASE DropReturn \/ DropStart
  <2>1. ~TextHere(received, events, Consumed + 1) /\ ~NewLineHere(received, events, Consumed + 1)
    <3>1. CASE DropReturn
      BY <1>6, <3>1 DEF DropReturn, TextHere, NewLineHere, NewLine, Return
    <3>2. CASE DropStart
      <4>1. StartsFrame(buf)
        BY <3>2 DEF DropStart, IsBadFrame
      <4>2. received[Consumed + 1] = Start1
        BY <1>1, <4>1 DEF HeaderAt
      <4> QED BY <1>1, <4>1, <4>2 DEF TextHere, NewLineHere, Start1, NewLine
    <3> QED BY <1>7, <3>1, <3>2
  <2>2. \A k \in Consumed + 1..(Consumed + 2) - 1 : k = Consumed + 1
    BY <1>1
  <2>3. TextSince(received, events, Consumed + 2) = TextSince(received, events, Consumed + 1)
    BY <1>1, <2>1, <2>2, TextSinceSkips
  <2>4. logBuf' = logBuf /\ Consumed' + 1 = Consumed + 2
    BY <1>1, <1>2, <1>7 DEF DropReturn, DropStart
  <2> QED BY <1>2, <1>3, <1>4, <2>3, <2>4 DEF Gathered
<1>8. CASE LogByte
  <2>1. TextHere(received, events, Consumed + 1) /\ ~NewLineHere(received, events, Consumed + 1)
    BY <1>1, <1>5, <1>6, <1>8 DEF LogByte, IsText, TextHere, NewLineHere
  <2>2. TextSince(received, events, (Consumed + 1) + 1) = TextSince(received, events, Consumed + 1) \cup {Consumed + 1}
    BY <1>1, <2>1, TextSinceGrows
  <2>3. TextSince(received, events, Consumed + 1) \in SUBSET (1..Consumed)
    BY <1>1 DEF TextSince
  <2>4. logBuf \in Seq(Byte) /\ Consumed + 1 <= Len(received)
    BY <1>1, <1>6 DEF TypedTail, TypeOK, Text
  <2>5. Spells(received, Append(logBuf, received[Consumed + 1]),
               TextSince(received, events, Consumed + 1) \cup {Consumed + 1})
    BY <1>1, <1>3, <2>3, <2>4, SpellsOneMore
  <2>6. logBuf' = Append(logBuf, received[Consumed + 1])
    BY <1>6, <1>8 DEF LogByte
  <2> QED BY <1>2, <1>3, <1>4, <2>2, <2>5, <2>6 DEF Gathered
<1> QED BY <1>7, <1>8

LEMMA EndLineGathered ==
  ASSUME TypedTail, Handled, Decided, Gathered, EndLine
  PROVE  Gathered'
<1>1. /\ Consumed \in Nat /\ Len(buf) \in Nat /\ Len(received) = Consumed + Len(buf)
      /\ received \in Seq(Byte) /\ Len(received) \in Nat
      /\ events \in Seq(Event) /\ Len(events) \in Nat
      /\ \A i \in 1..Len(buf) : buf[i] = received[Consumed + i]
  BY HeadOfBuffer DEF TypedTail, TypeOK
<1>2. received' = received /\ Consumed' = Consumed + 1 /\ logBuf' = << >>
  BY OneByteTaken DEF EndLine
<1>3. PICK e : e = [kind |-> "line", at |-> Consumed + 1, data |-> logBuf]
  OBVIOUS
<1>4. e \in Event /\ e.kind = "line" /\ e.at = Consumed + 1 /\ e.data = logBuf
  BY <1>1, <1>3 DEF TypedTail, TypeOK, Event
<1>5. events' = Append(events, e)
  BY <1>3 DEF EndLine
<1>6. /\ Len(events') = Len(events) + 1 /\ events'[Len(events) + 1] = e
      /\ \A i \in 1..Len(events) : events'[i] = events[i]
  BY <1>1, <1>4, <1>5
<1>7. \A k : TakenBy(events', k) <=> TakenBy(events, k)
  BY <1>1, <1>4, <1>6 DEF TakenBy
<1>8. /\ Spells(received', logBuf, TextSince(received', events', Consumed + 1))
      /\ \A i \in LineEvents :
           Spells(received', events[i].data, TextSince(received', events', events[i].at))
  BY <1>1, <1>2, <1>7, OldTextStays
<1>9. ASSUME NEW i \in LineEvents'
      PROVE  Spells(received', events'[i].data, TextSince(received', events', events'[i].at))
  <2>1. i \in LineEvents \/ i = Len(events) + 1
    BY <1>1, <1>6, <1>9 DEF LineEvents
  <2>2. CASE i \in LineEvents
    <3>1. events'[i] = events[i]
      BY <1>6, <2>2 DEF LineEvents
    <3> QED BY <1>8, <2>2, <3>1
  <2>3. CASE i = Len(events) + 1
    BY <1>4, <1>6, <1>8, <2>3
  <2> QED BY <2>1, <2>2, <2>3
<1>10. Spells(received', logBuf', TextSince(received', events', Consumed' + 1))
  <2>1. received[Consumed + 1] = NewLine
    <3>1. Head(buf) = buf[1] /\ Len(buf) >= 2 /\ Head(buf) = NewLine
      BY DEF EndLine, IsText, TypedTail, TypeOK
    <3> QED BY <1>1, <3>1
  <2>2. NewLineHere(received', events', Consumed + 1)
    BY <1>2, <1>7, <2>1, HeadIsFree DEF NewLineHere
  <2>3. TextSince(received', events', (Consumed + 1) + 1) = {}
    BY <1>1, <2>2, TextSinceRestarts
  <2>4. Len(logBuf') = Cardinality({})
    BY <1>2, FS_EmptySet
  <2> QED BY <1>2, <2>3, <2>4 DEF Spells
<1>11. \A i \in LineEvents' : Spells(received, events[i].data, TextSince(received, events, events[i].at))'
  BY <1>9 DEF Spells, TextSince, TextHere, NewLineHere, TakenBy, LastByteOf, HeaderAt
<1>12. Spells(received, logBuf, TextSince(received, events, Consumed + 1))'
  BY <1>10
<1> QED BY <1>11, <1>12 DEF Gathered

LEMMA TakeFrameGathered ==
  ASSUME TypedTail, Handled, Decided, Gathered, TakeFrame
  PROVE  Gathered'
<1>1. /\ Consumed \in Nat /\ Len(buf) \in Nat /\ Len(received) \in Nat
      /\ received \in Seq(Byte) /\ buf \in Seq(Byte)
      /\ events \in Seq(Event) /\ Len(events) \in Nat
  BY HeadOfBuffer DEF TypedTail, TypeOK
<1>2. /\ received' = received /\ Length(buf) \in 1..MaxSize
      /\ HeaderLen + Length(buf) <= Len(buf)
      /\ Consumed' = Consumed + HeaderLen + Length(buf)
  BY FrameTaken
<1>3. PICK e : e = [kind |-> "frame", at |-> Consumed + 1,
                    data |-> SubSeq(buf, HeaderLen + 1, HeaderLen + Length(buf))]
  OBVIOUS
<1>4. e \in Event
  <2>1. SubSeq(buf, HeaderLen + 1, HeaderLen + Length(buf)) \in Seq(Byte)
    BY <1>1, <1>2 DEF HeaderLen
  <2> QED BY <1>1, <1>3, <2>1 DEF Event
<1>5. e.at = Consumed + 1 /\ LastByteOf(e) = Consumed' /\ e.kind = "frame"
  BY <1>3, <1>4, TakenFrameSound
<1>6. events' = Append(events, e) /\ logBuf' = logBuf
  BY <1>3 DEF TakeFrame
<1>7. /\ Len(events') = Len(events) + 1 /\ events'[Len(events) + 1] = e
      /\ \A i \in 1..Len(events) : events'[i] = events[i]
  BY <1>1, <1>4, <1>6
<1>8. Consumed' \in Nat /\ Consumed + 1 <= Consumed' + 1 /\ Consumed \in Nat
  BY <1>1, <1>2 DEF HeaderLen
<1>9. \A k \in 1..Consumed : TakenBy(events', k) <=> TakenBy(events, k)
  <2>1. \A k \in 1..Consumed : ~(e.at <= k)
    BY <1>5, <1>8
  <2>2. \A i : i \in 1..Len(events') <=> i \in 1..Len(events) \/ i = Len(events) + 1
    BY <1>1, <1>7
  <2> QED BY <1>7, <2>1, <2>2 DEF TakenBy
<1>10. /\ Spells(received', logBuf, TextSince(received', events', Consumed + 1))
       /\ \A i \in LineEvents :
            Spells(received', events[i].data, TextSince(received', events', events[i].at))
  BY <1>1, <1>2, <1>9, OldTextStays
<1>11. PICK c \in Nat : c = Consumed' /\ Consumed + 1 <= c + 1
  BY <1>8
<1>12. \A k \in Consumed + 1..(c + 1) - 1 : TakenBy(events', k)
  <2>1. \A k \in Consumed + 1..(c + 1) - 1 : e.at <= k /\ k <= LastByteOf(e)
    <3>1. \A k \in Consumed + 1..(c + 1) - 1 : Consumed + 1 <= k /\ k <= c
      BY <1>8
    <3>2. e.at = Consumed + 1 /\ LastByteOf(e) = c
      BY <1>5, <1>11
    <3> QED BY <3>1, <3>2
  <2>2. Len(events) + 1 \in 1..Len(events')
    BY <1>1, <1>7
  <2> QED BY <1>5, <1>7, <2>1, <2>2 DEF TakenBy
<1>13. TextSince(received', events', c + 1) = TextSince(received', events', Consumed + 1)
  <2>1. \A k \in Consumed + 1..(c + 1) - 1 :
          ~TextHere(received', events', k) /\ ~NewLineHere(received', events', k)
    BY <1>12 DEF TextHere, NewLineHere
  <2>2. Consumed + 1 \in Nat /\ c + 1 \in Nat /\ 1 <= Consumed + 1
    BY <1>8
  <2>3. PICK n \in Nat, m \in Nat : n = Consumed + 1 /\ m = c + 1 /\ 1 <= n /\ n <= m
    BY <1>11, <2>2
  <2>4. \A k \in n..m - 1 : ~TextHere(received', events', k) /\ ~NewLineHere(received', events', k)
    BY <2>1, <2>3
  <2>5. TextSince(received', events', m) = TextSince(received', events', n)
    BY <2>3, <2>4, TextSinceSkips
  <2> QED BY <2>3, <2>5
<1>14. \A i \in LineEvents' : i \in LineEvents /\ events'[i] = events[i]
  <2>1. ASSUME NEW i \in LineEvents' PROVE i \in LineEvents /\ events'[i] = events[i]
    <3>1. i \in 1..Len(events') /\ events'[i].kind = "line"
      BY DEF LineEvents
    <3>2. i # Len(events) + 1
      BY <1>5, <1>7, <3>1
    <3>3. i \in 1..Len(events)
      BY <1>1, <1>7, <3>1, <3>2
    <3> QED BY <1>7, <3>1, <3>3 DEF LineEvents
  <2> QED BY <2>1
<1>15. \A i \in LineEvents' :
         Spells(received', events'[i].data, TextSince(received', events', events'[i].at))
  BY <1>10, <1>14
<1>16. \A i \in LineEvents' : Spells(received, events[i].data, TextSince(received, events, events[i].at))'
  BY <1>15 DEF Spells, TextSince, TextHere, NewLineHere, TakenBy, LastByteOf, HeaderAt
<1>17. Spells(received, logBuf, TextSince(received, events, Consumed + 1))'
  BY <1>6, <1>10, <1>11, <1>13
<1> QED BY <1>16, <1>17 DEF Gathered

LEMMA StepGathered ==
  ASSUME TypedTail, Handled, Decided, Gathered, [Next]_vars
  PROVE  Gathered'
<1>1. ASSUME \/ \E b \in Byte : Receive(b)
             \/ UNCHANGED vars
      PROVE  Gathered'
  <2>1. received \in Seq(Byte) /\ Len(received) \in Nat
    BY DEF TypedTail, TypeOK
  <2>2. /\ Consumed' = Consumed /\ events' = events /\ logBuf' = logBuf
        /\ received' \in Seq(Byte) /\ Len(received) <= Len(received')
        /\ \A i \in 1..Len(received) : received'[i] = received[i]
    <3>1. CASE UNCHANGED vars
      BY <2>1, <3>1 DEF vars, Consumed
    <3>2. CASE \E b \in Byte : Receive(b)
      <4>1. Consumed' = Consumed
        BY <3>2, ReceiveKeepsTypedTail
      <4> QED BY <2>1, <3>2, <4>1 DEF Receive
    <3> QED BY <1>1, <3>1, <3>2
  <2>3. /\ Spells(received', logBuf, TextSince(received', events', Consumed + 1))
        /\ \A i \in LineEvents :
             Spells(received', events[i].data, TextSince(received', events', events[i].at))
    BY <2>2, OldTextStays
  <2>4. LineEvents' = LineEvents
    BY <2>2 DEF LineEvents
  <2>5. \A i \in LineEvents' : Spells(received, events[i].data, TextSince(received, events, events[i].at))'
    BY <2>2, <2>3, <2>4
  <2>6. Spells(received, logBuf, TextSince(received, events, Consumed + 1))'
    BY <2>2, <2>3
  <2> QED BY <2>5, <2>6 DEF Gathered
<1> QED BY <1>1, OneByteGathered, EndLineGathered, TakeFrameGathered DEF Next, Scan

LEMMA GatheredInvariant == Spec => []Gathered
<1>1. ASSUME Init PROVE Gathered
  <2>1. received = << >> /\ events = << >> /\ logBuf = << >> /\ Consumed = 0
    BY <1>1 DEF Init, Consumed
  <2>2. TextSince(received, events, Consumed + 1) = {}
    BY <2>1 DEF TextSince
  <2>3. Len(logBuf) = Cardinality({})
    BY <2>1, FS_EmptySet
  <2>4. LineEvents = {}
    BY <2>1 DEF LineEvents
  <2> QED BY <2>2, <2>3, <2>4 DEF Gathered, Spells
<1>2. TypedTail /\ Handled /\ Decided /\ Gathered /\ [Next]_vars => Gathered'
  BY StepGathered
<1> QED BY <1>1, <1>2, TypedTailInvariant, HandledInvariant, DecidedInvariant, PTL DEF Spec

(* Behind the scanner, to lie in a frame of the reference definition is to *)
(* have been handed on in one.                                             *)
LEMMA InFrameBehind ==
  ASSUME TypedTail, Handled, Decided, NEW k \in 1..Consumed
  PROVE  InFrame(received, k) <=> TakenBy(events, k)
<1>1. /\ Consumed \in Nat /\ Len(received) \in Nat /\ Consumed <= Len(received)
      /\ received \in Seq(Byte)
  BY HeadOfBuffer DEF TypedTail, TypeOK
<1>2. ASSUME InFrame(received, k) PROVE TakenBy(events, k)
  <2>1. PICK i \in FrameStarts(received) : i <= k /\ k < EndOfFrame(received, i)
    BY <1>2 DEF InFrame
  <2>2. i \in 1..Consumed
    BY <1>1, <2>1, FrameStartsAre
  <2>3. PICK h \in 1..Len(events) : events[h].kind = "frame" /\ events[h].at = i
    BY <2>1, <2>2, StartsBehind
  <2>4. /\ LastByteOf(events[h]) \in Nat
        /\ EndOfFrame(received, i) = LastByteOf(events[h]) + 1
    BY <2>3, TakenFrameFacts
  <2>5. k <= LastByteOf(events[h])
    BY <2>1, <2>4
  <2> QED BY <2>1, <2>3, <2>5 DEF TakenBy
<1>3. ASSUME TakenBy(events, k) PROVE InFrame(received, k)
  <2>1. PICK h \in 1..Len(events) : /\ events[h].kind = "frame" /\ events[h].at <= k
                                    /\ k <= LastByteOf(events[h])
    BY <1>3 DEF TakenBy
  <2>2. /\ LastByteOf(events[h]) \in Nat /\ events[h].at \in 1..Consumed
        /\ EndOfFrame(received, events[h].at) = LastByteOf(events[h]) + 1
    BY <2>1, TakenFrameFacts
  <2>3. events[h].at \in FrameStarts(received)
    BY <2>1, <2>2, StartsBehind
  <2>4. k < EndOfFrame(received, events[h].at)
    BY <2>1, <2>2
  <2> QED BY <2>1, <2>3, <2>4 DEF InFrame
<1> QED BY <1>2, <1>3

LEMMA GatheredIsSound ==
  ASSUME TypedTail, Handled, Decided, Gathered
  PROVE  LinesSound
<1> SUFFICES ASSUME NEW i \in LineEvents
             PROVE  /\ Len(events[i].data) = Cardinality(LinePositions(events[i]))
                    /\ \A k \in LinePositions(events[i]) :
                         events[i].data[Cardinality({j \in LinePositions(events[i]) : j <= k})] = received[k]
  BY DEF LinesSound
<1>1. Consumed \in Nat
  BY HeadOfBuffer
<1>2. events[i].at \in Nat /\ events[i].at <= Consumed
  <2>1. i \in 1..Len(events) /\ events[i] \in Event /\ events[i].kind = "line"
    BY DEF LineEvents, TypedTail, TypeOK
  <2>2. LastByteOf(events[i]) <= Consumed /\ LastByteOf(events[i]) = events[i].at
    BY <2>1 DEF Handled, EventsOrdered, LastByteOf
  <2> QED BY <1>1, <2>1, <2>2 DEF Event
<1>3. \A k \in 1..events[i].at - 1 : k \in 1..Consumed
  BY <1>1, <1>2
<1>4. \A k \in 1..events[i].at - 1 : TextAt(k) <=> TextHere(received, events, k)
  BY <1>3, InFrameBehind DEF TextAt, TextHere
<1>5. NewLinesBefore(events[i].at) = {j \in 1..events[i].at - 1 : NewLineHere(received, events, j)}
  BY <1>3, InFrameBehind DEF NewLinesBefore, NewLineHere
<1>6. LinePositions(events[i]) = TextSince(received, events, events[i].at)
  BY <1>4, <1>5, SMTT(30) DEF LinePositions, TextSince
<1>7. Spells(received, events[i].data, TextSince(received, events, events[i].at))
  BY DEF Gathered
<1>8. Spells(received, events[i].data, LinePositions(events[i]))
  BY <1>6, <1>7
<1> QED BY <1>8 DEF Spells

(* A line handed on is exactly the text received since the newline before: *)
(* no byte of a frame gets into it, and a frame in its middle does not cut *)
(* it.                                                                     *)
THEOREM LinesSoundCorrect == Spec => []LinesSound
<1>1. TypedTail /\ Handled /\ Decided /\ Gathered => LinesSound
  BY GatheredIsSound
<1> QED BY <1>1, TypedTailInvariant, HandledInvariant, DecidedInvariant, GatheredInvariant, PTL
=============================================================================
