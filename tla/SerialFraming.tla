---------------------------- MODULE SerialFraming ----------------------------
(***************************************************************************)
(* The byte scanner of serial/serial.go, readLoop.  One byte is read from  *)
(* the port at a time and appended to buf; then an inner loop takes from   *)
(* the head of buf whatever can be decided: text bytes, which gather in    *)
(* logBuf until a newline ends a line, and binary frames                   *)
(*      0x94 0xC3 <length, two bytes, big endian> <payload>                *)
(* The scanner stops when only more input can decide what the head of buf  *)
(* is, and reads again.  Every iteration of the inner loop is an action.   *)
(*                                                                         *)
(* What is done with a line or a frame is another component: here it is    *)
(* an event, with the place where it was found in the input.               *)
(***************************************************************************)
EXTENDS Integers, Sequences, FiniteSets

CONSTANTS Byte,      \* the byte values the device can send
          MaxSize,   \* the longest payload the scanner accepts
          MaxBytes   \* bound of the model: bytes read in one behaviour

Start1 == 148        \* 0x94
Start2 == 195        \* 0xC3
HeaderLen == 4
NewLine == 10
Return == 13

ASSUME ByteAssumption == Byte \subseteq 0..255
ASSUME MaxSizeAssumption == MaxSize \in Nat \ {0}
ASSUME MaxBytesAssumption == MaxBytes \in Nat

VARIABLES received,  \* history: every byte read so far
          buf,       \* bytes read and not yet decided
          logBuf,    \* text of the line being gathered
          events     \* lines and frames handed on, oldest first

vars == <<received, buf, logBuf, events>>

Text == Byte \ {NewLine, Return}

Event == [kind : {"frame"}, at : Nat, data : Seq(Byte)] \cup
         [kind : {"line"}, at : Nat, data : Seq(Text)]

(* How many bytes have left buf: the head of buf is byte Consumed + 1.     *)
Consumed == Len(received) - Len(buf)

-----------------------------------------------------------------------------
(* Conditions of the inner loop on a buffer b.                             *)

StartsWithEither(b) == Len(b) >= 2 /\ (b[1] = Start1 \/ b[2] = Start2)
StartsFrame(b) == Len(b) >= 2 /\ b[1] = Start1 /\ b[2] = Start2

Length(b) == b[3] * 256 + b[4]

RefusesMaxSize(n) == n <= 0 \/ n >= MaxSize
AllowsAnyLength(n) == n <= 0
AllowsOneMore(n) == n <= 0 \/ n > MaxSize + 1
BadLength(n) == n <= 0 \/ n > MaxSize

IsTextBehindHeader(b) == Len(b) >= HeaderLen /\ ~StartsFrame(b)
IsText(b) == Len(b) >= 2 /\ ~StartsFrame(b)
IsBadFrame(b) == StartsFrame(b) /\ Len(b) >= HeaderLen /\ BadLength(Length(b))
IsFrame(b) == /\ StartsFrame(b)
              /\ Len(b) >= HeaderLen
              /\ ~BadLength(Length(b))
              /\ Len(b) >= HeaderLen + Length(b)

(* None of the loop's branches can be taken: it is left by a break or      *)
(* because buf is empty.                                                   *)
Blocked(b) == ~IsText(b) /\ ~IsBadFrame(b) /\ ~IsFrame(b)

-----------------------------------------------------------------------------
Init == /\ received = << >>
        /\ buf = << >>
        /\ logBuf = << >>
        /\ events = << >>

(* port.Read returned a byte.  A read that fails, meets the end of file or *)
(* returns nothing is tried again and changes nothing.                     *)
Receive(b) == /\ Blocked(buf)
              /\ Len(received) < MaxBytes
              /\ received' = Append(received, b)
              /\ buf' = Append(buf, b)
              /\ UNCHANGED <<logBuf, events>>

EndLineKeepsText == /\ IsText(buf)
                    /\ Head(buf) = NewLine
                    /\ events' = Append(events, [kind |-> "line", at |-> Consumed + 1, data |-> logBuf])
                    /\ buf' = Tail(buf)
                    /\ UNCHANGED <<logBuf, received>>
(* A newline hands the gathered text to handleLine and clears it.          *)
EndLine == /\ IsText(buf)
           /\ Head(buf) = NewLine
           /\ events' = Append(events, [kind |-> "line", at |-> Consumed + 1, data |-> logBuf])
           /\ buf' = Tail(buf)
           /\ logBuf' = << >>
           /\ UNCHANGED received

KeepReturn == /\ IsText(buf)
              /\ Head(buf) = Return
              /\ logBuf' = Append(logBuf, Return)
              /\ buf' = Tail(buf)
              /\ UNCHANGED <<received, events>>
DropReturn == /\ IsText(buf)
              /\ Head(buf) = Return
              /\ buf' = Tail(buf)
              /\ UNCHANGED <<received, logBuf, events>>

LogByte == /\ IsText(buf)
           /\ Head(buf) \notin {NewLine, Return}
           /\ logBuf' = Append(logBuf, Head(buf))
           /\ buf' = Tail(buf)
           /\ UNCHANGED <<received, events>>

DropWholeHeader == /\ IsBadFrame(buf)
                   /\ buf' = SubSeq(buf, HeaderLen + 1, Len(buf))
                   /\ UNCHANGED <<received, logBuf, events>>
DropNewest == /\ IsBadFrame(buf)
              /\ buf' = SubSeq(buf, 1, Len(buf) - 1)
              /\ UNCHANGED <<received, logBuf, events>>
KeepStart == IsBadFrame(buf) /\ UNCHANGED vars
(* A header with an impossible length: its first byte is thrown away, and  *)
(* the others are looked at again.                                         *)
DropStart == /\ IsBadFrame(buf)
             /\ buf' = Tail(buf)
             /\ UNCHANGED <<received, logBuf, events>>

TakeFrameLeavingLast == /\ IsFrame(buf)
                        /\ events' = Append(events, [kind |-> "frame", at |-> Consumed + 1,
                                                     data |-> SubSeq(buf, HeaderLen + 1, HeaderLen + Length(buf))])
                        /\ buf' = SubSeq(buf, HeaderLen + Length(buf), Len(buf))
                        /\ UNCHANGED <<received, logBuf>>
TakeFrameFromStart == /\ IsFrame(buf)
                      /\ events' = Append(events, [kind |-> "frame", at |-> Consumed + 1,
                                                   data |-> SubSeq(buf, HeaderLen, HeaderLen + Length(buf) - 1)])
                      /\ buf' = SubSeq(buf, HeaderLen + Length(buf) + 1, Len(buf))
                      /\ UNCHANGED <<received, logBuf>>
TakeFrame == /\ IsFrame(buf)
             /\ events' = Append(events, [kind |-> "frame", at |-> Consumed + 1,
                                          data |-> SubSeq(buf, HeaderLen + 1, HeaderLen + Length(buf))])
             /\ buf' = SubSeq(buf, HeaderLen + Length(buf) + 1, Len(buf))
             /\ UNCHANGED <<received, logBuf>>

Scan == EndLine \/ DropReturn \/ LogByte \/ DropStart \/ TakeFrame

Next == (\E b \in Byte : Receive(b)) \/ Scan

Spec == Init /\ [][Next]_vars

(* The goroutine that runs the loop keeps running; the device may be       *)
(* silent for ever.                                                        *)
FairSpec == Spec /\ WF_vars(Scan)

-----------------------------------------------------------------------------
(* Reference definition: where the frames of a byte string s are.  A       *)
(* position starts a frame iff a header with a possible length (or the     *)
(* beginning of one, at the end of the string) is there and the position   *)
(* is not inside a frame that starts earlier.                              *)

HeaderAt(s, i) == i + 1 <= Len(s) /\ s[i] = Start1 /\ s[i + 1] = Start2

LengthAt(s, i) == s[i + 2] * 256 + s[i + 3]

LengthKnownAt(s, i) == i + 3 <= Len(s)

(* The first position after the frame at i, as far as s tells.             *)
EndOfFrame(s, i) == IF LengthKnownAt(s, i) THEN i + HeaderLen + LengthAt(s, i) ELSE Len(s) + 1

OpensFrame(s, i) == /\ HeaderAt(s, i)
                    /\ LengthKnownAt(s, i) => LengthAt(s, i) \in 1..MaxSize

FrameStarts(s) ==
  LET upTo[i \in 0..Len(s)] ==
        IF i = 0 THEN {}
        ELSE IF OpensFrame(s, i) /\ \A j \in upTo[i - 1] : EndOfFrame(s, j) <= i
             THEN upTo[i - 1] \cup {i}
             ELSE upTo[i - 1]
  IN upTo[Len(s)]

CompleteFrames(s) == {i \in FrameStarts(s) : LengthKnownAt(s, i) /\ EndOfFrame(s, i) <= Len(s) + 1}

InFrame(s, k) == \E i \in FrameStarts(s) : i <= k /\ k < EndOfFrame(s, i)

-----------------------------------------------------------------------------
FrameEvents == {i \in 1..Len(events) : events[i].kind = "frame"}

LineEvents == {i \in 1..Len(events) : events[i].kind = "line"}

(* The position of the last input byte an event accounts for.              *)
LastByteOf(e) == IF e.kind = "frame" THEN e.at + HeaderLen + Len(e.data) - 1 ELSE e.at

(* The variables have the types of readLoop's locals; a line under way or  *)
(* handed on holds neither newlines nor returns (serial.go 179-184).       *)
TypeOK == /\ received \in Seq(Byte)
          /\ buf \in Seq(Byte)
          /\ logBuf \in Seq(Text)
          /\ events \in Seq(Event)

(* The scan buffer never holds more than one frame of the largest accepted *)
(* size, and the loop asks for another byte only when it holds less: it is *)
(* garbage that could make buf grow for ever (serial.go, 71-73, 191-196).  *)
BufferBounded == /\ Len(buf) <= HeaderLen + MaxSize
                 /\ Blocked(buf) => Len(buf) < HeaderLen + MaxSize

(* buf is always the unread end of the input: the re-slicings of buf in    *)
(* serial.go 178, 192 and 237 neither lose, repeat nor reorder a byte.     *)
BufferIsTail == /\ Len(buf) <= Len(received)
                /\ \A i \in 1..Len(buf) : buf[i] = received[Consumed + i]

(* Each frame handed to the decoders is a slice of the input that follows  *)
(* a header announcing exactly that many bytes (serial.go 188-198).        *)
SoundFrame(e) ==
  /\ LastByteOf(e) <= Consumed
  /\ received[e.at] = Start1 /\ received[e.at + 1] = Start2
  /\ Len(e.data) = LengthAt(received, e.at)
  /\ Len(e.data) \in 1..MaxSize
  /\ \A k \in 1..Len(e.data) : e.data[k] = received[e.at + HeaderLen + k - 1]

FramesSound == \A i \in FrameEvents : SoundFrame(events[i])

(* Events are handed on in the order of their bytes and no byte belongs to *)
(* two of them: a payload that looks like a frame or holds a newline is    *)
(* not scanned a second time (serial.go 172-238).                          *)
EventsOrdered ==
  /\ \A i \in 1..Len(events) : events[i].at >= 1 /\ LastByteOf(events[i]) <= Consumed
  /\ \A i, j \in 1..Len(events) : i < j => LastByteOf(events[i]) < events[j].at

(* Reading byte by byte finds the frames one would find looking at the     *)
(* whole input: whenever the loop waits for input, exactly the complete    *)
(* frames of the reference definition have been handed on; none is missed  *)
(* behind text, a bad header or another frame (serial.go 172-238).         *)
FramesComplete ==
  Blocked(buf) => {events[i].at : i \in FrameEvents} = CompleteFrames(received)

(* Every line holds exactly the text received since the previous newline:  *)
(* what is in no frame, without the returns and without the first byte of  *)
(* the headers that were refused.  Frames in the middle of a line neither  *)
(* leak into it nor cut it (serial.go 176-186, 191-194).                   *)
TextAt(k) == /\ ~InFrame(received, k)
             /\ received[k] \notin {NewLine, Return}
             /\ ~HeaderAt(received, k)

NewLinesBefore(k) == {j \in 1..k - 1 : received[j] = NewLine /\ ~InFrame(received, j)}

LinePositions(e) ==
  {k \in 1..e.at - 1 : TextAt(k) /\ \A j \in NewLinesBefore(e.at) : j < k}

LinesSound ==
  Blocked(buf) =>
    \A i \in LineEvents :
      LET e == events[i]
          P == LinePositions(e)
          rank(k) == Cardinality({j \in P : j <= k})
      IN /\ Len(e.data) = Cardinality(P)
         /\ \A k \in P : e.data[rank(k)] = received[k]

(* The inner loop always comes back to the read: no buffer content makes   *)
(* it spin without consuming anything (serial.go 172-238).                 *)
ScanReturns == []<>Blocked(buf)
=============================================================================
