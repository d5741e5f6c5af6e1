----------------------------- MODULE DemuxChannel -----------------------------
(***************************************************************************)
(* What serial/serial.go promises of the serial link: the log text and the *)
(* binary frames of the device share one channel; frames arrive whole, in  *)
(* order, and text arrives in lines.  Nothing here knows how frames are    *)
(* told from text: SerialLink shows that the byte scanner implements this. *)
(***************************************************************************)
EXTENDS Sequences

CONSTANTS Payload,    \* what frames carry
          TextByte,   \* what text is made of
          NewLine, Return

VARIABLES pending,    \* items sent and not yet handled, oldest first
          line,       \* text of the line under way
          handled     \* frames and lines handed on, oldest first

Item == [kind : {"frame"}, data : Payload] \cup [kind : {"text"}, data : {<<c>> : c \in TextByte}]

Init == pending = << >> /\ line = << >> /\ handled = << >>

Send(item) == pending' = Append(pending, item) /\ UNCHANGED <<line, handled>>

DeliverFrame ==
  /\ Head(pending).kind = "frame"
  /\ handled' = Append(handled, [kind |-> "frame", data |-> Head(pending).data])
  /\ UNCHANGED line

DeliverText ==
  LET c == Head(pending).data IN
  /\ Head(pending).kind = "text"
  /\ \/ c = <<NewLine>> /\ handled' = Append(handled, [kind |-> "line", data |-> line]) /\ line' = << >>
     \/ c = <<Return>> /\ UNCHANGED <<line, handled>>
     \/ c \notin {<<NewLine>>, <<Return>>} /\ line' = line \o c /\ UNCHANGED handled

Deliver == pending # << >> /\ pending' = Tail(pending) /\ (DeliverFrame \/ DeliverText)

Next == (\E item \in Item : Send(item)) \/ Deliver

Spec == Init /\ [][Next]_<<pending, line, handled>>
=============================================================================
