----------------------------- MODULE MCSerialLink -----------------------------
(* Payloads for the runs of SerialLink: bytes that look like text, like a  *)
(* newline, like the start of a frame and like a length.                   *)
EXTENDS SerialLink

CleanByte == {Start1, Start2, NewLine, Return, 0, 1, 2}
CleanPayload == {<<Start1, Start2>>, <<NewLine>>, <<1>>}
CleanText == {Start1, Start2, NewLine, Return}

(* Text that completes, behind a loss, a false header with a length that   *)
(* is accepted: it swallows the beginning of the next frame.  The frame of *)
(* one payload ends with the first start byte: cut open by a loss, it      *)
(* leaves it to such text as well.                                         *)
LossyByte == {Start1, Start2, 0, 1}
LossyPayload == {<<1>>, <<Start1>>}
LossyText == {Start1, Start2, 0, 1}
=============================================================================
