--------------------------- MODULE MCSerialFraming ---------------------------
(* Byte values for the runs of SerialFraming: the start bytes, the two     *)
(* line bytes, and the bytes of the smallest lengths; with MaxSize = 1 the *)
(* lengths 0 (bad), 1 (good), 2 (one too many) and 256 upwards appear.     *)
EXTENDS SerialFraming

MCByte == {Start1, Start2, NewLine, Return, 0, 1, 2}
=============================================================================
