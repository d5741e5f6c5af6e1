------------------------------- MODULE Forwarder -------------------------------
(***************************************************************************)
(* What meshspy promises to those who publish commands: each is settled    *)
(* once, in the order of publication; it is written only while the way to  *)
(* the device is open, which happens once; none is dropped for want of a   *)
(* port after another was handed on; and after one was written none fails  *)
(* before the way is closed for good.  Nothing here knows of the phases of *)
(* main, of the mutex, of the race for portMgr or of unplugged devices:    *)
(* MeshSpy implements this.                                                *)
(***************************************************************************)
EXTENDS Naturals, Sequences

VARIABLES gate,   \* the way to the device: "before" it is opened, "open", "closed"
          fate    \* what became of each command published, in order

vars == <<gate, fate>>

Init == gate = "before" /\ fate = << >>

Open == gate = "before" /\ gate' = "open" /\ UNCHANGED fate

Close == gate = "open" /\ gate' = "closed" /\ UNCHANGED fate

Publish == fate' = Append(fate, "queued") /\ UNCHANGED gate

HandedOn(c) == fate[c] \in {"written", "failed"}

(* The oldest command that waits.                                          *)
Settle(f) ==
  /\ \E c \in DOMAIN fate :
       /\ fate[c] = "queued" /\ \A d \in 1..c - 1 : fate[d] # "queued"
       /\ fate' = [fate EXCEPT ![c] = f]
  /\ UNCHANGED gate

Drop  == (\A c \in DOMAIN fate : ~HandedOn(c)) /\ Settle("dropped")
Write == gate = "open" /\ Settle("written")
Fail  == /\ gate # "before"
         /\ gate = "closed" \/ \A c \in DOMAIN fate : fate[c] # "written"
         /\ Settle("failed")

Next == Open \/ Close \/ Publish \/ Drop \/ Write \/ Fail

Spec == Init /\ [][Next]_vars
=============================================================================
