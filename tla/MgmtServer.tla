------------------------------ MODULE MgmtServer ------------------------------
(***************************************************************************)
(* The uploads of meshspy to the management server: mgmtapi.SendNode at    *)
(* one end, the handler of POST /api/nodes (cmd/unifiserver/main.go) with  *)
(* its own database at the other.                                          *)
(*                                                                         *)
(* meshspy sends one upload at a time and waits at most five seconds.  The *)
(* server runs one handler per request, all at the same time, and finishes *)
(* a handler whose client has given up.                                    *)
(***************************************************************************)
EXTENDS Naturals, Sequences

CONSTANTS Id,          \* ids of nodes
          MaxUploads   \* bound: uploads in one behaviour

ASSUME UploadsAssumption == MaxUploads \in Nat

VARIABLES uploads,    \* history: what was sent, numbered
          outcome,    \* what SendNode made of each
          handler,    \* where the server's handler of each upload is
          rows,       \* the server's table nodes: the upload each row holds
          positions   \* the uploads whose place is in its table positions

mgmtVars == <<uploads, outcome, handler, rows, positions>>

Upload == [id : Id, place : BOOLEAN]
Outcomes == {"waiting", "accepted", "refused", "given_up"}
Stages == {"sent", "row", "stored", "failed"}

MgmtInit == /\ uploads = << >> /\ outcome = << >> /\ handler = << >>
            /\ rows = [i \in Id |-> 0]
            /\ positions = {}

Waiting == {u \in DOMAIN uploads : outcome[u] = "waiting"}

SendNode(upload) ==
  /\ Waiting = {}
  /\ Len(uploads) < MaxUploads
  /\ uploads' = Append(uploads, upload)
  /\ outcome' = Append(outcome, "waiting")
  /\ handler' = Append(handler, "sent")
  /\ UNCHANGED <<rows, positions>>

Goes(u, from, to) == handler[u] = from /\ handler' = [handler EXCEPT ![u] = to]

(* A request may be lost or cut off, a statement may fail.                 *)
Fail(u) == /\ Goes(u, "sent", "failed") \/ Goes(u, "row", "failed")
           /\ UNCHANGED <<uploads, outcome, rows, positions>>

UpsertRow(u) == /\ Goes(u, "sent", "row")
                /\ rows' = [rows EXCEPT ![uploads[u].id] = u]
                /\ UNCHANGED <<uploads, outcome, positions>>

PositionFirst(u) == /\ Goes(u, "row", "stored") \/ Goes(u, "sent", "stored")
                    /\ positions' = IF uploads[u].place THEN positions \cup {u} ELSE positions
                    /\ UNCHANGED <<uploads, outcome, rows>>
AddPosition(u) == /\ Goes(u, "row", "stored")
                  /\ positions' = IF uploads[u].place THEN positions \cup {u} ELSE positions
                  /\ UNCHANGED <<uploads, outcome, rows>>

AnswerAtOnce(u) ==
  /\ outcome[u] = "waiting"
  /\ outcome' = [outcome EXCEPT ![u] = IF handler[u] = "failed" THEN "refused" ELSE "accepted"]
  /\ UNCHANGED <<uploads, handler, rows, positions>>
(* 204 or an error; without a connection the client has its error at once. *)
Answer(u) == /\ outcome[u] = "waiting" /\ handler[u] \in {"stored", "failed"}
             /\ outcome' = [outcome EXCEPT ![u] = IF handler[u] = "stored" THEN "accepted" ELSE "refused"]
             /\ UNCHANGED <<uploads, handler, rows, positions>>

SendAgain(u) == /\ outcome[u] = "waiting" /\ handler[u] # "sent"
                /\ handler' = [handler EXCEPT ![u] = "sent"]
                /\ UNCHANGED <<uploads, outcome, rows, positions>>
(* After five seconds the client gives up, once and for all.               *)
TimeOut(u) == /\ outcome[u] = "waiting"
              /\ outcome' = [outcome EXCEPT ![u] = "given_up"]
              /\ UNCHANGED <<uploads, handler, rows, positions>>

Server(u) == Fail(u) \/ UpsertRow(u) \/ AddPosition(u)

MgmtTypeOK ==
  /\ uploads \in Seq(Upload) /\ Len(uploads) <= MaxUploads
  /\ outcome \in Seq(Outcomes) /\ Len(outcome) = Len(uploads)
  /\ handler \in Seq(Stages) /\ Len(handler) = Len(uploads)
  /\ rows \in [Id -> 0..Len(uploads)]
  /\ positions \subseteq DOMAIN uploads

(* What SendNode reports as accepted is in the server's database until a   *)
(* later upload of the node replaces it; only an upload that was given up  *)
(* can still replace it by something older (mgmtapi/client.go 51,          *)
(* unifiserver/main.go 52-67).                                             *)
AcceptedIsKept ==
  \A u \in DOMAIN uploads :
    outcome[u] = "accepted" =>
      LET r == rows[uploads[u].id]
      IN r # 0 /\ (r < u => outcome[r] = "given_up")

(* Every position the server lists is that of a node it lists, although    *)
(* row and position are two statements and handlers overlap                *)
(* (nodestore.go 93-142).                                                  *)
ServerPositionsHaveRows == \A u \in positions : rows[uploads[u].id] # 0
=============================================================================
