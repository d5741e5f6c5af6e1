------------------------------ MODULE ManagedNode ------------------------------
(***************************************************************************)
(* A start of meshspy with its management server: the info found by        *)
(* LocalInfo is the first that is uploaded, the node infos read from the   *)
(* radio follow, and every upload holds up what main, or the goroutine     *)
(* that reads the port, would do next.  A stop of the process leaves the   *)
(* server with a request nobody waits for.                                 *)
(***************************************************************************)
EXTENDS LocalInfo, MgmtServer

(* The server takes any id, that of an info without one too.               *)
ASSUME IdAssumption == Radio \cup {"none"} \subseteq Id

vars == <<localVars, mgmtVars>>

Init == LocalInit /\ MgmtInit

StartStep == StartUp /\ UNCHANGED mgmtVars

(* main uploads its own info and goes on when SendNode returns, which is   *)
(* at once when no server is configured.  The info may lack coordinates.   *)
SendOwn == /\ start = "send"
           /\ start' = "sending"
           /\ \E place \in BOOLEAN : SendNode([id |-> info.id, place |-> place])
           /\ UNCHANGED <<radio, changes, file, info, source, protoVer, crashes>>

(* A port that cannot be opened ends the process.                          *)
OpenPort == /\ start \in {"no_info", "send"} \/ (start = "sending" /\ Waiting = {})
            /\ start' \in {"running", "no_port"}
            /\ UNCHANGED <<radio, changes, file, info, source, protoVer, crashes, mgmtVars>>

(* main sends the nodes the radio lists, later the callback every node     *)
(* info it reads; both wait for the server.                                *)
SendHeard == /\ start \in {"sending", "running"}
             /\ \E upload \in Upload : upload.id # "none" /\ SendNode(upload)
             /\ UNCHANGED localVars

ServerStep == (\E u \in DOMAIN uploads : Server(u) \/ Answer(u)) /\ UNCHANGED localVars
GiveUp == (\E u \in DOMAIN uploads : TimeOut(u)) /\ UNCHANGED localVars

(* A stop ends the wait for the answer as well.                            *)
Crash == /\ Stop
         /\ outcome' = [u \in DOMAIN outcome |-> IF outcome[u] = "waiting" THEN "given_up" ELSE outcome[u]]
         /\ UNCHANGED <<uploads, handler, rows, positions>>

Change == ChangeRadio /\ UNCHANGED mgmtVars

Next == StartStep \/ SendOwn \/ OpenPort \/ SendHeard \/ ServerStep \/ GiveUp \/ Crash \/ Change

Spec == Init /\ [][Next]_vars

(* main goes on as long as it does not wait for the server, and its clock  *)
(* runs; the server owes nothing.                                          *)
FairSpec == Spec /\ WF_vars(StartStep \/ SendOwn \/ OpenPort) /\ WF_vars(GiveUp)

TypeOK == LocalTypeOK /\ MgmtTypeOK

(* However often the process stops, whatever nodes.json holds then, and    *)
(* whatever the radio and the server do, a start comes to open the port,   *)
(* which is read from then on unless OpenManager fails and ends the        *)
(* process (main.go 192-240).                                              *)
StartsAnyway == []<>(start \in {"running", "no_port"})
=============================================================================
