-------------------------------- MODULE MeshSpy --------------------------------
(***************************************************************************)
(* The life of the meshspy program (cmd/meshspy/main.go): its start-up     *)
(* sequence, the MQTT callback that forwards commands to the serial port,  *)
(* the goroutine that reads the port, and the shutdown.  The port is held  *)
(* by serial.Manager (serial/manager.go) behind a mutex.                   *)
(*                                                                         *)
(* External: the device (plugged in and out), the broker, which hands      *)
(* commands to the callback one at a time, and meshtastic-go, which opens  *)
(* the port for itself while main waits for it to end.                     *)
(***************************************************************************)
EXTENDS Naturals, Sequences, FiniteSets

CONSTANTS MaxCommands,   \* bound: commands published in one behaviour
          MaxUnplugs     \* bound: how often the device is unplugged

ASSUME BoundsAssumption == MaxCommands \in Nat /\ MaxUnplugs \in Nat

VARIABLES pc,         \* where main is
          exitHow,    \* how the process ended: "", "killed", "fatal", "panic", "clean"
          signals,    \* signals waiting in the channel, which holds one
          plugged,    \* whether the device file exists
          unplugs,    \* counts the unplugs
          dead,       \* whether the device behind the manager's port is gone
          cli,        \* whether a meshtastic-go process has the port open
          manager,    \* the variable portMgr of main: FALSE while nil
          portOpen,   \* whether the manager's port is open (not nil)
          lock,       \* who holds the manager's mutex
          callback,   \* where the command callback is
          current,    \* the command it is busy with
          fate,       \* what became of each published command, in order
          seen,       \* how much of main's writes to portMgr the callback has seen
          reader      \* the reading goroutine

vars == <<pc, exitHow, signals, plugged, unplugs, dead, cli, manager, portOpen, lock, callback, current, fate, seen, reader>>
mainVars == <<pc, exitHow, signals>>
portVars == <<cli, manager, portOpen, lock>>
deviceVars == <<plugged, unplugs, dead>>
commandVars == <<callback, current, fate, seen>>

(* The phases in which main runs meshtastic-go, and what follows each.     *)
Following == [alive |-> "info", info |-> "local_info", local_info |-> "node_list",
              node_list |-> "export", export |-> "welcome", welcome |-> "open_port"]
CliPhases == DOMAIN Following

(* Without a node info the list and the export are left out.               *)
AfterCli(p) == {Following[p]} \cup (IF p = "local_info" THEN {"welcome"} ELSE {})

Fates == {"queued", "written", "failed", "dropped"}

Init == /\ pc = "connect" /\ exitHow = "" /\ signals = 0
        /\ plugged \in BOOLEAN /\ unplugs = 0 /\ dead = FALSE
        /\ cli = FALSE /\ manager = FALSE /\ portOpen = FALSE /\ lock = "free"
        /\ callback = "idle" /\ current = 0 /\ fate = << >> /\ seen = "nothing"
        /\ reader = "off"

Alive == exitHow = ""

-----------------------------------------------------------------------------
(* main                                                                    *)

(* ConnectMQTT returns once the broker has answered.                       *)
Connect == /\ pc = "connect"
           /\ pc' = "subscribe"
           /\ UNCHANGED <<exitHow, signals, deviceVars, portVars, commandVars, reader>>

(* The subscription is confirmed, then the signal channel is installed.    *)
Subscribe == /\ pc = "subscribe"
             /\ pc' = "wait_port"
             /\ UNCHANGED <<exitHow, signals, deviceVars, portVars, commandVars, reader>>

(* WaitForSerial is called again and again until the device file is there. *)
WaitForSerial == /\ pc = "wait_port"
                 /\ plugged
                 /\ pc' = "alive"
                 /\ UNCHANGED <<exitHow, signals, deviceVars, portVars, commandVars, reader>>

StartCli == /\ pc \in CliPhases
            /\ ~cli
            /\ cli' = TRUE
            /\ UNCHANGED <<mainVars, manager, portOpen, lock, deviceVars, commandVars, reader>>

EndCliEarly == /\ pc \in CliPhases
               /\ pc' \in AfterCli(pc)
               /\ UNCHANGED <<exitHow, signals, cli, manager, portOpen, lock, deviceVars, commandVars, reader>>
(* CombinedOutput waits for the process.                                   *)
EndCli == /\ cli
          /\ cli' = FALSE
          /\ pc' \in AfterCli(pc)
          /\ UNCHANGED <<exitHow, signals, manager, portOpen, lock, deviceVars, commandVars, reader>>

(* The alive message is sent only when configured, the local node's info   *)
(* may come from the cache, and meshtastic-go may not be installed.        *)
SkipCli == /\ pc \in CliPhases /\ ~cli
           /\ pc' \in AfterCli(pc)
           /\ UNCHANGED <<exitHow, signals, deviceVars, portVars, commandVars, reader>>

(* OpenManager; when it fails log.Fatalf ends the process at once, and no  *)
(* deferred call runs.                                                     *)
OpenPort == /\ pc = "open_port"
            /\ \/ /\ plugged
                  /\ manager' = TRUE /\ portOpen' = TRUE
                  /\ pc' = "running" /\ reader' = "starting"
                  /\ UNCHANGED exitHow
               \/ /\ pc' = "exited" /\ exitHow' = "fatal"
                  /\ UNCHANGED <<manager, portOpen, reader>>
            /\ UNCHANGED <<signals, cli, lock, deviceVars, commandVars>>

ReceiveSignal == /\ pc = "running"
                 /\ signals > 0
                 /\ signals' = 0
                 /\ pc' = "close_port"
                 /\ UNCHANGED <<exitHow, deviceVars, portVars, commandVars, reader>>

(* The deferred calls, last one first: portMgr.Close under the mutex, then *)
(* client.Disconnect and nodeStore.Close.                                  *)
ClosePortUnlocked ==
             /\ pc = "close_port"
             /\ portOpen' = FALSE
             /\ pc' = "disconnect"
             /\ UNCHANGED <<exitHow, signals, cli, manager, lock, deviceVars, commandVars, reader>>
ClosePortForgetsManager ==
             /\ pc = "close_port"
             /\ lock = "free"
             /\ portOpen' = FALSE /\ manager' = FALSE
             /\ pc' = "disconnect"
             /\ UNCHANGED <<exitHow, signals, cli, lock, deviceVars, commandVars, reader>>
ClosePort == /\ pc = "close_port"
             /\ lock = "free"
             /\ portOpen' = FALSE
             /\ pc' = "disconnect"
             /\ UNCHANGED <<exitHow, signals, cli, manager, lock, deviceVars, commandVars, reader>>

Disconnect == /\ pc = "disconnect"
              /\ pc' = "exited" /\ exitHow' = "clean"
              /\ UNCHANGED <<signals, deviceVars, portVars, commandVars, reader>>

Main == Connect \/ Subscribe \/ WaitForSerial \/ StartCli \/ EndCli \/ SkipCli
        \/ OpenPort \/ ReceiveSignal \/ ClosePort \/ Disconnect

-----------------------------------------------------------------------------
(* The command callback                                                    *)

Settle(c, f) == fate' = [fate EXCEPT ![c] = f]

Busy == {"calling", "locked", "writing"}

(* The next command is taken; portMgr is looked at before anything else.   *)
(* Main writes the variable without synchronisation (a data race): until   *)
(* the callback has seen the manager it may still read nil, and until it   *)
(* has seen the port in it, the manager may still look empty.              *)
TakeCommand ==
  /\ Alive /\ callback = "idle"
  /\ \E c \in 1..Len(fate) :
       /\ fate[c] = "queued" /\ \A d \in 1..c - 1 : fate[d] # "queued"
       /\ \/ /\ manager
             /\ callback' = "calling" /\ current' = c
             /\ seen' = IF seen = "nothing" THEN "manager" ELSE seen
             /\ UNCHANGED fate
          \/ /\ ~manager \/ seen = "nothing"
             /\ Settle(c, "dropped")
             /\ UNCHANGED <<callback, current, seen>>
  /\ UNCHANGED <<mainVars, deviceVars, portVars, reader>>

Lock == /\ Alive /\ callback = "calling"
        /\ lock = "free"
        /\ lock' = "callback" /\ callback' = "locked"
        /\ UNCHANGED <<mainVars, deviceVars, cli, manager, portOpen, current, fate, seen, reader>>

(* A port closed in the meantime is an error.                              *)
CheckPort == /\ Alive /\ callback = "locked"
             /\ \/ /\ portOpen
                   /\ callback' = "writing" /\ seen' = "port"
                   /\ UNCHANGED <<lock, fate, current>>
                \/ /\ ~portOpen \/ seen # "port"
                   /\ Settle(current, "failed")
                   /\ callback' = "idle" /\ current' = 0 /\ lock' = "free"
                   /\ UNCHANGED seen
             /\ UNCHANGED <<mainVars, deviceVars, cli, manager, portOpen, reader>>

(* The frame is written; without the device that was there when the port   *)
(* was opened the write fails.                                             *)
EndWriteKeepingLock ==
            /\ Alive /\ callback = "writing"
            /\ Settle(current, IF ~dead THEN "written" ELSE "failed")
            /\ callback' = "idle" /\ current' = 0
            /\ UNCHANGED <<mainVars, deviceVars, portVars, seen, reader>>
EndWrite == /\ Alive /\ callback = "writing"
            /\ Settle(current, IF ~dead THEN "written" ELSE "failed")
            /\ callback' = "idle" /\ current' = 0 /\ lock' = "free"
            /\ UNCHANGED <<mainVars, deviceVars, cli, manager, portOpen, seen, reader>>

Callback == TakeCommand \/ Lock \/ CheckPort \/ EndWrite

-----------------------------------------------------------------------------
(* The reading goroutine starts some time after main has gone on; it takes *)
(* the port out of the manager without the mutex.  Should Close come first *)
(* (main sleeps for a second before), the read from nil ends the process.  *)
StartReader == /\ Alive /\ reader = "starting"
               /\ IF portOpen THEN reader' = "reading" /\ UNCHANGED mainVars
                  ELSE /\ reader' = "no_port"
                       /\ pc' = "exited" /\ exitHow' = "panic" /\ UNCHANGED signals
               /\ UNCHANGED <<deviceVars, portVars, commandVars>>

(* The world                                                               *)

(* Commands may come as soon as the broker has seen the subscription.      *)
Publish == /\ Alive /\ pc # "connect"
           /\ Len(fate) < MaxCommands
           /\ fate' = Append(fate, "queued")
           /\ UNCHANGED <<mainVars, deviceVars, portVars, callback, current, seen, reader>>

SignalUnbounded ==
          /\ Alive
          /\ IF pc \in {"connect", "subscribe"}
             THEN pc' = "exited" /\ exitHow' = "killed" /\ UNCHANGED signals
             ELSE signals' = signals + 1 /\ UNCHANGED <<pc, exitHow>>
          /\ UNCHANGED <<deviceVars, portVars, commandVars, reader>>
(* Before signal.Notify a signal kills the process; later it waits in the  *)
(* channel, and a second one is lost.                                      *)
Signal == /\ Alive
          /\ IF pc \in {"connect", "subscribe"}
             THEN pc' = "exited" /\ exitHow' = "killed" /\ UNCHANGED signals
             ELSE signals = 0 /\ signals' = 1 /\ UNCHANGED <<pc, exitHow>>
          /\ UNCHANGED <<deviceVars, portVars, commandVars, reader>>

Plug == /\ ~plugged
        /\ plugged' = TRUE
        /\ UNCHANGED <<mainVars, unplugs, dead, portVars, commandVars, reader>>

(* The port of the manager is never opened again.                          *)
Unplug == /\ plugged /\ unplugs < MaxUnplugs
          /\ plugged' = FALSE /\ unplugs' = unplugs + 1
          /\ dead' = (dead \/ portOpen)
          /\ UNCHANGED <<mainVars, portVars, commandVars, reader>>

Next == Main \/ Callback \/ StartReader \/ Publish \/ Signal \/ Plug \/ Unplug

Spec == Init /\ [][Next]_vars

(* Every goroutine that can run does: main, the callback, the reader; a    *)
(* meshtastic-go process and a write to the port end.  The world owes      *)
(* nothing: no device, no command and no signal need come.                 *)
FairSpec == Spec /\ WF_vars(Main) /\ WF_vars(Callback) /\ WF_vars(StartReader)

-----------------------------------------------------------------------------
Phases == {"connect", "subscribe", "wait_port", "alive", "info", "local_info", "node_list",
           "export", "welcome", "open_port", "running", "close_port", "disconnect", "exited"}

TypeOK == /\ pc \in Phases
          /\ exitHow \in {"", "killed", "fatal", "panic", "clean"}
          /\ signals \in 0..1
          /\ plugged \in BOOLEAN /\ unplugs \in 0..MaxUnplugs /\ dead \in BOOLEAN
          /\ cli \in BOOLEAN /\ manager \in BOOLEAN /\ portOpen \in BOOLEAN
          /\ lock \in {"free", "callback"}
          /\ callback \in {"idle"} \cup Busy
          /\ fate \in Seq(Fates) /\ Len(fate) <= MaxCommands
          /\ current \in 0..Len(fate)
          /\ seen \in {"nothing", "manager", "port"}
          /\ reader \in {"off", "starting", "reading", "no_port"}

(* manager.go 16: the manager has the port for itself.  meshtastic-go,     *)
(* which opens the port too, never runs while the manager has it open      *)
(* (main.go 171-237).                                                      *)
ExclusivePort == ~(cli /\ portOpen)

(* A command is written only to an open port and under the mutex: Close,   *)
(* called by main at any moment, neither closes the port under a write nor *)
(* leaves the callback with a port that is nil (manager.go 39-48, 64-69).  *)
NoWriteAfterClose == callback = "writing" => portOpen /\ lock = "callback"

(* Towards those who publish commands the program is a Forwarder: whatever *)
(* phase main is in and whatever the callback has seen of it, commands are *)
(* settled once and in order, written only from OpenManager until Close or *)
(* the loss of the device, and dropped only before the first is handed on; *)
(* once one was written, a failure means that none will be written again,  *)
(* even when the device is back (main.go 122-148, manager.go 29-101).      *)
Gate == IF portOpen /\ ~dead THEN "open" ELSE IF manager THEN "closed" ELSE "before"

Forwarding == INSTANCE Forwarder WITH gate <- Gate
ImplementsForwarder == Forwarding!Spec

(* Once the device is there, a signal ends the program: whatever phase of  *)
(* the start-up it meets, and although Close needs the mutex that the      *)
(* callback may hold (main.go 158-159, 289-292).                           *)
ShutsDownOncePlugged ==
  (signals > 0 /\ pc # "wait_port") ~> pc = "exited"

(* Every command taken over is settled while the program lives: no path of *)
(* the callback keeps the mutex (main.go 122-148, manager.go 64-101).      *)
CommandsSettled ==
  \A c \in 1..MaxCommands :
    (c <= Len(fate) /\ fate[c] = "queued") ~> (~Alive \/ (c <= Len(fate) /\ fate[c] # "queued" /\ current # c))
=============================================================================
