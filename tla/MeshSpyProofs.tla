----------------------------- MODULE MeshSpyProofs -----------------------------
(***************************************************************************)
(* Safety of the program's life for any number of commands and unplugs.    *)
(* The port is exclusive because main is at one place at a time: while a   *)
(* meshtastic-go process runs main waits for it, and the manager's port is *)
(* open only between OpenManager and Close.  A write meets an open port    *)
(* because the callback, from its look at the port to the end of the       *)
(* write, holds the mutex that Close needs.                                *)
(***************************************************************************)
EXTENDS MeshSpy, TLAPS

USE BoundsAssumption

(* Where main goes after a phase in which it runs meshtastic-go.           *)
LEMMA PhasesTyped ==
  /\ CliPhases = {"alive", "info", "local_info", "node_list", "export", "welcome"}
  /\ \A p \in CliPhases : AfterCli(p) \subseteq {"info", "local_info", "node_list", "export", "welcome", "open_port"}
<1>1. CliPhases = {"alive", "info", "local_info", "node_list", "export", "welcome"}
  BY DEF CliPhases, Following
<1>2. \A p \in CliPhases : AfterCli(p) \subseteq {"info", "local_info", "node_list", "export", "welcome", "open_port"}
  BY <1>1 DEF AfterCli, Following
<1> QED BY <1>1, <1>2

(* The effect of a command's settlement on the list of fates.              *)
LEMMA SettleEffect ==
  ASSUME fate \in Seq(Fates), NEW c \in 1..Len(fate), NEW f \in Fates, Settle(c, f)
  PROVE  /\ fate' \in Seq(Fates) /\ Len(fate') = Len(fate)
         /\ fate'[c] = f
         /\ \A d \in 1..Len(fate) : d # c => fate'[d] = fate[d]
  BY DEF Settle

-----------------------------------------------------------------------------
(* What a step does to one group of variables, whatever the state.         *)

LEMMA SignalStep == [Next]_vars => UNCHANGED signals \/ signals' \in {0, 1}
  BY DEF Next, Main, Connect, Subscribe, WaitForSerial, StartCli, EndCli, SkipCli, OpenPort, ReceiveSignal, ClosePort, Disconnect,
         Callback, TakeCommand, Lock, CheckPort, EndWrite, StartReader, Publish, Signal, Plug, Unplug, vars, mainVars

LEMMA UnplugStep == [Next]_vars => UNCHANGED unplugs \/ (unplugs < MaxUnplugs /\ unplugs' = unplugs + 1)
  BY DEF Next, Main, Connect, Subscribe, WaitForSerial, StartCli, EndCli, SkipCli, OpenPort, ReceiveSignal, ClosePort, Disconnect,
         Callback, TakeCommand, Lock, CheckPort, EndWrite, StartReader, Publish, Signal, Plug, Unplug, vars, deviceVars

LEMMA FateStep ==
  [Next]_vars =>
    \/ UNCHANGED fate /\ (UNCHANGED current \/ current' \in 1..Len(fate))
    \/ fate' = Append(fate, "queued") /\ Len(fate) < MaxCommands /\ UNCHANGED current
    \/ \E c \in 1..Len(fate) : Settle(c, "dropped") /\ UNCHANGED current
    \/ callback \in {"locked", "writing"} /\ current' = 0 /\ \E f \in {"written", "failed"} : Settle(current, f)
  BY DEF Next, Main, Connect, Subscribe, WaitForSerial, StartCli, EndCli, SkipCli, OpenPort, ReceiveSignal, ClosePort, Disconnect,
         Callback, TakeCommand, Lock, CheckPort, EndWrite, StartReader, Publish, Signal, Plug, Unplug, vars, commandVars

-----------------------------------------------------------------------------
(* The strengthening: where main is tells who may have the port open, and  *)
(* where the callback is tells who holds the mutex.                        *)
MainWaits == cli => pc \in CliPhases

OpenWhileRunning == /\ portOpen <=> pc \in {"running", "close_port"}
                    /\ portOpen => manager
                    /\ reader # "off" => manager
                    /\ dead => manager
                    /\ manager => pc \in {"running", "close_port", "disconnect", "exited"}

MutexHeld == /\ lock = "callback" <=> callback \in {"locked", "writing"}
             /\ callback = "writing" => portOpen

BusyWithOne == callback # "idle" => current \in 1..Len(fate)

Held == TypeOK /\ MainWaits /\ OpenWhileRunning /\ MutexHeld /\ BusyWithOne

(* The variables without numbers stay in their ranges.                     *)
LEMMA MainTyped ==
  ASSUME TypeOK, MainWaits, [Next]_vars
  PROVE  pc' \in Phases /\ exitHow' \in {"", "killed", "fatal", "panic", "clean"}
<1> USE DEF TypeOK, Phases, mainVars
<1>1. CASE StartCli \/ EndCli \/ SkipCli
  <2>1. pc' = pc \/ pc' \in {"info", "local_info", "node_list", "export", "welcome", "open_port"}
    BY <1>1, PhasesTyped DEF StartCli, EndCli, SkipCli, MainWaits
  <2>2. UNCHANGED exitHow
    BY <1>1 DEF StartCli, EndCli, SkipCli
  <2> QED BY <2>1, <2>2
<1>2. CASE Connect \/ Subscribe \/ WaitForSerial \/ OpenPort \/ ReceiveSignal \/ ClosePort \/ Disconnect
  BY <1>2 DEF Connect, Subscribe, WaitForSerial, OpenPort, ReceiveSignal, ClosePort, Disconnect
<1>3. CASE Callback \/ StartReader \/ Publish \/ Signal \/ Plug \/ Unplug \/ UNCHANGED vars
  BY <1>3 DEF Callback, TakeCommand, Lock, CheckPort, EndWrite, StartReader, Publish, Signal, Plug, Unplug, vars
<1> QED BY <1>1, <1>2, <1>3 DEF Next, Main

LEMMA PortTyped ==
  ASSUME TypeOK, [Next]_vars
  PROVE  /\ plugged' \in BOOLEAN
         /\ dead' \in BOOLEAN
         /\ cli' \in BOOLEAN /\ manager' \in BOOLEAN /\ portOpen' \in BOOLEAN
         /\ lock' \in {"free", "callback"}
         /\ callback' \in {"idle"} \cup Busy
         /\ seen' \in {"nothing", "manager", "port"}
         /\ reader' \in {"off", "starting", "reading", "no_port"}
<1> USE DEF TypeOK, Busy, portVars, deviceVars, commandVars
<1>1. CASE Main
  BY <1>1 DEF Main, Connect, Subscribe, WaitForSerial, StartCli, EndCli, SkipCli, OpenPort, ReceiveSignal, ClosePort, Disconnect
<1>2. CASE TakeCommand
  BY <1>2 DEF TakeCommand
<1>3. CASE Lock \/ EndWrite
  BY <1>3 DEF Lock, EndWrite
<1>4. CASE CheckPort
  BY <1>4 DEF CheckPort
<1>5. CASE StartReader \/ Publish \/ Signal
  BY <1>5, ZenonT(30) DEF StartReader, Publish, Signal
<1>6. CASE Plug \/ Unplug \/ UNCHANGED vars
  BY <1>6, ZenonT(30) DEF Plug, Unplug, vars
<1> QED BY <1>1, <1>2, <1>3, <1>4, <1>5, <1>6 DEF Next, Callback

(* So do the list of fates and the command under way.                      *)
LEMMA FatesTyped ==
  ASSUME fate \in Seq(Fates), Len(fate) <= MaxCommands, current \in 0..Len(fate),
         callback \in {"locked", "writing"} => current \in 1..Len(fate),
         [Next]_vars
  PROVE  fate' \in Seq(Fates) /\ Len(fate') <= MaxCommands /\ current' \in 0..Len(fate')
<1>1. CASE UNCHANGED fate /\ (UNCHANGED current \/ current' \in 1..Len(fate))
  BY <1>1
<1>2. CASE fate' = Append(fate, "queued") /\ Len(fate) < MaxCommands /\ UNCHANGED current
  BY <1>2 DEF Fates
<1>3. ASSUME NEW c \in 1..Len(fate), NEW f \in Fates, Settle(c, f), current' \in {current, 0}
      PROVE  fate' \in Seq(Fates) /\ Len(fate') <= MaxCommands /\ current' \in 0..Len(fate')
  BY <1>3, SettleEffect
<1> QED BY <1>1, <1>2, <1>3, FateStep DEF Fates

LEMMA TypeStep ==
  ASSUME Held, [Next]_vars
  PROVE  TypeOK'
<1>1. pc' \in Phases /\ exitHow' \in {"", "killed", "fatal", "panic", "clean"}
  BY MainTyped DEF Held
<1>2. signals' \in 0..1
  <2>1. signals \in 0..1
    BY DEF Held, TypeOK
  <2> QED BY <2>1, SignalStep
<1>3. unplugs' \in 0..MaxUnplugs
  <2>1. unplugs \in 0..MaxUnplugs
    BY DEF Held, TypeOK
  <2> QED BY <2>1, UnplugStep
<1>4. fate' \in Seq(Fates) /\ Len(fate') <= MaxCommands /\ current' \in 0..Len(fate')
  <2>1. /\ fate \in Seq(Fates) /\ Len(fate) <= MaxCommands /\ current \in 0..Len(fate)
        /\ callback \in {"locked", "writing"} => current \in 1..Len(fate)
    BY DEF Held, TypeOK, BusyWithOne
  <2> QED BY <2>1, FatesTyped
<1> QED BY <1>1, <1>2, <1>3, <1>4, PortTyped DEF Held, TypeOK

(* Main waits for every meshtastic-go process it starts.                   *)
LEMMA MainKeepsWaiting ==
  ASSUME Held, [Next]_vars
  PROVE  MainWaits'
<1> USE PhasesTyped DEF Held, MainWaits, mainVars, portVars
<1>1. CASE StartCli
  BY <1>1 DEF StartCli
<1>2. CASE EndCli \/ SkipCli
  BY <1>2 DEF EndCli, SkipCli
<1>3. CASE Connect \/ Subscribe \/ WaitForSerial \/ OpenPort
  BY <1>3 DEF Connect, Subscribe, WaitForSerial, OpenPort
<1>4. CASE ReceiveSignal \/ ClosePort \/ Disconnect
  BY <1>4 DEF ReceiveSignal, ClosePort, Disconnect
<1>5. CASE Signal
  BY <1>5 DEF Signal
<1>6. CASE StartReader
  <2>1. manager /\ UNCHANGED cli
    BY <1>6 DEF StartReader, OpenWhileRunning
  <2>2. ~cli
    BY <2>1 DEF OpenWhileRunning
  <2> QED BY <2>1, <2>2
<1>7. CASE Callback \/ Publish \/ Plug \/ Unplug \/ UNCHANGED vars
  BY <1>7 DEF Callback, TakeCommand, Lock, CheckPort, EndWrite, Publish, Plug, Unplug, vars
<1> QED BY <1>1, <1>2, <1>3, <1>4, <1>5, <1>6, <1>7 DEF Next, Main

LEMMA OpenStaysInPhase ==
  ASSUME Held, [Next]_vars
  PROVE  OpenWhileRunning'
<1> USE DEF Held, OpenWhileRunning, mainVars, portVars, deviceVars
<1>1. CASE StartCli \/ EndCli \/ SkipCli
  BY <1>1, PhasesTyped DEF StartCli, EndCli, SkipCli, MainWaits
<1>2. CASE Connect \/ Subscribe \/ WaitForSerial
  BY <1>2 DEF Connect, Subscribe, WaitForSerial
<1>3. CASE OpenPort
  BY <1>3 DEF OpenPort
<1>4. CASE ReceiveSignal \/ ClosePort \/ Disconnect
  BY <1>4 DEF ReceiveSignal, ClosePort, Disconnect
<1>5. CASE StartReader \/ Signal
  BY <1>5 DEF StartReader, Signal
<1>6. CASE Callback \/ Publish \/ Plug \/ UNCHANGED vars
  BY <1>6 DEF Callback, TakeCommand, Lock, CheckPort, EndWrite, Publish, Plug, vars
<1>7. CASE Unplug
  <2>1. dead' = (dead \/ portOpen) /\ UNCHANGED <<pc, manager, portOpen, reader>>
    BY <1>7 DEF Unplug
  <2>2. dead' => manager
    BY <2>1, Zenon
  <2> QED BY <2>1, <2>2
<1> QED BY <1>1, <1>2, <1>3, <1>4, <1>5, <1>6, <1>7 DEF Next, Main

LEMMA MutexStaysHeld ==
  ASSUME Held, [Next]_vars
  PROVE  MutexHeld'
<1> USE DEF Held, MutexHeld, portVars, commandVars
<1>1. CASE OpenPort \/ ClosePort
  BY <1>1 DEF OpenPort, ClosePort, OpenWhileRunning
<1>2. CASE Main /\ ~(OpenPort \/ ClosePort)
  BY <1>2 DEF Main, Connect, Subscribe, WaitForSerial, StartCli, EndCli, SkipCli, ReceiveSignal, Disconnect
<1>3. CASE TakeCommand
  BY <1>3 DEF TakeCommand
<1>4. CASE Lock
  BY <1>4 DEF Lock
<1>5. CASE CheckPort
  BY <1>5 DEF CheckPort
<1>6. CASE EndWrite
  BY <1>6 DEF EndWrite
<1>7. CASE StartReader \/ Publish \/ Signal \/ Plug \/ Unplug \/ UNCHANGED vars
  BY <1>7 DEF StartReader, Publish, Signal, Plug, Unplug, vars
<1> QED BY <1>1, <1>2, <1>3, <1>4, <1>5, <1>6, <1>7 DEF Next, Callback

LEMMA BusyStaysWithOne ==
  ASSUME Held, [Next]_vars
  PROVE  BusyWithOne'
<1>1. callback' = "idle" \/ (callback # "idle" /\ UNCHANGED current) \/ (current' \in 1..Len(fate) /\ UNCHANGED fate) \/ UNCHANGED <<callback, current>>
  BY DEF Next, Main, Connect, Subscribe, WaitForSerial, StartCli, EndCli, SkipCli, OpenPort, ReceiveSignal, ClosePort, Disconnect,
         Callback, TakeCommand, Lock, CheckPort, EndWrite, StartReader, Publish, Signal, Plug, Unplug, vars, commandVars
<1>2. fate \in Seq(Fates)
  BY DEF Held, TypeOK
<1>3. Len(fate') \in Nat /\ Len(fate') >= Len(fate)
  BY <1>2, FateStep, SettleEffect DEF Fates, Held, BusyWithOne
<1> QED BY <1>1, <1>2, <1>3 DEF Held, BusyWithOne

LEMMA HeldInvariant == Spec => []Held
<1>1. Init => Held
  <2> SUFFICES ASSUME Init PROVE Held
    OBVIOUS
  <2>1. fate \in Seq(Fates) /\ Len(fate) <= MaxCommands /\ current \in 0..Len(fate) /\ signals \in 0..1 /\ unplugs \in 0..MaxUnplugs
    <3>1. fate = << >> /\ current = 0 /\ signals = 0 /\ unplugs = 0
      BY DEF Init
    <3> QED BY <3>1
  <2>2. TypeOK
    BY <2>1 DEF Init, TypeOK, Phases, Busy
  <2>3. MainWaits /\ OpenWhileRunning /\ MutexHeld /\ BusyWithOne
    BY DEF Init, MainWaits, OpenWhileRunning, MutexHeld, BusyWithOne
  <2> QED BY <2>2, <2>3 DEF Held
<1>2. Held /\ [Next]_vars => Held'
  BY TypeStep, MainKeepsWaiting, OpenStaysInPhase, MutexStaysHeld, BusyStaysWithOne DEF Held
<1> QED BY <1>1, <1>2, PTL DEF Spec

(* Type correctness of the program's state.                                *)
THEOREM TypeCorrect == Spec => []TypeOK
<1>1. Held => TypeOK
  BY DEF Held
<1> QED BY <1>1, HeldInvariant, PTL

(* No meshtastic-go process of main runs while the manager has the port.   *)
THEOREM ExclusivePortCorrect == Spec => []ExclusivePort
<1>1. Held => ExclusivePort
  BY PhasesTyped DEF Held, MainWaits, OpenWhileRunning, ExclusivePort
<1> QED BY <1>1, HeldInvariant, PTL

(* The port is written only while it is open and the mutex is held.        *)
THEOREM NoWriteAfterCloseCorrect == Spec => []NoWriteAfterClose
<1>1. Held => NoWriteAfterClose
  BY DEF Held, MutexHeld, NoWriteAfterClose
<1> QED BY <1>1, HeldInvariant, PTL

-----------------------------------------------------------------------------
(* Forwarding is one interval.  Commands are settled in order; what the    *)
(* callback has seen tells which fates there can be; and a failure behind  *)
(* a write means that the port was closed or its device lost, for good,    *)
(* because main opens it only once.                                        *)
InOrder ==
  /\ \A c, d \in 1..Len(fate) : c < d /\ fate[c] = "queued" => fate[d] = "queued"
  /\ callback # "idle" => /\ fate[current] = "queued"
                          /\ \A d \in 1..Len(fate) : d < current => fate[d] # "queued"

SeenFits ==
  /\ callback # "idle" => seen # "nothing"
  /\ callback = "writing" => seen = "port"
  /\ seen # "nothing" => manager
  /\ \A c \in 1..Len(fate) : /\ fate[c] \in {"written", "failed"} => seen # "nothing"
                             /\ fate[c] = "written" => seen = "port"

ClosedForGood ==
  \A c, d \in 1..Len(fate) :
    c < d /\ fate[c] = "written" /\ fate[d] = "failed" => ~portOpen \/ dead

(* Forwarding is one interval of the program's life: once a command was    *)
(* handed to the manager no later one is refused for want of it, and       *)
(* nothing is written any more after a write was followed by a failure,    *)
(* for that comes only from Close or from the loss of the device, whether  *)
(* it is plugged in again or not (main.go 122-148, manager.go 29-69).      *)
ForwardingIsOneInterval ==
  \A c, d \in 1..Len(fate) :
    c < d =>
      /\ fate[c] \in {"written", "failed"} => fate[d] # "dropped"
      /\ fate[c] = "written" /\ fate[d] = "failed" =>
           \A e \in d..Len(fate) : fate[e] # "written"

OneInterval == InOrder /\ SeenFits /\ ClosedForGood /\ ForwardingIsOneInterval

(* A step that is not the callback's leaves the fates or queues a command, *)
(* and opens the port only where there was no manager.                     *)
LEMMA OtherStep ==
  ASSUME Held, [Next]_vars, ~Callback
  PROVE  /\ UNCHANGED <<callback, current, seen>>
         /\ UNCHANGED fate \/ fate' = Append(fate, "queued")
         /\ manager => manager'
         /\ ~portOpen /\ manager => ~portOpen'
         /\ dead => dead'
<1>1. /\ UNCHANGED <<callback, current, seen>>
      /\ UNCHANGED fate \/ fate' = Append(fate, "queued")
  BY DEF Next, Main, Connect, Subscribe, WaitForSerial, StartCli, EndCli, SkipCli, OpenPort, ReceiveSignal, ClosePort, Disconnect,
         StartReader, Publish, Signal, Plug, Unplug, vars, commandVars
<1>2. (manager => manager') /\ (~portOpen /\ manager => ~portOpen')
  BY DEF Next, Main, Connect, Subscribe, WaitForSerial, StartCli, EndCli, SkipCli, OpenPort, ReceiveSignal, ClosePort, Disconnect,
         StartReader, Publish, Signal, Plug, Unplug, vars, portVars, Held, OpenWhileRunning
<1>3. dead => dead'
  BY DEF Next, Main, Connect, Subscribe, WaitForSerial, StartCli, EndCli, SkipCli, OpenPort, ReceiveSignal, ClosePort, Disconnect,
         StartReader, Publish, Signal, Plug, Unplug, vars, deviceVars
<1> QED BY <1>1, <1>2, <1>3

LEMMA OtherKeepsInterval ==
  ASSUME Held, OneInterval, [Next]_vars, ~Callback
  PROVE  OneInterval'
<1>1. fate \in Seq(Fates) /\ (callback # "idle" => current \in 1..Len(fate))
  BY DEF Held, TypeOK, BusyWithOne
<1>2. /\ Len(fate') >= Len(fate) /\ Len(fate') \in Nat
      /\ \A c \in 1..Len(fate') : fate'[c] = "queued" \/ (c \in 1..Len(fate) /\ fate'[c] = fate[c])
      /\ \A c \in 1..Len(fate) : fate'[c] = fate[c]
      /\ \A c \in 1..Len(fate') : c \notin 1..Len(fate) => fate'[c] = "queued"
  BY <1>1, OtherStep
<1>3. InOrder'
  <2>1. \A c, d \in 1..Len(fate') : c < d /\ fate'[c] = "queued" => fate'[d] = "queued"
    BY <1>1, <1>2 DEF OneInterval, InOrder
  <2>2. callback' # "idle" => fate'[current'] = "queued" /\ \A d \in 1..Len(fate') : d < current' => fate'[d] # "queued"
    BY <1>1, <1>2, OtherStep DEF OneInterval, InOrder
  <2> QED BY <2>1, <2>2 DEF InOrder
<1>4. SeenFits'
  BY <1>2, OtherStep DEF OneInterval, SeenFits
<1>5. ClosedForGood'
  <2> SUFFICES ASSUME NEW c \in 1..Len(fate'), NEW d \in 1..Len(fate'),
                      c < d, fate'[c] = "written", fate'[d] = "failed"
               PROVE  ~portOpen' \/ dead'
    BY DEF ClosedForGood
  <2>1. /\ c \in 1..Len(fate) /\ d \in 1..Len(fate) /\ fate[c] = "written" /\ fate[d] = "failed"
    BY <1>2
  <2>2. ~portOpen \/ dead
    BY <2>1, OtherStep DEF OneInterval, ClosedForGood
  <2>3. manager
    BY <2>1 DEF OneInterval, SeenFits
  <2> QED BY <2>2, <2>3, OtherStep
<1>6. ForwardingIsOneInterval'
  BY <1>2, OtherStep DEF OneInterval, ForwardingIsOneInterval
<1> QED BY <1>3, <1>4, <1>5, <1>6 DEF OneInterval

(* One command is settled, in its turn: the fates of the commands before   *)
(* it are known and those behind it still queued.                          *)
LEMMA SettleKeepsInterval ==
  ASSUME fate \in Seq(Fates), OneInterval,
         NEW c \in 1..Len(fate), NEW f \in {"written", "failed", "dropped"}, Settle(c, f),
         fate[c] = "queued", \A d \in 1..Len(fate) : d < c => fate[d] # "queued",
         callback' = "idle", UNCHANGED seen, UNCHANGED dead, UNCHANGED manager, UNCHANGED portOpen,
         f = "dropped" => \A d \in 1..Len(fate) : fate[d] \notin {"written", "failed"},
         f = "written" => seen = "port" /\ portOpen /\ ~dead,
         f = "failed"  => /\ seen # "nothing"
                          /\ \A d \in 1..Len(fate) : fate[d] = "written" => ~portOpen \/ dead
  PROVE  InOrder' /\ SeenFits' /\ ClosedForGood' /\ ForwardingIsOneInterval'
<1>1. /\ Len(fate') = Len(fate) /\ Len(fate) \in Nat
      /\ fate'[c] = f /\ \A d \in 1..Len(fate) : d # c => fate'[d] = fate[d]
      /\ \A d \in 1..Len(fate) : c < d => fate[d] = "queued"
  BY SettleEffect DEF Fates, OneInterval, InOrder
<1>2. InOrder'
  BY <1>1 DEF OneInterval, InOrder
<1>3. SeenFits'
  BY <1>1 DEF OneInterval, SeenFits
<1>4. ClosedForGood'
  BY <1>1 DEF OneInterval, ClosedForGood
<1>5. ForwardingIsOneInterval'
  <2>1. ASSUME NEW a \in 1..Len(fate'), NEW d \in 1..Len(fate'), a < d, fate'[a] \in {"written", "failed"}
        PROVE  fate'[d] # "dropped"
    BY <1>1, <2>1 DEF OneInterval, ForwardingIsOneInterval
  <2>2. ASSUME NEW a \in 1..Len(fate'), NEW d \in 1..Len(fate'), NEW e \in d..Len(fate'),
               a < d, fate'[a] = "written", fate'[d] = "failed", fate'[e] = "written"
        PROVE  FALSE
    <3>1. e \in 1..Len(fate) /\ d < e
      BY <1>1, <2>2
    <3>2. CASE e = c
      BY <1>1, <2>2, <3>1, <3>2 DEF OneInterval, ClosedForGood
    <3>3. CASE e # c
      BY <1>1, <2>2, <3>1, <3>3 DEF OneInterval, ForwardingIsOneInterval
    <3> QED BY <3>2, <3>3
  <2> QED BY <2>1, <2>2 DEF ForwardingIsOneInterval
<1> QED BY <1>2, <1>3, <1>4, <1>5

LEMMA CallbackKeepsInterval ==
  ASSUME Held, OneInterval, [Next]_vars, Callback
  PROVE  OneInterval'
<1>1. fate \in Seq(Fates) /\ (callback # "idle" => current \in 1..Len(fate))
  BY DEF Held, TypeOK, BusyWithOne
<1>2. UNCHANGED <<manager, portOpen, dead>>
  BY DEF Callback, TakeCommand, Lock, CheckPort, EndWrite, portVars, deviceVars
<1> SUFFICES InOrder' /\ SeenFits' /\ ClosedForGood' /\ ForwardingIsOneInterval'
  BY DEF OneInterval
<1>3. CASE TakeCommand /\ UNCHANGED fate
  BY <1>1, <1>2, <1>3 DEF TakeCommand, Settle, OneInterval, InOrder, SeenFits, ClosedForGood, ForwardingIsOneInterval
<1>4. CASE TakeCommand /\ fate' # fate
  <2>1. PICK c \in 1..Len(fate) : /\ fate[c] = "queued" /\ \A d \in 1..c - 1 : fate[d] # "queued"
                                  /\ ~manager \/ seen = "nothing"
                                  /\ Settle(c, "dropped") /\ UNCHANGED <<callback, current, seen>>
    BY <1>4 DEF TakeCommand
  <2>2. \A d \in 1..Len(fate) : fate[d] \notin {"written", "failed"}
    BY <2>1 DEF OneInterval, SeenFits
  <2>3. \A d \in 1..Len(fate) : d < c => fate[d] # "queued"
    BY <1>1, <2>1
  <2>4. callback' = "idle"
    BY <1>4, <2>1 DEF TakeCommand
  <2> QED BY <1>1, <1>2, <2>1, <2>2, <2>3, <2>4, SettleKeepsInterval
<1>5. CASE Lock
  BY <1>1, <1>2, <1>5 DEF Lock, OneInterval, InOrder, SeenFits, ClosedForGood, ForwardingIsOneInterval
<1>6. CASE CheckPort /\ UNCHANGED fate
  BY <1>1, <1>2, <1>6 DEF CheckPort, Settle, OneInterval, InOrder, SeenFits, ClosedForGood, ForwardingIsOneInterval
<1>7. CASE CheckPort /\ fate' # fate
  <2>1. /\ ~portOpen \/ seen # "port"
        /\ Settle(current, "failed") /\ callback' = "idle" /\ UNCHANGED seen /\ callback = "locked"
    BY <1>7 DEF CheckPort
  <2>2. \A d \in 1..Len(fate) : fate[d] = "written" => ~portOpen
    BY <2>1 DEF OneInterval, SeenFits
  <2>3. seen # "nothing" /\ fate[current] = "queued" /\ \A d \in 1..Len(fate) : d < current => fate[d] # "queued"
    BY <2>1 DEF OneInterval, SeenFits, InOrder
  <2> QED BY <1>1, <1>2, <2>1, <2>2, <2>3, SettleKeepsInterval
<1>8. CASE EndWrite
  <2>1. callback = "writing" /\ callback' = "idle" /\ UNCHANGED seen
    BY <1>8 DEF EndWrite
  <2>2. portOpen /\ seen = "port" /\ fate[current] = "queued" /\ \A d \in 1..Len(fate) : d < current => fate[d] # "queued"
    BY <2>1 DEF Held, MutexHeld, OneInterval, SeenFits, InOrder
  <2>3. CASE ~dead
    <3>1. Settle(current, "written")
      BY <1>8, <2>3 DEF EndWrite
    <3> QED BY <1>1, <1>2, <2>1, <2>2, <2>3, <3>1, SettleKeepsInterval
  <2>4. CASE dead
    <3>1. Settle(current, "failed")
      BY <1>8, <2>4 DEF EndWrite
    <3> QED BY <1>1, <1>2, <2>1, <2>2, <2>4, <3>1, SettleKeepsInterval
  <2> QED BY <2>3, <2>4
<1> QED BY <1>3, <1>4, <1>5, <1>6, <1>7, <1>8 DEF Callback

LEMMA OneIntervalInvariant == Spec => []OneInterval
<1>1. Init => OneInterval
  <2> SUFFICES ASSUME Init PROVE OneInterval
    OBVIOUS
  <2>1. 1..Len(fate) = {}
    <3>1. fate = << >>
      BY DEF Init
    <3> QED BY <3>1
  <2>2. InOrder /\ SeenFits /\ ClosedForGood /\ ForwardingIsOneInterval
    BY <2>1 DEF Init, InOrder, SeenFits, ClosedForGood, ForwardingIsOneInterval
  <2> QED BY <2>2 DEF OneInterval
<1>2. Held /\ OneInterval /\ [Next]_vars => OneInterval'
  BY OtherKeepsInterval, CallbackKeepsInterval
<1> QED BY <1>1, <1>2, HeldInvariant, PTL DEF Spec

(* Forwarding is one interval of the program's life, for any number of     *)
(* commands and of unplugs.                                                *)
THEOREM ForwardingCorrect == Spec => []ForwardingIsOneInterval
<1>1. OneInterval => ForwardingIsOneInterval
  BY DEF OneInterval
<1> QED BY <1>1, OneIntervalInvariant, PTL

-----------------------------------------------------------------------------
(* The program implements Forwarder.  The way to the device is opened      *)
(* where there was no manager and closed where it was open; what else      *)
(* moves is the fate of the oldest command that waits, and what the        *)
(* callback has seen of main says whether it may be dropped or fail.       *)

(* Which steps move the gate.                                              *)
LEMMA GateStep ==
  ASSUME Held, [Next]_vars
  PROVE  \/ UNCHANGED Gate
         \/ Gate = "before" /\ Gate' = "open" /\ UNCHANGED fate
         \/ Gate = "open" /\ Gate' = "closed" /\ UNCHANGED fate
<1>1. CASE OpenPort
  <2>1. ~manager /\ ~portOpen /\ ~dead /\ UNCHANGED <<fate, dead>>
    BY <1>1 DEF OpenPort, Held, OpenWhileRunning, commandVars, deviceVars
  <2>2. (manager' /\ portOpen') \/ UNCHANGED <<manager, portOpen>>
    BY <1>1 DEF OpenPort
  <2> QED BY <2>1, <2>2 DEF Gate
<1>2. CASE ClosePort
  <2>1. portOpen /\ manager /\ UNCHANGED <<fate, dead>>
    BY <1>2 DEF ClosePort, Held, OpenWhileRunning, commandVars, deviceVars
  <2>2. ~portOpen' /\ UNCHANGED manager
    BY <1>2 DEF ClosePort
  <2> QED BY <2>1, <2>2 DEF Gate
<1>3. CASE Unplug
  <2>1. UNCHANGED <<manager, portOpen, fate>> /\ dead' = (dead \/ portOpen)
    BY <1>3 DEF Unplug, portVars, commandVars
  <2>2. portOpen => manager
    BY DEF Held, OpenWhileRunning
  <2> QED BY <2>1, <2>2 DEF Gate
<1>4. CASE ~(OpenPort \/ ClosePort \/ Unplug)
  <2>1. UNCHANGED <<manager, portOpen, dead>>
    BY <1>4 DEF Next, Main, Connect, Subscribe, WaitForSerial, StartCli, EndCli, SkipCli, ReceiveSignal, Disconnect,
         Callback, TakeCommand, Lock, CheckPort, EndWrite, StartReader, Publish, Signal, Plug, vars, portVars, deviceVars
  <2> QED BY <2>1 DEF Gate
<1> QED BY <1>1, <1>2, <1>3, <1>4

(* The callback settles the oldest command that waits.                     *)
LEMMA CallbackForwards ==
  ASSUME Held, OneInterval, Callback
  PROVE  UNCHANGED fate \/ Forwarding!Drop \/ Forwarding!Write \/ Forwarding!Fail
<1>1. fate \in Seq(Fates) /\ (callback # "idle" => current \in 1..Len(fate))
  BY DEF Held, TypeOK, BusyWithOne
<1>2. UNCHANGED Gate
  BY DEF Callback, TakeCommand, Lock, CheckPort, EndWrite, portVars, deviceVars, Gate
<1>3. ASSUME NEW c \in 1..Len(fate), NEW f, Settle(c, f), fate[c] = "queued",
             \A d \in 1..c - 1 : fate[d] # "queued"
      PROVE  Forwarding!Settle(f)
  <2>1. DOMAIN fate = 1..Len(fate)
    BY <1>1
  <2>2. fate' = [fate EXCEPT ![c] = f]
    BY <1>3 DEF Settle
  <2> QED BY <1>2, <1>3, <2>1, <2>2, Zenon DEF Forwarding!Settle
<1>4. ASSUME callback # "idle", NEW f, Settle(current, f)
      PROVE  Forwarding!Settle(f)
  <2>1. current \in 1..Len(fate) /\ fate[current] = "queued"
    BY <1>1, <1>4 DEF OneInterval, InOrder
  <2>2. \A d \in 1..current - 1 : fate[d] # "queued"
    BY <1>1, <1>4 DEF OneInterval, InOrder
  <2> QED BY <1>3, <1>4, <2>1, <2>2
<1>5. CASE TakeCommand /\ fate' # fate
  <2>1. PICK c \in 1..Len(fate) : /\ fate[c] = "queued" /\ \A d \in 1..c - 1 : fate[d] # "queued"
                                  /\ ~manager \/ seen = "nothing"
                                  /\ Settle(c, "dropped")
    BY <1>5 DEF TakeCommand
  <2>2. \A d \in DOMAIN fate : fate[d] \notin {"written", "failed"}
    BY <1>1, <2>1 DEF OneInterval, SeenFits
  <2> QED BY <1>3, <2>1, <2>2 DEF Forwarding!Drop, Forwarding!HandedOn
<1>6. CASE CheckPort /\ fate' # fate
  <2>1. callback # "idle" /\ Settle(current, "failed")
    BY <1>6 DEF CheckPort
  <2>2. Gate # "before"
    BY <2>1 DEF Gate, OneInterval, SeenFits
  <2>3. Gate = "closed" \/ \A c \in DOMAIN fate : fate[c] # "written"
    <3>1. CASE ~portOpen
      BY <2>2, <3>1 DEF Gate
    <3>2. CASE seen # "port"
      BY <1>1, <3>2 DEF OneInterval, SeenFits
    <3> QED BY <1>6, <3>1, <3>2 DEF CheckPort
  <2> QED BY <1>4, <2>1, <2>2, <2>3 DEF Forwarding!Fail
<1>7. CASE EndWrite
  <2>1. callback = "writing" /\ Settle(current, IF ~dead THEN "written" ELSE "failed")
    BY <1>7 DEF EndWrite
  <2>2. portOpen /\ manager
    BY <2>1 DEF Held, MutexHeld, OpenWhileRunning
  <2>3. CASE ~dead
    BY <1>4, <2>1, <2>2, <2>3 DEF Gate, Forwarding!Write
  <2>4. CASE dead
    BY <1>4, <2>1, <2>2, <2>4 DEF Gate, Forwarding!Fail
  <2> QED BY <2>3, <2>4
<1>8. CASE Lock
  BY <1>8 DEF Lock
<1> QED BY <1>5, <1>6, <1>7, <1>8 DEF Callback

(* Towards those who publish, the program is a Forwarder, for any number   *)
(* of commands and of unplugs (main.go 122-148, manager.go 29-101).        *)
THEOREM ImplementsForwarderCorrect == Spec => ImplementsForwarder
<1>1. Init => Forwarding!Init
  <2> SUFFICES ASSUME Init PROVE Forwarding!Init
    OBVIOUS
  <2> QED BY DEF Init, Gate, Forwarding!Init
<1>2. Held /\ OneInterval /\ [Next]_vars => [Forwarding!Next]_(Forwarding!vars)
  <2> SUFFICES ASSUME Held, OneInterval, [Next]_vars
               PROVE  Forwarding!Next \/ UNCHANGED <<Gate, fate>>
    BY DEF Forwarding!vars
  <2>1. CASE Callback
    <3>1. UNCHANGED Gate
      BY <2>1 DEF Callback, TakeCommand, Lock, CheckPort, EndWrite, portVars, deviceVars, Gate
    <3> QED BY <2>1, <3>1, CallbackForwards DEF Forwarding!Next
  <2>2. CASE ~Callback
    <3>1. UNCHANGED fate \/ fate' = Append(fate, "queued")
      BY <2>2, OtherStep
    <3>2. CASE UNCHANGED Gate
      BY <3>1, <3>2 DEF Forwarding!Next, Forwarding!Publish
    <3>3. CASE Gate = "before" /\ Gate' = "open" /\ UNCHANGED fate
      BY <3>3 DEF Forwarding!Next, Forwarding!Open
    <3>4. CASE Gate = "open" /\ Gate' = "closed" /\ UNCHANGED fate
      BY <3>4 DEF Forwarding!Next, Forwarding!Close
    <3> QED BY <3>2, <3>3, <3>4, GateStep
  <2> QED BY <2>1, <2>2
<1> QED BY <1>1, <1>2, HeldInvariant, OneIntervalInvariant, PTL DEF Spec, ImplementsForwarder, Forwarding!Spec
=============================================================================
