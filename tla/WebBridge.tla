------------------------------- MODULE WebBridge -------------------------------
(***************************************************************************)
(* webapp (cmd/webapp/main.go) between its pages and the broker, with      *)
(* meshspy (external here, see MeshSpy) at the other end.  Every page has  *)
(* a websocket, a handler that reads it, a queue and a goroutine that      *)
(* publishes what is in the queue; all pages share one client, which has   *)
(* one callback per topic.                                                 *)
(***************************************************************************)
EXTENDS MqttSession

CONSTANTS QueueSize,   \* capacity of sendCh, ten in the code
          MaxHeard,    \* bound: messages meshspy publishes in one behaviour
          MaxSaid      \* bound: those and the messages typed in the pages

ASSUME BridgeAssumption == QueueSize \in Nat \ {0} /\ MaxHeard \in Nat /\ MaxSaid \in Nat
ASSUME PageNames == Page \cap {"mesh", "nobody", "callback", "echo"} = {}

VARIABLES alive,     \* whether the container runs: it ends when webapp does
          open,      \* the pages whose side of the websocket is open
          phase,     \* where the handler of each page is
          typed,     \* how many messages the handler of each page has read
          queue,     \* sendCh, behind what its goroutine is about to publish
          route,     \* the page whose callback the client calls
          writing,   \* who is inside WriteMessage on each websocket
          raced,     \* whether two have been there at once since it was idle
          calling,   \* the page whose callback is running
          heard,     \* how many messages meshspy has published
          shown,     \* history: the messages given to the callback of a page
          commands   \* history: what the callback of meshspy was called with

queueVars == <<typed, queue>>
socketVars == <<writing, raced>>
endVars == <<heard, shown, commands>>
vars == <<sessionVars, alive, phase, open, queueVars, route, socketVars, calling, endVars>>

Phases == {"none", "subscribing", "reading", "echoing", "leaving", "done"}

Init == /\ SessionInit
        /\ alive = TRUE
        /\ open = {}
        /\ phase = [p \in Page |-> "none"]
        /\ typed = [p \in Page |-> 0]
        /\ queue = [p \in Page |-> << >>]
        /\ route = "nobody"
        /\ writing = [p \in Page |-> {}]
        /\ raced = [p \in Page |-> FALSE]
        /\ calling = "nobody"
        /\ heard = 0 /\ shown = {} /\ commands = << >>

Said == SumFunction(typed) + heard
Go(p, from, to) == phase[p] = from /\ phase' = [phase EXCEPT ![p] = to]

-----------------------------------------------------------------------------
(* The websocket.  gorilla allows one writer at a time; that two do not    *)
(* meet is checked with an unsynchronised flag, and the check that sees    *)
(* them panics.                                                            *)

BeginWrite(p, who) ==
  /\ writing' = [writing EXCEPT ![p] = @ \cup {who}]
  /\ raced' = [raced EXCEPT ![p] = @ \/ writing[p] # {}]

EndWrite(p, who) ==
  /\ writing' = [writing EXCEPT ![p] = @ \ {who}]
  /\ raced' = [raced EXCEPT ![p] = @ /\ writing[p] # {who}]

MayPanic(p, who) == raced[p] \/ writing[p] \ {who} # {}

-----------------------------------------------------------------------------
(* The pages.                                                              *)

(* The websocket is upgraded, the publishing goroutine started and the     *)
(* topic subscribed to; a new callback for it replaces the one before.     *)
(* The library does so before it sends the request: who runs in between    *)
(* meets what is also met after both.                                      *)
OpenPage(p) ==
  /\ IF Connected("webapp") THEN Go(p, "none", "subscribing") /\ route' = p /\ open' = open \cup {p}
     ELSE Go(p, "none", "done") /\ UNCHANGED <<route, open>>
  /\ CallSubscribe(p)
  /\ UNCHANGED <<status, subscribed, inbox, losses, alive, queueVars, socketVars, calling, endVars>>

Leave(p) == /\ p \in open
            /\ open' = open \ {p}
            /\ UNCHANGED <<sessionVars, alive, phase, queueVars, route, socketVars, calling, endVars>>

-----------------------------------------------------------------------------
(* The handler of a page.                                                  *)

(* The deferred calls: unsubscribe, which is for the topic, whoever's      *)
(* callback it has, and which nobody waits for; then close(sendCh) and     *)
(* conn.Close, which the page notices.  The library deletes the callback   *)
(* after it has sent the request; without a connection it does neither.    *)
Return(p, from) ==
  \/ CallUnsubscribe(p) /\ Go(p, from, "leaving") /\ UNCHANGED open
  \/ /\ ~Connected("webapp") /\ Go(p, from, "done")
     /\ open' = open \ {p}
     /\ UNCHANGED <<out, pending>>

EndReturn(p) ==
  /\ Go(p, "leaving", "done")
  /\ route' = "nobody"
  /\ open' = open \ {p}
  /\ UNCHANGED <<sessionVars, alive, queueVars, socketVars, calling, endVars>>

EndSubscribeAtOnce(p) ==
  /\ Go(p, "subscribing", "reading")
  /\ UNCHANGED <<sessionVars, alive, open, queueVars, route, socketVars, calling, endVars>>
(* Wait has no timeout; after an error the handler returns.                *)
EndSubscribe(p) ==
  /\ \/ token[p] = "done" /\ Go(p, "subscribing", "reading") /\ UNCHANGED open
     \/ token[p] = "failed" /\ Go(p, "subscribing", "done") /\ open' = open \ {p}
  /\ UNCHANGED <<sessionVars, alive, queueVars, route, socketVars, calling, endVars>>

EnqueueEchoToo(p, n) == queue' = [queue EXCEPT ![p] = @ \o <<n, n>>]
(* What does not fit into the queue is dropped, and echoed all the same;   *)
(* there is room for one more when the goroutine has taken the first.      *)
Enqueue(p, n) ==
  \/ Len(queue[p]) <= QueueSize /\ queue' = [queue EXCEPT ![p] = Append(@, n)]
  \/ Len(queue[p]) >= QueueSize /\ UNCHANGED queue

(* The page types a message and the handler reads it.                      *)
Read(p) ==
  /\ Go(p, "reading", "echoing")
  /\ p \in open /\ Said < MaxSaid
  /\ typed' = [typed EXCEPT ![p] = @ + 1]
  /\ Enqueue(p, typed[p] + 1)
  /\ BeginWrite(p, "echo")
  /\ UNCHANGED <<sessionVars, alive, open, route, calling, endVars>>

(* A panic in a handler runs its deferred calls; net/http recovers it.     *)
EndEcho(p) ==
  /\ \/ Go(p, "echoing", "reading") /\ UNCHANGED <<out, pending, open>>
     \/ MayPanic(p, "echo") /\ Return(p, "echoing")
  /\ EndWrite(p, "echo")
  /\ UNCHANGED <<status, subscribed, inbox, token, losses, alive, queueVars, route, calling, endVars>>

ReadErrorIgnored(p) ==
  /\ p \notin open
  /\ Go(p, "reading", "echoing")
  /\ UNCHANGED <<sessionVars, alive, open, queueVars, route, socketVars, calling, endVars>>
(* What the page sent before it left may be lost with its connection.      *)
ReadError(p) ==
  /\ p \notin open
  /\ Return(p, "reading")
  /\ UNCHANGED <<status, subscribed, inbox, token, losses, alive, queueVars, route, socketVars, calling, endVars>>

Handler(p) == EndSubscribe(p) \/ EndEcho(p) \/ ReadError(p) \/ EndReturn(p)

-----------------------------------------------------------------------------
(* The publishing goroutine empties the queue even after it was closed.    *)

PublishHead(p) == CallPublish("webapp", [kind |-> "message", from |-> p, n |-> Head(queue[p])])

PublishWhileServing(p) ==
  /\ queue[p] # << >> /\ phase[p] # "done"
  /\ PublishHead(p)
  /\ queue' = [queue EXCEPT ![p] = Tail(@)]
  /\ UNCHANGED <<status, subscribed, inbox, pending, token, losses, alive, phase, open, typed, route, socketVars, calling, endVars>>
PublishAgain(p) ==
  /\ queue[p] # << >>
  /\ PublishHead(p)
  /\ queue' \in {queue, [queue EXCEPT ![p] = Tail(@)]}
  /\ UNCHANGED <<status, subscribed, inbox, pending, token, losses, alive, phase, open, typed, route, socketVars, calling, endVars>>
(* WaitTimeout gives the message up after three seconds, yet it stays with *)
(* the client: the next one may follow before it is written.               *)
Publish(p) ==
  /\ queue[p] # << >>
  /\ PublishHead(p)
  /\ queue' = [queue EXCEPT ![p] = Tail(@)]
  /\ UNCHANGED <<status, subscribed, inbox, pending, token, losses, alive, phase, open, typed, route, socketVars, calling, endVars>>

-----------------------------------------------------------------------------
DeliverUnlessBusy ==
  /\ calling = "nobody" /\ NextIs("webapp", "message")
  /\ Received("webapp")
  /\ IF route = "nobody" \/ (route # "nobody" /\ writing[route] # {}) THEN UNCHANGED <<calling, shown, socketVars>>
     ELSE /\ calling' = route
          /\ shown' = shown \cup {Head(inbox["webapp"]).n}
          /\ BeginWrite(route, "callback")
  /\ UNCHANGED <<status, subscribed, out, pending, token, losses, alive, phase, open, queueVars, route, heard, commands>>
(* The client calls the callback of the topic, one message after another;  *)
(* without a callback the message is dropped.                              *)
Deliver ==
  /\ calling = "nobody" /\ NextIs("webapp", "message")
  /\ Received("webapp")
  /\ IF route = "nobody" THEN UNCHANGED <<calling, shown, socketVars>>
     ELSE /\ calling' = route
          /\ shown' = shown \cup {Head(inbox["webapp"]).n}
          /\ BeginWrite(route, "callback")
  /\ UNCHANGED <<status, subscribed, out, pending, token, losses, alive, phase, open, queueVars, route, heard, commands>>

(* A panic in the callback ends the process.                               *)
EndDeliver ==
  /\ calling # "nobody"
  /\ alive' \in (IF MayPanic(calling, "callback") THEN BOOLEAN ELSE {TRUE})
  /\ EndWrite(calling, "callback")
  /\ calling' = "nobody"
  /\ UNCHANGED <<sessionVars, phase, open, queueVars, route, endVars>>

-----------------------------------------------------------------------------
(* meshspy: it subscribes once, when it starts, and publishes what it      *)
(* reads from the radio.                                                   *)

MeshPublish ==
  /\ heard < MaxHeard /\ Said < MaxSaid
  /\ heard' = heard + 1
  /\ CallPublish("meshspy", [kind |-> "message", from |-> "mesh", n |-> heard + 1])
  /\ UNCHANGED <<status, subscribed, inbox, pending, token, losses, alive, phase, open, queueVars, route, socketVars, calling, shown, commands>>

MeshCommand ==
  /\ NextIs("meshspy", "message")
  /\ commands' = Append(commands, <<Head(inbox["meshspy"]).from, Head(inbox["meshspy"]).n>>)
  /\ Received("meshspy")
  /\ UNCHANGED <<status, subscribed, out, pending, token, losses, alive, phase, open, queueVars, route, socketVars, calling, heard, shown>>

Unchanging == UNCHANGED <<alive, phase, open, queueVars, route, socketVars, calling, endVars>>
Session == SessionProgress /\ Unchanging
Loss == (\E p \in Program : Lose(p)) /\ Unchanging

(* What the programs, the client and the broker do by themselves.          *)
Progress == (\E p \in Page : Handler(p) \/ Publish(p)) \/ Deliver \/ EndDeliver \/ MeshCommand \/ Session

Next == /\ alive
        /\ \/ \E p \in Page : OpenPage(p) \/ Leave(p) \/ Read(p)
           \/ MeshPublish \/ Loss \/ Progress

Spec == Init /\ [][Next]_vars

(* Goroutines run, programs connect again, packets travel and open pages   *)
(* read what is written to them; no page need come, type or leave.  The    *)
(* bounds make one fairness condition enough for all of them.              *)
FairSpec == Spec /\ WF_vars(alive /\ Progress)

-----------------------------------------------------------------------------
TypeOK == /\ SessionTypeOK
          /\ alive \in BOOLEAN
          /\ open \subseteq Page
          /\ phase \in [Page -> Phases]
          /\ typed \in [Page -> Nat]
          /\ queue \in [Page -> Seq(Nat \ {0})] /\ \A p \in Page : Len(queue[p]) <= QueueSize + 1
          /\ route \in Page \cup {"nobody"} /\ calling \in Page \cup {"nobody"}
          /\ writing \in [Page -> SUBSET {"callback", "echo"}] /\ raced \in [Page -> BOOLEAN]
          /\ heard \in 0..MaxHeard /\ shown \subseteq Nat \ {0}
          /\ commands \in Seq(Page \X (Nat \ {0}))

(* From the pages to meshspy, webapp and the broker are a relay: whatever  *)
(* is lost, and although a publication given up after three seconds still  *)
(* goes out, what a page typed reaches the callback of meshspy in the order *)
(* in which it was typed and at most once (webapp/main.go 95-109, 128-146). *)
CommandRelay == INSTANCE Relay WITH Source <- Page, said <- typed, arrived <- commands
CommandsRelayed == CommandRelay!Spec

(* As long as no connection was lost and no handler has ended, one page is *)
(* enough for the subscription to be in force and to have a callback, and  *)
(* that of a page still served (webapp/main.go 111-122): a page that comes *)
(* takes the messages over without a gap.                                  *)
Serving == {p \in Page : phase[p] \in {"reading", "echoing"}}
NobodyLeft == \A p \in Page : phase[p] \notin {"leaving", "done"}
ServedUntilSomeoneLeaves ==
  losses = 0 /\ NobodyLeft /\ Serving # {} => subscribed["webapp"] /\ route # "nobody"

(* What meshspy has sent while a page is served is given to the callback   *)
(* of a page, unless a handler ends or a connection is lost meanwhile      *)
(* (webapp/main.go 111-116).                                               *)
MeshShown ==
  \A n \in 1..MaxHeard :
    (/\ \E i \in DOMAIN out["meshspy"] :
          out["meshspy"][i] = [kind |-> "message", from |-> "mesh", n |-> n]
     /\ Serving # {} /\ NobodyLeft /\ losses = 0)
      ~> (n \in shown \/ ~NobodyLeft \/ losses > 0 \/ ~alive)

(* What was queued is handed to the client even when the page has left and *)
(* its handler has closed the queue (webapp/main.go 89, 96).               *)
QueueIsPublished(p) == queue[p] # << >> ~> (queue[p] = << >> \/ ~alive)

(* A page that leaves releases its handler and its goroutine, whatever     *)
(* becomes of the connection while it waits (webapp/main.go 86-91, 117).   *)
PageIsReleased(p) ==
  (phase[p] # "none" /\ p \notin open)
    ~> (~alive \/ (phase[p] = "done" /\ queue[p] = << >>))

(* src/README.md 150: webapp forwards MQTT messages over WebSockets.  A    *)
(* page that is served is subscribed as long as no connection was lost.    *)
OpenPagesSubscribed == losses = 0 /\ Serving # {} /\ out["webapp"] = << >> => subscribed["webapp"] /\ route # "nobody"

(* src/README.md 79: the client resumes its subscriptions when the         *)
(* connection is restored.                                                 *)
SubscriptionsResumed ==
  (token["meshspy"] = "done" /\ status["meshspy"] = "reconnecting") ~> (subscribed["meshspy"] \/ ~alive)
=============================================================================
