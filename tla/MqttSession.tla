------------------------------ MODULE MqttSession ------------------------------
(***************************************************************************)
(* The MQTT connections of meshspy and webapp, as client.ConnectMQTT       *)
(* configures them: reconnecting by itself, resuming what was not yet      *)
(* acknowledged, and with the session cleaned at every connection, which   *)
(* is the default of the client library.  All traffic has QoS 0.           *)
(*                                                                         *)
(* Library and broker are external, modelled from the calls the programs   *)
(* make.  meshspy subscribes to the commands and publishes what the mesh   *)
(* says; webapp subscribes to that, once for every page it serves, and     *)
(* publishes commands: what one publishes goes to the other.               *)
(*                                                                         *)
(* Both programs of a container use one client id, so that the broker      *)
(* closes the connection of one when the other connects; this is one of    *)
(* the reasons for Lose.                                                   *)
(***************************************************************************)
EXTENDS Naturals, SequencesExt

CONSTANTS Page,       \* the pages that connect to webapp, each a websocket
          MaxLosses   \* bound: connections lost in one behaviour

ASSUME PageAssumption == IsFiniteSet(Page) /\ "meshspy" \notin Page
ASSUME LossesAssumption == MaxLosses \in Nat

VARIABLES status,      \* of each program's connection
          subscribed,  \* whether the broker has a subscription of the program
          out,         \* packets on their way to the broker
          inbox,       \* packets on their way to the program
          pending,     \* the requests of each program not yet acknowledged
          token,       \* the token of each call of Subscribe
          losses       \* counts the connections lost

sessionVars == <<status, subscribed, out, inbox, pending, token, losses>>

Program == {"meshspy", "webapp"}
Peer == [meshspy |-> "webapp", webapp |-> "meshspy"]
Subscriber == Page \cup {"meshspy"}
ProgramOf(s) == IF s = "meshspy" THEN "meshspy" ELSE "webapp"

Sender(p) == IF p = "webapp" THEN Page ELSE {"mesh"}
Users(p) == {s \in Subscriber : ProgramOf(s) = p}

(* What program p publishes and requests, and the answers it gets.         *)
Message(p) == [kind : {"message"}, from : Sender(p), n : Nat \ {0}]
Request(p) == [kind : {"subscribe", "unsubscribe"}, by : Users(p)]
Ack(p) == [kind : {"ack"}, of : Request(p)]

(* ConnectMQTT returns when the connection is there.  meshspy subscribes   *)
(* at once; when that fails it goes on, as after a lost connection.        *)
SessionInit == /\ status = [p \in Program |-> "connected"]
               /\ subscribed = [p \in Program |-> p = "meshspy"]
               /\ out = [p \in Program |-> << >>]
               /\ inbox = [p \in Program |-> << >>]
               /\ pending = [p \in Program |-> {}]
               /\ token = [s \in Subscriber |-> IF s = "meshspy" THEN "done" ELSE "none"]
               /\ losses = 0

Send(p, packet) == out' = [out EXCEPT ![p] = Append(@, packet)]
Connected(p) == status[p] = "connected"

-----------------------------------------------------------------------------
(* The calls of the programs.                                              *)

(* Without a connection the message is dropped and the token reports       *)
(* success; with one the library may give up after thirty seconds.         *)
CallPublish(p, m) == (Connected(p) /\ Send(p, m)) \/ UNCHANGED out

(* A request stays pending until it is acknowledged.  Without a connection *)
(* a client that cleans its session refuses it.                            *)
SendRequest(p, request) == /\ Send(p, request)
                           /\ pending' = [pending EXCEPT ![p] = @ \cup {request}]

CallSubscribe(s) ==
  LET p == ProgramOf(s) IN
  /\ token[s] = "none"
  /\ IF Connected(p)
     THEN /\ SendRequest(p, [kind |-> "subscribe", by |-> s])
          /\ token' = [token EXCEPT ![s] = "waiting"]
     ELSE /\ token' = [token EXCEPT ![s] = "failed"]
          /\ UNCHANGED <<out, pending>>

CallUnsubscribe(s) == /\ Connected(ProgramOf(s))
                      /\ SendRequest(ProgramOf(s), [kind |-> "unsubscribe", by |-> s])

-----------------------------------------------------------------------------
(* The library and the broker.                                             *)

(* The pending requests, which lead what is sent from now on (see Lose),   *)
(* get new tokens, and the old ones are completed without an error.        *)
Reconnect(p) ==
  /\ ~Connected(p)
  /\ status' = [status EXCEPT ![p] = "connected"]
  /\ token' = [s \in Subscriber |-> IF s \in Users(p) /\ token[s] = "waiting" THEN "done" ELSE token[s]]
  /\ UNCHANGED <<subscribed, out, inbox, pending, losses>>

Forward(p, m) == inbox' = IF subscribed[Peer[p]] THEN [inbox EXCEPT ![Peer[p]] = Append(@, m)] ELSE inbox

(* The broker takes the next packet of p and acknowledges a request.       *)
BrokerTakes(p) ==
  /\ Connected(p) /\ out[p] # << >>
  /\ LET packet == Head(out[p]) IN
       IF packet.kind = "message" THEN Forward(p, packet) /\ UNCHANGED subscribed
       ELSE /\ subscribed' = [subscribed EXCEPT ![p] = packet.kind = "subscribe"]
            /\ inbox' = [inbox EXCEPT ![p] = Append(@, [kind |-> "ack", of |-> packet])]
  /\ out' = [out EXCEPT ![p] = Tail(@)]
  /\ UNCHANGED <<status, pending, token, losses>>

NextIs(p, kind) == inbox[p] # << >> /\ Head(inbox[p]).kind = kind
Received(p) == inbox' = [inbox EXCEPT ![p] = Tail(@)]

TakeAck(p) ==
  /\ NextIs(p, "ack")
  /\ LET request == Head(inbox[p]).of IN
       /\ pending' = [pending EXCEPT ![p] = @ \ {request}]
       /\ token' = [token EXCEPT ![request.by] = IF @ = "waiting" THEN "done" ELSE @]
  /\ Received(p)
  /\ UNCHANGED <<status, subscribed, out, losses>>

Unsent(p) == {s \in Users(p) : /\ token[s] = "waiting"
                               /\ \E i \in DOMAIN out[p] : out[p][i] = [kind |-> "subscribe", by |-> s]}

(* Everything on its way is lost and the broker forgets the subscriptions. *)
(* The pending requests are stored and sent again, in any order, after the *)
(* next connection, even one whose write fails now and with it the token.  *)
Lose(p) ==
  /\ Connected(p) /\ losses < MaxLosses
  /\ losses' = losses + 1
  /\ status' = [status EXCEPT ![p] = "reconnecting"]
  /\ subscribed' = [subscribed EXCEPT ![p] = FALSE]
  /\ inbox' = [inbox EXCEPT ![p] = << >>]
  /\ \E requests \in SetToSeqs(pending[p]) : out' = [out EXCEPT ![p] = requests]
  /\ \E failing \in SUBSET Unsent(p) :
       token' = [s \in Subscriber |-> IF s \in failing THEN "failed" ELSE token[s]]
  /\ UNCHANGED pending

SessionProgress == \E p \in Program : Reconnect(p) \/ BrokerTakes(p) \/ TakeAck(p)

SessionTypeOK ==
  /\ status \in [Program -> {"connected", "reconnecting"}]
  /\ subscribed \in [Program -> BOOLEAN]
  /\ DOMAIN out = Program /\ DOMAIN inbox = Program
  /\ \A p \in Program : /\ out[p] \in Seq(Message(p) \cup Request(p))
                        /\ inbox[p] \in Seq(Message(Peer[p]) \cup Ack(p))
  /\ DOMAIN pending = Program /\ \A p \in Program : pending[p] \subseteq Request(p)
  /\ token \in [Subscriber -> {"none", "waiting", "done", "failed"}]
  /\ losses \in 0..MaxLosses
=============================================================================
