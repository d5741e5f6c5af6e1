---------------------------- MODULE WebBridgeProofs ----------------------------
(***************************************************************************)
(* Proofs about WebBridge: for any pages, any capacity of their queues and *)
(* any number of messages and lost connections.                            *)
(***************************************************************************)
EXTENDS WebBridge, SequenceTheorems, FiniteSetTheorems, TLAPS

LEMMA Appending ==
  ASSUME NEW S, NEW s \in Seq(S), NEW x \in S
  PROVE  /\ Append(s, x) \in Seq(S)
         /\ Range(Append(s, x)) = Range(s) \cup {x}
<1>1. /\ Append(s, x) \in Seq(S) /\ Len(Append(s, x)) = Len(s) + 1
      /\ \A i \in 1..Len(s) : Append(s, x)[i] = s[i]
      /\ Append(s, x)[Len(s) + 1] = x
  BY AppendProperties
<1>2. /\ DOMAIN s = 1..Len(s) /\ DOMAIN Append(s, x) = 1..(Len(s) + 1) /\ Len(s) \in Nat
  BY <1>1, LenProperties
<1> QED
  BY <1>1, <1>2 DEF Range

LEMMA Taking ==
  ASSUME NEW S, NEW s \in Seq(S), s # << >>
  PROVE  /\ Head(s) \in S /\ Head(s) \in Range(s)
         /\ Tail(s) \in Seq(S) /\ Range(Tail(s)) \subseteq Range(s)
         /\ 1 \in DOMAIN s /\ Head(s) = s[1] /\ Len(Tail(s)) = Len(s) - 1
         /\ \A i \in DOMAIN Tail(s) : i \in Nat /\ i + 1 \in DOMAIN s /\ 1 < i + 1 /\ Tail(s)[i] = s[i + 1]
<1>1. /\ Head(s) \in S /\ Tail(s) \in Seq(S) /\ Len(Tail(s)) = Len(s) - 1
      /\ \A i \in 1..Len(Tail(s)) : Tail(s)[i] = s[i + 1]
  BY HeadTailProperties
<1>2. DOMAIN s = 1..Len(s) /\ DOMAIN Tail(s) = 1..Len(Tail(s)) /\ Len(s) \in Nat /\ Len(s) # 0
  BY <1>1, LenProperties, EmptySeq
<1>3. Head(s) = s[1] /\ 1 \in DOMAIN s
  BY <1>2
<1>4. \A i \in DOMAIN Tail(s) : i \in Nat /\ i + 1 \in DOMAIN s /\ 1 < i + 1 /\ Tail(s)[i] = s[i + 1]
  BY <1>1, <1>2
<1> QED
  BY <1>1, <1>3, <1>4 DEF Range

LEMMA Nothing == \A S : << >> \in Seq(S) /\ Range(<< >>) = {}
BY DEF Range

-----------------------------------------------------------------------------
(***************************************************************************)
(* The types.                                                              *)
(***************************************************************************)
Packets(p) == Message(p) \cup Request(p)
Arriving(p) == Message(Peer[p]) \cup Ack(p)

LEMMA Programs ==
  /\ "webapp" \in Program /\ "meshspy" \in Program
  /\ Peer["webapp"] = "meshspy" /\ Peer["meshspy"] = "webapp"
  /\ \A p \in Program : Peer[p] \in Program /\ Peer[p] # p
  /\ \A s \in Page : s # "meshspy" /\ s \in Users("webapp") /\ s \in Subscriber /\ ProgramOf(s) = "webapp"
  /\ \A p \in Program : \A s \in Users(p) : s \in Subscriber
BY PageAssumption DEF Program, Peer, Users, Subscriber, ProgramOf

LEMMA Kinds ==
  ASSUME NEW p \in Program
  PROVE  /\ \A m \in Message(p) : m.kind = "message" /\ m.from \in Sender(p) /\ m.n \in Nat \ {0}
         /\ \A r \in Request(p) : r.kind \in {"subscribe", "unsubscribe"} /\ r.by \in Users(p)
         /\ \A a \in Ack(p) : a.kind = "ack" /\ a.of \in Request(p) /\ a.of.by \in Users(p)
BY DEF Message, Request, Ack

(* The parts of SessionTypeOK, one variable each.                          *)
StatusOK == status \in [Program -> {"connected", "reconnecting"}]
SubscribedOK == subscribed \in [Program -> BOOLEAN]
OutOK == DOMAIN out = Program /\ \A p \in Program : out[p] \in Seq(Packets(p))
InboxOK == DOMAIN inbox = Program /\ \A p \in Program : inbox[p] \in Seq(Arriving(p))
PendingOK == DOMAIN pending = Program /\ \A p \in Program : pending[p] \subseteq Request(p)
TokenOK == token \in [Subscriber -> {"none", "waiting", "done", "failed"}]
LossesOK == losses \in 0..MaxLosses

LEMMA SessionParts ==
  /\ SessionTypeOK <=> StatusOK /\ SubscribedOK /\ OutOK /\ InboxOK /\ PendingOK /\ TokenOK /\ LossesOK
  /\ SessionTypeOK' <=> (StatusOK /\ SubscribedOK /\ OutOK /\ InboxOK /\ PendingOK /\ TokenOK /\ LossesOK)'
BY DEF SessionTypeOK, StatusOK, SubscribedOK, OutOK, InboxOK, PendingOK, TokenOK, LossesOK, Packets, Arriving

LEMMA SentOK ==
  ASSUME OutOK, NEW p \in Program, NEW x \in Packets(p), Send(p, x)
  PROVE  /\ OutOK'
         /\ out'[p] = Append(out[p], x) /\ \A q \in Program \ {p} : out'[q] = out[q]
<1>1. /\ DOMAIN out' = Program
      /\ out'[p] = Append(out[p], x) /\ \A q \in Program \ {p} : out'[q] = out[q]
  BY DEF OutOK, Send
<1>2. out'[p] \in Seq(Packets(p))
  BY <1>1, Appending DEF OutOK
<1> QED
  BY <1>1, <1>2 DEF OutOK

LEMMA TakenOK ==
  ASSUME OutOK, NEW p \in Program, out[p] # << >>, out' = [out EXCEPT ![p] = Tail(@)]
  PROVE  /\ OutOK'
         /\ Head(out[p]) \in Packets(p)
         /\ out'[p] = Tail(out[p]) /\ \A q \in Program \ {p} : out'[q] = out[q]
<1>1. /\ DOMAIN out' = Program
      /\ out'[p] = Tail(out[p]) /\ \A q \in Program \ {p} : out'[q] = out[q]
  BY DEF OutOK
<1>2. out'[p] \in Seq(Packets(p)) /\ Head(out[p]) \in Packets(p)
  BY <1>1, Taking DEF OutOK
<1> QED
  BY <1>1, <1>2 DEF OutOK

LEMMA PutOK ==
  ASSUME InboxOK, NEW p \in Program, NEW x \in Arriving(p), inbox' = [inbox EXCEPT ![p] = Append(@, x)]
  PROVE  /\ InboxOK'
         /\ inbox'[p] = Append(inbox[p], x) /\ \A q \in Program \ {p} : inbox'[q] = inbox[q]
<1>1. /\ DOMAIN inbox' = Program
      /\ inbox'[p] = Append(inbox[p], x) /\ \A q \in Program \ {p} : inbox'[q] = inbox[q]
  BY DEF InboxOK
<1>2. inbox'[p] \in Seq(Arriving(p))
  BY <1>1, Appending DEF InboxOK
<1> QED
  BY <1>1, <1>2 DEF InboxOK

LEMMA ReceivedOK ==
  ASSUME InboxOK, NEW p \in Program, inbox[p] # << >>, Received(p)
  PROVE  /\ InboxOK'
         /\ Head(inbox[p]) \in Arriving(p)
         /\ inbox'[p] = Tail(inbox[p]) /\ \A q \in Program \ {p} : inbox'[q] = inbox[q]
<1>1. /\ DOMAIN inbox' = Program
      /\ inbox'[p] = Tail(inbox[p]) /\ \A q \in Program \ {p} : inbox'[q] = inbox[q]
  BY DEF InboxOK, Received
<1>2. inbox'[p] \in Seq(Arriving(p)) /\ Head(inbox[p]) \in Arriving(p)
  BY <1>1, Taking DEF InboxOK
<1> QED
  BY <1>1, <1>2 DEF InboxOK

LEMMA HeadOfKind ==
  ASSUME InboxOK, NEW p \in Program, NEW kind, NextIs(p, kind)
  PROVE  /\ inbox[p] # << >> /\ Head(inbox[p]) \in Arriving(p)
         /\ kind = "ack" => Head(inbox[p]) \in Ack(p)
         /\ kind = "message" => Head(inbox[p]) \in Message(Peer[p])
<1>1. inbox[p] # << >> /\ Head(inbox[p]).kind = kind /\ Head(inbox[p]) \in Arriving(p)
  BY Taking DEF NextIs, InboxOK
<1> QED
  BY <1>1, Kinds, Programs DEF Arriving

(* What is sent again after a lost connection are requests.                *)
LEMMA FiniteRequests == \A p \in Program : IsFiniteSet(Request(p))
<1> SUFFICES ASSUME NEW p \in Program
             PROVE  IsFiniteSet(Request(p))
  OBVIOUS
<1>1. IsFiniteSet(Users(p))
  <2>1. IsFiniteSet(Subscriber)
    BY PageAssumption, FS_AddElement DEF Subscriber
  <2> QED
    BY <2>1, FS_Subset DEF Users
<1>2. ASSUME NEW kind
      PROVE  IsFiniteSet([kind : {kind}, by : Users(p)])
  <2> DEFINE f == [s \in Users(p) |-> [kind |-> kind, by |-> s]]
  <2>1. f \in Surjection(Users(p), [kind : {kind}, by : Users(p)])
    BY DEF Surjection
  <2> HIDE DEF f
  <2> QED
    BY <1>1, <2>1, FS_Surjection
<1> DEFINE A == [kind : {"subscribe"}, by : Users(p)]
           B == [kind : {"unsubscribe"}, by : Users(p)]
<1>3. Request(p) = A \cup B
  BY DEF Request
<1>4. IsFiniteSet(A) /\ IsFiniteSet(B)
  BY <1>2
<1> HIDE DEF A, B
<1> QED
  BY <1>3, <1>4, FS_Union

LEMMA ResentOK ==
  ASSUME PendingOK, NEW p \in Program, NEW requests \in SetToSeqs(pending[p])
  PROVE  /\ requests \in Seq(Packets(p))
         /\ \A x \in Range(requests) : x.kind # "message"
<1>1. Cardinality(pending[p]) \in Nat
  <2>1. IsFiniteSet(pending[p])
    BY FiniteRequests, FS_Subset DEF PendingOK
  <2> QED
    BY <2>1, FS_CardinalityType
<1>2. requests \in [1..Cardinality(pending[p]) -> pending[p]]
  BY DEF SetToSeqs
<1>3. pending[p] \subseteq Packets(p) /\ \A x \in pending[p] : x.kind # "message"
  BY Kinds DEF PendingOK, Packets
<1>4. requests \in [1..Cardinality(pending[p]) -> Packets(p)]
  BY <1>2, <1>3
<1> QED
  BY <1>1, <1>2, <1>3, <1>4, SeqDef DEF Range

LEMMA RequestedOK ==
  ASSUME OutOK, PendingOK, NEW r \in Request("webapp"), SendRequest("webapp", r)
  PROVE  /\ OutOK' /\ PendingOK'
         /\ out'["webapp"] = Append(out["webapp"], r) /\ out'["meshspy"] = out["meshspy"]
<1>1. Send("webapp", r) /\ pending' = [pending EXCEPT !["webapp"] = @ \cup {r}]
  BY DEF SendRequest
<1>2. r \in Packets("webapp")
  BY DEF Packets
<1>3. PendingOK'
  BY <1>1 DEF PendingOK
<1> QED
  BY <1>1, <1>2, <1>3, SentOK, Programs

LEMMA SubscribeOK ==
  ASSUME SessionTypeOK, NEW s \in Page, CallSubscribe(s)
  PROVE  /\ OutOK' /\ PendingOK' /\ TokenOK'
         /\ out'["meshspy"] = out["meshspy"]
         /\ \/ Connected("webapp") /\ out'["webapp"] = Append(out["webapp"], [kind |-> "subscribe", by |-> s])
            \/ ~Connected("webapp") /\ UNCHANGED out
         /\ token' = [token EXCEPT ![s] = token'[s]] /\ token'[s] \in {"waiting", "failed"}
<1>1. ProgramOf(s) = "webapp" /\ s \in Subscriber
  BY Programs
<1>2. [kind |-> "subscribe", by |-> s] \in Request("webapp")
  BY Programs DEF Request
<1>3. TokenOK' /\ token' = [token EXCEPT ![s] = token'[s]] /\ token'[s] \in {"waiting", "failed"}
  BY <1>1, SessionParts DEF CallSubscribe, TokenOK
<1>4. CASE Connected("webapp")
  <2>1. SendRequest("webapp", [kind |-> "subscribe", by |-> s])
    BY <1>1, <1>4 DEF CallSubscribe
  <2> QED
    BY <1>2, <1>3, <1>4, <2>1, RequestedOK, SessionParts
<1>5. CASE ~Connected("webapp")
  <2>1. UNCHANGED <<out, pending>>
    BY <1>1, <1>5 DEF CallSubscribe
  <2> QED
    BY <1>3, <1>5, <2>1, SessionParts DEF OutOK, PendingOK
<1> QED
  BY <1>4, <1>5

LEMMA UnsubscribeOK ==
  ASSUME OutOK, PendingOK, NEW s \in Page, CallUnsubscribe(s)
  PROVE  /\ OutOK' /\ PendingOK' /\ out'["meshspy"] = out["meshspy"]
         /\ out'["webapp"] = Append(out["webapp"], [kind |-> "unsubscribe", by |-> s])
<1>1. SendRequest("webapp", [kind |-> "unsubscribe", by |-> s])
  BY Programs DEF CallUnsubscribe
<1>2. [kind |-> "unsubscribe", by |-> s] \in Request("webapp")
  BY Programs DEF Request
<1> QED
  BY <1>1, <1>2, RequestedOK

LEMMA PublishOK ==
  ASSUME OutOK, NEW p \in Program, NEW m \in Message(p), CallPublish(p, m)
  PROVE  /\ OutOK' /\ out'[Peer[p]] = out[Peer[p]]
         /\ out'[p] = Append(out[p], m) \/ UNCHANGED out
<1>1. m \in Packets(p)
  BY DEF Packets
<1>2. CASE Send(p, m)
  BY <1>1, <1>2, SentOK, Programs
<1>3. CASE UNCHANGED out
  BY <1>3 DEF OutOK
<1> QED
  BY <1>2, <1>3 DEF CallPublish

(* What the broker does with the next packet of p, kind by kind.           *)
LEMMA BrokerCases ==
  ASSUME SessionTypeOK, NEW p \in Program, BrokerTakes(p)
  PROVE  /\ OutOK' /\ out[p] # << >> /\ out'[p] = Tail(out[p]) /\ out'[Peer[p]] = out[Peer[p]]
         /\ InboxOK' /\ SubscribedOK' /\ UNCHANGED <<status, pending, token, losses>>
         /\ \/ /\ Head(out[p]) \in Message(p)
               /\ inbox'[p] = inbox[p] /\ UNCHANGED subscribed
               /\ inbox'[Peer[p]] = Append(inbox[Peer[p]], Head(out[p])) \/ inbox'[Peer[p]] = inbox[Peer[p]]
            \/ /\ Head(out[p]) \in Request(p)
               /\ subscribed' = [subscribed EXCEPT ![p] = Head(out[p]).kind = "subscribe"]
               /\ \E a \in Ack(p) : inbox'[p] = Append(inbox[p], a)
               /\ inbox'[Peer[p]] = inbox[Peer[p]]
<1> DEFINE packet == Head(out[p])
<1>1. /\ out[p] # << >> /\ out' = [out EXCEPT ![p] = Tail(@)] /\ UNCHANGED <<status, pending, token, losses>>
      /\ IF packet.kind = "message" THEN Forward(p, packet) /\ UNCHANGED subscribed
         ELSE /\ subscribed' = [subscribed EXCEPT ![p] = packet.kind = "subscribe"]
              /\ inbox' = [inbox EXCEPT ![p] = Append(@, [kind |-> "ack", of |-> packet])]
  BY DEF BrokerTakes
<1>2. /\ OutOK' /\ out'[p] = Tail(out[p]) /\ packet \in Packets(p)
      /\ out'[Peer[p]] = out[Peer[p]]
  BY <1>1, TakenOK, SessionParts, Programs, ZenonT(30)
<1>3. InboxOK /\ SubscribedOK
  BY SessionParts
<1> HIDE DEF packet
<1>4. CASE packet \in Message(p)
  <2>1. Forward(p, packet) /\ UNCHANGED subscribed
    BY <1>1, <1>4, Kinds
  <2>2. packet \in Arriving(Peer[p]) /\ Peer[p] \in Program /\ p \in Program \ {Peer[p]}
    BY <1>4, Programs DEF Arriving, Program
  <2>3. CASE inbox' = [inbox EXCEPT ![Peer[p]] = Append(@, packet)]
    BY <1>1, <1>2, <1>3, <1>4, <2>1, <2>2, <2>3, PutOK DEF packet, SubscribedOK
  <2>4. CASE UNCHANGED inbox
    BY <1>1, <1>2, <1>3, <1>4, <2>1, <2>4 DEF packet, SubscribedOK, InboxOK
  <2> QED
    BY <2>1, <2>3, <2>4 DEF Forward
<1>5. CASE packet \in Request(p)
  <2>1. /\ subscribed' = [subscribed EXCEPT ![p] = packet.kind = "subscribe"]
        /\ inbox' = [inbox EXCEPT ![p] = Append(@, [kind |-> "ack", of |-> packet])]
    BY <1>1, <1>5, Kinds
  <2>2. [kind |-> "ack", of |-> packet] \in Ack(p)
    BY <1>5 DEF Ack
  <2>3. [kind |-> "ack", of |-> packet] \in Arriving(p) /\ Peer[p] \in Program \ {p}
    BY <2>2, Programs DEF Arriving
  <2>4. InboxOK' /\ inbox'[p] = Append(inbox[p], [kind |-> "ack", of |-> packet]) /\ inbox'[Peer[p]] = inbox[Peer[p]]
    BY <1>3, <2>1, <2>3, PutOK
  <2>5. SubscribedOK'
    BY <1>3, <2>1 DEF SubscribedOK
  <2> QED
    BY <1>1, <1>2, <1>5, <2>1, <2>2, <2>4, <2>5 DEF packet
<1> QED
  BY <1>2, <1>4, <1>5 DEF Packets

LEMMA LoseOK ==
  ASSUME SessionTypeOK, NEW p \in Program, Lose(p)
  PROVE  /\ SessionTypeOK' /\ losses' # 0
         /\ \A x \in Range(out'[p]) : x.kind # "message"
         /\ out'[Peer[p]] = out[Peer[p]]
         /\ inbox'[p] = << >> /\ inbox'[Peer[p]] = inbox[Peer[p]]
         /\ \A s \in Subscriber : token[s] = "done" => token'[s] = "done"
<1>1. PICK failing \in SUBSET Unsent(p) :
        token' = [s \in Subscriber |-> IF s \in failing THEN "failed" ELSE token[s]]
  BY DEF Lose
<1>2. PICK requests \in SetToSeqs(pending[p]) : out' = [out EXCEPT ![p] = requests]
  BY DEF Lose
<1>3. requests \in Seq(Packets(p)) /\ \A x \in Range(requests) : x.kind # "message"
  BY ResentOK, SessionParts
<1>4. PendingOK'
  BY SessionParts DEF Lose, PendingOK
<1>5. Peer[p] \in Program /\ Peer[p] # p
  BY Programs
<1>6. OutOK' /\ out'[p] = requests /\ out'[Peer[p]] = out[Peer[p]]
  BY <1>2, <1>3, <1>5, SessionParts DEF OutOK
<1>7. InboxOK' /\ inbox'[p] = << >> /\ inbox'[Peer[p]] = inbox[Peer[p]]
  BY <1>5, SessionParts, Nothing DEF InboxOK, Lose
<1>8. TokenOK' /\ \A s \in Subscriber : token[s] = "done" => token'[s] = "done"
  BY <1>1, SessionParts DEF TokenOK, Unsent
<1>9. StatusOK' /\ SubscribedOK'
  BY SessionParts DEF Lose, StatusOK, SubscribedOK
<1>10. LossesOK' /\ losses' # 0
  BY SessionParts, LossesAssumption DEF Lose, LossesOK
<1> QED
  BY <1>3, <1>4, <1>6, <1>7, <1>8, <1>9, <1>10, SessionParts

-----------------------------------------------------------------------------
(***************************************************************************)
(* Type correctness.                                                       *)
(***************************************************************************)
PagesOK == /\ alive \in BOOLEAN /\ open \subseteq Page /\ phase \in [Page -> Phases]
           /\ route \in Page \cup {"nobody"} /\ calling \in Page \cup {"nobody"}
QueuesOK == /\ typed \in [Page -> Nat]
            /\ queue \in [Page -> Seq(Nat \ {0})] /\ \A p \in Page : Len(queue[p]) <= QueueSize + 1
SocketsOK == writing \in [Page -> SUBSET {"callback", "echo"}] /\ raced \in [Page -> BOOLEAN]
EndsOK == /\ heard \in 0..MaxHeard /\ shown \subseteq Nat \ {0}
          /\ commands \in Seq(Page \X (Nat \ {0}))

LEMMA Parts == /\ TypeOK <=> SessionTypeOK /\ PagesOK /\ QueuesOK /\ SocketsOK /\ EndsOK
               /\ TypeOK' <=> (SessionTypeOK /\ PagesOK /\ QueuesOK /\ SocketsOK /\ EndsOK)'
BY DEF TypeOK, PagesOK, QueuesOK, SocketsOK, EndsOK

LEMMA SocketsKept ==
  ASSUME SocketsOK, NEW p \in Page, NEW who \in {"callback", "echo"}, BeginWrite(p, who) \/ EndWrite(p, who)
  PROVE  SocketsOK'
BY ZenonT(30) DEF SocketsOK, BeginWrite, EndWrite

LEMMA Enqueued ==
  ASSUME QueuesOK, NEW p \in Page, NEW n \in Nat \ {0}, Enqueue(p, n)
  PROVE  /\ queue' \in [Page -> Seq(Nat \ {0})] /\ \A q \in Page : Len(queue'[q]) <= QueueSize + 1
         /\ queue'[p] = Append(queue[p], n) \/ queue'[p] = queue[p]
         /\ \A q \in Page \ {p} : queue'[q] = queue[q]
<1>1. queue[p] \in Seq(Nat \ {0}) /\ Append(queue[p], n) \in Seq(Nat \ {0}) /\ Len(Append(queue[p], n)) = Len(queue[p]) + 1
  BY AppendProperties DEF QueuesOK
<1>2. Len(queue[p]) \in Nat /\ QueueSize \in Nat
  BY <1>1, LenProperties, BridgeAssumption
<1>3. CASE Len(queue[p]) <= QueueSize /\ queue' = [queue EXCEPT ![p] = Append(@, n)]
  BY <1>1, <1>2, <1>3 DEF QueuesOK
<1>4. CASE UNCHANGED queue
  BY <1>4 DEF QueuesOK
<1> QED
  BY <1>3, <1>4 DEF Enqueue

LEMMA Dequeued ==
  ASSUME QueuesOK, NEW p \in Page, queue[p] # << >>, queue' = [queue EXCEPT ![p] = Tail(@)]
  PROVE  /\ queue' \in [Page -> Seq(Nat \ {0})] /\ \A q \in Page : Len(queue'[q]) <= QueueSize + 1
         /\ Head(queue[p]) \in Nat \ {0}
         /\ queue'[p] = Tail(queue[p]) /\ \A q \in Page \ {p} : queue'[q] = queue[q]
<1>1. queue[p] \in Seq(Nat \ {0})
  BY DEF QueuesOK
<1>2. Tail(queue[p]) \in Seq(Nat \ {0}) /\ Len(Tail(queue[p])) = Len(queue[p]) - 1 /\ Head(queue[p]) \in Nat \ {0}
  BY <1>1, Taking
<1>3. Len(queue[p]) \in Nat /\ QueueSize \in Nat
  BY <1>1, LenProperties, BridgeAssumption
<1> QED
  BY <1>2, <1>3 DEF QueuesOK

Unsubscribing(p) == [kind |-> "unsubscribe", by |-> p]

LEMMA ReturnOK ==
  ASSUME OutOK, PendingOK, PagesOK, NEW p \in Page, NEW from, Return(p, from)
  PROVE  /\ OutOK' /\ PendingOK' /\ open' \subseteq Page
         /\ phase[p] = from /\ phase' = [phase EXCEPT ![p] = phase'[p]] /\ phase'[p] \in {"leaving", "done"}
         /\ out'["meshspy"] = out["meshspy"]
         /\ out'["webapp"] = Append(out["webapp"], Unsubscribing(p)) \/ out'["webapp"] = out["webapp"]
<1>1. CASE CallUnsubscribe(p) /\ Go(p, from, "leaving") /\ UNCHANGED open
  <2>1. /\ OutOK' /\ PendingOK' /\ out'["meshspy"] = out["meshspy"]
        /\ out'["webapp"] = Append(out["webapp"], Unsubscribing(p))
    BY <1>1, UnsubscribeOK DEF Unsubscribing
  <2> QED
    BY <1>1, <2>1 DEF Go, PagesOK
<1>2. CASE Go(p, from, "done") /\ open' = open \ {p} /\ UNCHANGED <<out, pending>>
  BY <1>2 DEF Go, PagesOK, OutOK, PendingOK
<1> QED
  BY <1>1, <1>2 DEF Return

LEMMA PublishedOK ==
  ASSUME SessionTypeOK, QueuesOK, NEW p \in Page, Publish(p)
  PROVE  /\ OutOK' /\ out'["meshspy"] = out["meshspy"]
         /\ \/ out'["webapp"] = Append(out["webapp"], [kind |-> "message", from |-> p, n |-> Head(queue[p])])
            \/ UNCHANGED out
         /\ [kind |-> "message", from |-> p, n |-> Head(queue[p])] \in Message("webapp")
         /\ QueuesOK' /\ queue[p] # << >> /\ Head(queue[p]) \in Nat \ {0}
         /\ queue'[p] = Tail(queue[p]) /\ \A q \in Page \ {p} : queue'[q] = queue[q]
<1> DEFINE m == [kind |-> "message", from |-> p, n |-> Head(queue[p])]
<1>1. /\ queue[p] # << >> /\ queue' = [queue EXCEPT ![p] = Tail(@)] /\ UNCHANGED typed
      /\ CallPublish("webapp", m)
  BY DEF Publish, PublishHead
<1>2. /\ queue' \in [Page -> Seq(Nat \ {0})] /\ \A q \in Page : Len(queue'[q]) <= QueueSize + 1
      /\ Head(queue[p]) \in Nat \ {0}
      /\ queue'[p] = Tail(queue[p]) /\ \A q \in Page \ {p} : queue'[q] = queue[q]
  BY <1>1, Dequeued
<1>3. m \in Message("webapp")
  BY <1>2 DEF Message, Sender
<1>4. QueuesOK'
  BY <1>1, <1>2 DEF QueuesOK
<1> HIDE DEF m
<1>5. /\ OutOK' /\ out'["meshspy"] = out["meshspy"]
      /\ out'["webapp"] = Append(out["webapp"], m) \/ UNCHANGED out
  BY <1>1, <1>3, PublishOK, SessionParts, Programs
<1> QED
  BY <1>1, <1>2, <1>3, <1>4, <1>5 DEF m

LEMMA MeshPublishedOK ==
  ASSUME SessionTypeOK, EndsOK, MeshPublish
  PROVE  /\ OutOK' /\ EndsOK' /\ out'["webapp"] = out["webapp"]
<1> DEFINE m == [kind |-> "message", from |-> "mesh", n |-> heard + 1]
<1>1. /\ heard < MaxHeard /\ heard' = heard + 1 /\ UNCHANGED <<shown, commands>>
      /\ CallPublish("meshspy", m)
  BY DEF MeshPublish
<1>2. EndsOK' /\ heard + 1 \in Nat \ {0}
  BY <1>1, BridgeAssumption DEF EndsOK
<1>3. m \in Message("meshspy")
  BY <1>2 DEF Message, Sender
<1> HIDE DEF m
<1> QED
  BY <1>1, <1>2, <1>3, PublishOK, SessionParts, Programs

LEMMA DeliveredOK ==
  ASSUME SessionTypeOK, PagesOK, SocketsOK, EndsOK, Deliver
  PROVE  /\ InboxOK' /\ PagesOK' /\ SocketsOK' /\ EndsOK'
         /\ inbox["webapp"] # << >> /\ inbox'["webapp"] = Tail(inbox["webapp"]) /\ inbox'["meshspy"] = inbox["meshspy"]
<1>1. NextIs("webapp", "message") /\ Received("webapp") /\ UNCHANGED <<alive, phase, open, route, heard, commands>>
  BY DEF Deliver
<1>2. inbox["webapp"] # << >> /\ Head(inbox["webapp"]) \in Message("meshspy")
  BY <1>1, HeadOfKind, SessionParts, Programs
<1>3. InboxOK' /\ inbox'["webapp"] = Tail(inbox["webapp"]) /\ inbox'["meshspy"] = inbox["meshspy"]
  BY <1>1, <1>2, ReceivedOK, SessionParts, Programs
<1>4. CASE route = "nobody"
  <2>1. UNCHANGED <<calling, shown, socketVars>>
    BY <1>4 DEF Deliver
  <2> QED
    BY <1>1, <1>2, <1>3, <2>1 DEF PagesOK, SocketsOK, EndsOK, socketVars
<1>5. CASE route # "nobody"
  <2>1. calling' = route /\ shown' = shown \cup {Head(inbox["webapp"]).n} /\ BeginWrite(route, "callback") /\ route \in Page
    BY <1>5 DEF Deliver, PagesOK
  <2>2. Head(inbox["webapp"]).n \in Nat \ {0}
    BY <1>2, Kinds, Programs
  <2> QED
    BY <1>1, <1>2, <1>3, <2>1, <2>2, SocketsKept DEF PagesOK, EndsOK
<1> QED
  BY <1>4, <1>5

LEMMA CommandedOK ==
  ASSUME SessionTypeOK, EndsOK, MeshCommand
  PROVE  /\ InboxOK' /\ EndsOK'
         /\ inbox["meshspy"] # << >> /\ Head(inbox["meshspy"]) \in Message("webapp")
         /\ inbox'["meshspy"] = Tail(inbox["meshspy"]) /\ inbox'["webapp"] = inbox["webapp"]
         /\ commands' = Append(commands, <<Head(inbox["meshspy"]).from, Head(inbox["meshspy"]).n>>)
         /\ Head(inbox["meshspy"]).from \in Page /\ Head(inbox["meshspy"]).n \in Nat \ {0}
<1>1. /\ NextIs("meshspy", "message") /\ Received("meshspy") /\ UNCHANGED <<heard, shown>>
      /\ commands' = Append(commands, <<Head(inbox["meshspy"]).from, Head(inbox["meshspy"]).n>>)
  BY DEF MeshCommand
<1>2. inbox["meshspy"] # << >> /\ Head(inbox["meshspy"]) \in Message("webapp")
  BY <1>1, HeadOfKind, SessionParts, Programs
<1>3. Head(inbox["meshspy"]).from \in Page /\ Head(inbox["meshspy"]).n \in Nat \ {0}
  BY <1>2, Kinds, Programs DEF Sender
<1>4. InboxOK' /\ inbox'["meshspy"] = Tail(inbox["meshspy"]) /\ inbox'["webapp"] = inbox["webapp"]
  BY <1>1, <1>2, ReceivedOK, SessionParts, Programs
<1>5. <<Head(inbox["meshspy"]).from, Head(inbox["meshspy"]).n>> \in Page \X (Nat \ {0})
  BY <1>3
<1>6. commands' \in Seq(Page \X (Nat \ {0}))
  BY <1>1, <1>5, Appending DEF EndsOK
<1>7. EndsOK'
  BY <1>1, <1>6 DEF EndsOK
<1> QED
  BY <1>1, <1>2, <1>3, <1>4, <1>7

LEMMA AckedOK ==
  ASSUME SessionTypeOK, NEW p \in Program, TakeAck(p)
  PROVE  /\ SessionTypeOK' /\ UNCHANGED <<status, subscribed, out, losses>>
         /\ inbox[p] # << >> /\ Head(inbox[p]) \in Ack(p) /\ Head(inbox[p]).of.by \in Users(p)
         /\ inbox'[p] = Tail(inbox[p]) /\ inbox'[Peer[p]] = inbox[Peer[p]]
         /\ \A s \in Subscriber : token'[s] = token[s] \/ (s = Head(inbox[p]).of.by /\ token'[s] = "done")
<1>1. /\ NextIs(p, "ack") /\ Received(p) /\ UNCHANGED <<status, subscribed, out, losses>>
      /\ pending' = [pending EXCEPT ![p] = @ \ {Head(inbox[p]).of}]
      /\ token' = [token EXCEPT ![Head(inbox[p]).of.by] = IF @ = "waiting" THEN "done" ELSE @]
  BY DEF TakeAck
<1>2. inbox[p] # << >> /\ Head(inbox[p]) \in Ack(p) /\ Head(inbox[p]).of.by \in Users(p)
  BY <1>1, HeadOfKind, SessionParts, Kinds
<1>3. InboxOK' /\ inbox'[p] = Tail(inbox[p]) /\ inbox'[Peer[p]] = inbox[Peer[p]]
  BY <1>1, <1>2, ReceivedOK, SessionParts, Programs
<1>4. TokenOK' /\ \A s \in Subscriber : token'[s] = token[s] \/ (s = Head(inbox[p]).of.by /\ token'[s] = "done")
  BY <1>1, SessionParts DEF TokenOK
<1>5. (StatusOK /\ SubscribedOK /\ OutOK /\ PendingOK /\ LossesOK)'
  BY <1>1, SessionParts DEF StatusOK, SubscribedOK, OutOK, PendingOK, LossesOK
<1> QED
  BY <1>1, <1>2, <1>3, <1>4, <1>5, SessionParts

LEMMA ReconnectedOK ==
  ASSUME SessionTypeOK, NEW p \in Program, Reconnect(p)
  PROVE  SessionTypeOK' /\ UNCHANGED <<subscribed, out, inbox, losses>> /\ status[p] # "connected"
         /\ \A s \in Subscriber : token[s] = "done" => token'[s] = "done"
<1>1. /\ status' = [status EXCEPT ![p] = "connected"] /\ status[p] # "connected"
      /\ UNCHANGED <<subscribed, out, inbox, pending, losses>>
  BY DEF Reconnect, Connected
<1>2. token' = [s \in Subscriber |-> IF s \in Users(p) /\ token[s] = "waiting" THEN "done" ELSE token[s]]
  BY DEF Reconnect
<1>3. TokenOK' /\ \A s \in Subscriber : token[s] = "done" => token'[s] = "done"
  BY <1>2, SessionParts DEF TokenOK
<1>4. (StatusOK /\ SubscribedOK /\ OutOK /\ InboxOK /\ PendingOK /\ LossesOK)'
  BY <1>1, SessionParts DEF StatusOK, SubscribedOK, OutOK, InboxOK, PendingOK, LossesOK
<1> QED
  BY <1>1, <1>3, <1>4, SessionParts

LEMMA BrokerOK ==
  ASSUME SessionTypeOK, NEW p \in Program, BrokerTakes(p)
  PROVE  SessionTypeOK'
<1>1. OutOK' /\ InboxOK' /\ SubscribedOK' /\ UNCHANGED <<status, pending, token, losses>>
  BY BrokerCases
<1>2. StatusOK' /\ PendingOK' /\ TokenOK' /\ LossesOK'
  BY <1>1, SessionParts DEF StatusOK, PendingOK, TokenOK, LossesOK
<1> QED
  BY <1>1, <1>2, SessionParts

LEMMA Untouched ==
  /\ StatusOK /\ UNCHANGED status => StatusOK'
  /\ SubscribedOK /\ UNCHANGED subscribed => SubscribedOK'
  /\ OutOK /\ UNCHANGED out => OutOK'
  /\ InboxOK /\ UNCHANGED inbox => InboxOK'
  /\ PendingOK /\ UNCHANGED pending => PendingOK'
  /\ TokenOK /\ UNCHANGED token => TokenOK'
  /\ LossesOK /\ UNCHANGED losses => LossesOK'
  /\ PagesOK /\ UNCHANGED <<alive, open, phase, route, calling>> => PagesOK'
  /\ QueuesOK /\ UNCHANGED queueVars => QueuesOK'
  /\ SocketsOK /\ UNCHANGED socketVars => SocketsOK'
  /\ EndsOK /\ UNCHANGED endVars => EndsOK'
BY DEF StatusOK, SubscribedOK, OutOK, InboxOK, PendingOK, TokenOK, LossesOK, PagesOK, QueuesOK, SocketsOK, EndsOK,
       queueVars, socketVars, endVars

LEMMA InitTypes == Init => TypeOK
<1> SUFFICES ASSUME Init
             PROVE  TypeOK
  OBVIOUS
<1>1. OutOK /\ InboxOK /\ PendingOK
  BY Nothing DEF Init, SessionInit, OutOK, InboxOK, PendingOK
<1>2. StatusOK /\ SubscribedOK /\ TokenOK /\ LossesOK
  BY LossesAssumption DEF Init, SessionInit, StatusOK, SubscribedOK, TokenOK, LossesOK
<1>3. PagesOK /\ SocketsOK
  BY DEF Init, PagesOK, SocketsOK, Phases
<1>4. QueuesOK /\ EndsOK
  <2>1. Len(<< >>) = 0 /\ << >> \in Seq(Nat \ {0}) /\ << >> \in Seq(Page \X (Nat \ {0}))
    BY Nothing
  <2> QED
    BY <2>1, BridgeAssumption DEF Init, QueuesOK, EndsOK
<1> QED
  BY <1>1, <1>2, <1>3, <1>4, Parts, SessionParts

(* The handler of a page, with what its steps have in common.              *)
LEMMA HandlerOK ==
  ASSUME TypeOK, NEW p \in Page, Handler(p)
  PROVE  /\ TypeOK'
         /\ out'["meshspy"] = out["meshspy"]
         /\ out'["webapp"] = Append(out["webapp"], Unsubscribing(p)) \/ out'["webapp"] = out["webapp"]
         /\ UNCHANGED <<status, subscribed, inbox, token, losses, queueVars, commands>>
         /\ phase[p] \notin {"none", "done"} /\ phase' = [phase EXCEPT ![p] = phase'[p]]
         /\ phase'[p] \in {"reading", "leaving", "done"}
         /\ phase'[p] = "reading" => /\ token[p] = "done" \/ phase[p] = "echoing"
                                     /\ phase[p] # "leaving" /\ UNCHANGED <<out, route>>
<1>1. SessionTypeOK /\ PagesOK /\ QueuesOK /\ SocketsOK /\ EndsOK
  BY Parts
<1>2. StatusOK /\ SubscribedOK /\ OutOK /\ InboxOK /\ PendingOK /\ TokenOK /\ LossesOK
  BY <1>1, SessionParts
<1>3. CASE EndSubscribe(p)
  <2>1. /\ UNCHANGED <<sessionVars, alive, queueVars, route, socketVars, calling, endVars>>
        /\ phase[p] = "subscribing" /\ phase' = [phase EXCEPT ![p] = phase'[p]]
        /\ phase'[p] \in {"reading", "done"} /\ (phase'[p] = "reading" => token[p] = "done")
        /\ phase' \in [Page -> Phases] /\ open' \subseteq Page
    BY <1>1, <1>3 DEF EndSubscribe, Go, PagesOK, Phases
  <2>2. PagesOK'
    BY <1>1, <2>1 DEF PagesOK
  <2> QED
    BY <1>1, <1>2, <2>1, <2>2, Untouched, Parts, SessionParts DEF sessionVars, endVars
<1>4. CASE EndEcho(p)
  <2>1. /\ UNCHANGED <<status, subscribed, inbox, token, losses, alive, queueVars, route, calling, endVars>>
        /\ EndWrite(p, "echo")
    BY <1>4 DEF EndEcho
  <2>2. /\ OutOK' /\ PendingOK' /\ open' \subseteq Page /\ out'["meshspy"] = out["meshspy"]
        /\ out'["webapp"] = Append(out["webapp"], Unsubscribing(p)) \/ out'["webapp"] = out["webapp"]
        /\ phase[p] = "echoing" /\ phase' = [phase EXCEPT ![p] = phase'[p]]
        /\ phase'[p] \in {"reading", "leaving", "done"} /\ (phase'[p] = "reading" => UNCHANGED out)
    <3>1. CASE Go(p, "echoing", "reading") /\ UNCHANGED <<out, pending, open>>
      BY <1>1, <1>2, <3>1, Untouched DEF PagesOK, Go
    <3>2. CASE Return(p, "echoing")
      BY <1>1, <1>2, <3>2, ReturnOK
    <3> QED
      BY <1>4, <3>1, <3>2 DEF EndEcho
  <2>3. PagesOK' /\ SocketsOK'
    BY <1>1, <2>1, <2>2, SocketsKept DEF PagesOK, Phases
  <2> QED
    BY <1>1, <1>2, <2>1, <2>2, <2>3, Untouched, Parts, SessionParts DEF endVars
<1>5. CASE ReadError(p)
  <2>1. /\ UNCHANGED <<status, subscribed, inbox, token, losses, alive, queueVars, route, socketVars, calling, endVars>>
        /\ Return(p, "reading")
    BY <1>5 DEF ReadError
  <2>2. /\ OutOK' /\ PendingOK' /\ open' \subseteq Page /\ out'["meshspy"] = out["meshspy"]
        /\ out'["webapp"] = Append(out["webapp"], Unsubscribing(p)) \/ out'["webapp"] = out["webapp"]
        /\ phase[p] = "reading" /\ phase' = [phase EXCEPT ![p] = phase'[p]] /\ phase'[p] \in {"leaving", "done"}
    BY <1>1, <1>2, <2>1, ReturnOK
  <2>3. PagesOK'
    BY <1>1, <2>1, <2>2 DEF PagesOK, Phases
  <2> QED
    BY <1>1, <1>2, <2>1, <2>2, <2>3, Untouched, Parts, SessionParts DEF endVars
<1>6. CASE EndReturn(p)
  <2>1. /\ UNCHANGED <<sessionVars, alive, queueVars, socketVars, calling, endVars>>
        /\ phase[p] = "leaving" /\ phase' = [phase EXCEPT ![p] = phase'[p]] /\ phase'[p] = "done"
        /\ phase' \in [Page -> Phases] /\ open' \subseteq Page /\ route' = "nobody"
    BY <1>1, <1>6 DEF EndReturn, Go, PagesOK, Phases
  <2>2. PagesOK'
    BY <1>1, <2>1 DEF PagesOK
  <2> QED
    BY <1>1, <1>2, <2>1, <2>2, Untouched, Parts, SessionParts DEF sessionVars, endVars
<1> QED
  BY <1>3, <1>4, <1>5, <1>6 DEF Handler

LEMMA OpenedOK ==
  ASSUME TypeOK, NEW p \in Page, OpenPage(p)
  PROVE  /\ TypeOK' /\ UNCHANGED <<status, subscribed, inbox, losses, queueVars, commands>>
         /\ out'["meshspy"] = out["meshspy"]
         /\ out'["webapp"] = Append(out["webapp"], [kind |-> "subscribe", by |-> p]) \/ out'["webapp"] = out["webapp"]
         /\ token' = [token EXCEPT ![p] = token'[p]] /\ token'[p] \in {"waiting", "failed"}
         /\ phase[p] = "none"
         /\ \/ Connected("webapp") /\ route' = p /\ phase' = [phase EXCEPT ![p] = "subscribing"]
            \/ ~Connected("webapp") /\ route' = route /\ phase' = [phase EXCEPT ![p] = "done"]
<1>1. SessionTypeOK /\ PagesOK /\ QueuesOK /\ SocketsOK /\ EndsOK
  BY Parts
<1>2. StatusOK /\ SubscribedOK /\ OutOK /\ InboxOK /\ PendingOK /\ TokenOK /\ LossesOK
  BY <1>1, SessionParts
<1>3. /\ UNCHANGED <<status, subscribed, inbox, losses, alive, queueVars, socketVars, calling, endVars>>
      /\ phase[p] = "none" /\ CallSubscribe(p)
      /\ \/ /\ Connected("webapp") /\ route' = p /\ phase' = [phase EXCEPT ![p] = "subscribing"]
            /\ open' = open \cup {p}
         \/ /\ ~Connected("webapp") /\ phase' = [phase EXCEPT ![p] = "done"]
            /\ UNCHANGED <<route, open>>
  BY DEF OpenPage, Go
<1>4. /\ OutOK' /\ PendingOK' /\ TokenOK' /\ out'["meshspy"] = out["meshspy"]
      /\ out'["webapp"] = Append(out["webapp"], [kind |-> "subscribe", by |-> p]) \/ out'["webapp"] = out["webapp"]
      /\ token' = [token EXCEPT ![p] = token'[p]] /\ token'[p] \in {"waiting", "failed"}
  BY <1>1, <1>3, SubscribeOK
<1>5. PagesOK'
  BY <1>1, <1>3 DEF PagesOK, Phases
<1> QED
  BY <1>1, <1>2, <1>3, <1>4, <1>5, Untouched, Parts, SessionParts DEF endVars

LEMMA ReadOK ==
  ASSUME TypeOK, NEW p \in Page, Read(p)
  PROVE  /\ TypeOK' /\ UNCHANGED <<sessionVars, route, commands>>
         /\ phase[p] = "reading" /\ phase' = [phase EXCEPT ![p] = "echoing"]
         /\ typed' = [typed EXCEPT ![p] = @ + 1]
         /\ queue'[p] = Append(queue[p], typed[p] + 1) \/ queue'[p] = queue[p]
         /\ \A q \in Page \ {p} : queue'[q] = queue[q]
<1>1. SessionTypeOK /\ PagesOK /\ QueuesOK /\ SocketsOK /\ EndsOK
  BY Parts
<1>2. StatusOK /\ SubscribedOK /\ OutOK /\ InboxOK /\ PendingOK /\ TokenOK /\ LossesOK
  BY <1>1, SessionParts
<1>3. /\ UNCHANGED <<sessionVars, alive, open, route, calling, endVars>>
      /\ phase[p] = "reading" /\ phase' = [phase EXCEPT ![p] = "echoing"]
      /\ typed' = [typed EXCEPT ![p] = @ + 1] /\ Enqueue(p, typed[p] + 1) /\ BeginWrite(p, "echo")
  BY DEF Read, Go
<1>4. typed[p] + 1 \in Nat \ {0} /\ typed' \in [Page -> Nat]
  BY <1>1, <1>3 DEF QueuesOK
<1>5. /\ queue' \in [Page -> Seq(Nat \ {0})] /\ \A q \in Page : Len(queue'[q]) <= QueueSize + 1
      /\ queue'[p] = Append(queue[p], typed[p] + 1) \/ queue'[p] = queue[p]
      /\ \A q \in Page \ {p} : queue'[q] = queue[q]
  BY <1>1, <1>3, <1>4, Enqueued
<1>6. QueuesOK'
  BY <1>4, <1>5 DEF QueuesOK
<1>7. PagesOK' /\ SocketsOK'
  BY <1>1, <1>3, SocketsKept DEF PagesOK, Phases
<1> QED
  BY <1>1, <1>2, <1>3, <1>5, <1>6, <1>7, Untouched, Parts, SessionParts DEF sessionVars, endVars

LEMMA TypesKept == TypeOK /\ [Next]_vars => TypeOK'
<1> SUFFICES ASSUME TypeOK, [Next]_vars
             PROVE  TypeOK'
  OBVIOUS
<1>1. SessionTypeOK /\ PagesOK /\ QueuesOK /\ SocketsOK /\ EndsOK
  BY Parts
<1>2. StatusOK /\ SubscribedOK /\ OutOK /\ InboxOK /\ PendingOK /\ TokenOK /\ LossesOK
  BY <1>1, SessionParts
<1> USE <1>1, <1>2, Untouched, Parts, SessionParts
<1>3. ASSUME NEW p \in Page, OpenPage(p)
      PROVE  TypeOK'
  BY <1>3, OpenedOK
<1>4. ASSUME NEW p \in Page, Leave(p)
      PROVE  TypeOK'
  BY <1>4 DEF Leave, sessionVars, PagesOK
<1>5. ASSUME NEW p \in Page, Read(p)
      PROVE  TypeOK'
  BY <1>5, ReadOK
<1>6. ASSUME NEW p \in Page, Handler(p)
      PROVE  TypeOK'
  BY <1>6, HandlerOK
<1>7. ASSUME NEW p \in Page, Publish(p)
      PROVE  TypeOK'
  <2>1. OutOK' /\ QueuesOK'
    BY <1>7, PublishedOK
  <2> QED
    BY <1>7, <2>1 DEF Publish
<1>8. CASE Deliver
  <2>1. InboxOK' /\ PagesOK' /\ SocketsOK' /\ EndsOK'
    BY <1>8, DeliveredOK
  <2> QED
    BY <1>8, <2>1 DEF Deliver
<1>9. CASE EndDeliver
  <2>1. PagesOK' /\ SocketsOK'
    <3>1. calling \in Page
      BY <1>9 DEF EndDeliver, PagesOK
    <3>2. alive' \in BOOLEAN
      BY <1>9 DEF EndDeliver
    <3> QED
      BY <1>9, <3>1, <3>2, SocketsKept DEF EndDeliver, PagesOK
  <2> QED
    BY <1>9, <2>1 DEF EndDeliver, sessionVars
<1>10. CASE MeshCommand
  <2>1. InboxOK' /\ EndsOK'
    BY <1>10, CommandedOK
  <2> QED
    BY <1>10, <2>1 DEF MeshCommand
<1>11. CASE MeshPublish
  <2>1. OutOK' /\ EndsOK'
    BY <1>11, MeshPublishedOK
  <2> QED
    BY <1>11, <2>1 DEF MeshPublish
<1>12. CASE Loss
  BY <1>12, LoseOK DEF Loss, Unchanging
<1>13. CASE Session
  <2>1. SessionTypeOK'
    BY <1>13, ReconnectedOK, BrokerOK, AckedOK DEF Session, SessionProgress
  <2> QED
    BY <1>13, <2>1 DEF Session, Unchanging
<1>14. CASE UNCHANGED vars
  BY <1>14 DEF vars, sessionVars
<1> QED
  BY <1>3, <1>4, <1>5, <1>6, <1>7, <1>8, <1>9, <1>10, <1>11, <1>12, <1>13, <1>14 DEF Next, Progress

(* Every variable keeps its type, the queues stay within their capacity,   *)
(* and only what a program sends is on its way from it (webapp/main.go).   *)
THEOREM WebTypeCorrect == Spec => []TypeOK
BY InitTypes, TypesKept, PTL DEF Spec

-----------------------------------------------------------------------------
(***************************************************************************)
(* The subscription of webapp while no connection is lost and nobody       *)
(* leaves: an acknowledgement that was received, or is on its way, is one  *)
(* of a subscription in force, and nothing on its way will end it.         *)
(***************************************************************************)
Covered == /\ \A x \in Range(out["webapp"]) : x.kind # "unsubscribe"
           /\ \A x \in Range(inbox["webapp"]) : x.kind = "ack" => subscribed["webapp"]
           /\ \A p \in Page : /\ token[p] = "done" => subscribed["webapp"]
                              /\ phase[p] # "none" => route # "nobody"

ServedInv == /\ \A p \in Serving : token[p] = "done"
             /\ losses = 0 => \A p \in Program : Connected(p)
             /\ losses = 0 /\ NobodyLeft => Covered

LEMMA ServedInit == Init => ServedInv
<1> SUFFICES ASSUME Init
             PROVE  ServedInv
  OBVIOUS
<1>1. Range(out["webapp"]) = {} /\ Range(inbox["webapp"]) = {}
  BY Nothing, Programs DEF Init, SessionInit
<1>2. \A p \in Page : phase[p] = "none" /\ token[p] = "none"
  BY Programs DEF Init, SessionInit
<1>3. \A p \in Program : Connected(p)
  BY DEF Init, SessionInit, Connected
<1> QED
  BY <1>1, <1>2, <1>3 DEF ServedInv, Covered, Serving

(* A step that leaves the connection of webapp alone.                      *)
LEMMA ServedStill ==
  ASSUME ServedInv, UNCHANGED <<status, subscribed, token, losses, phase, route>>,
         \A x \in Range(out'["webapp"]) : x \in Range(out["webapp"]) \/ x.kind # "unsubscribe",
         \A x \in Range(inbox'["webapp"]) : x \in Range(inbox["webapp"]) \/ x.kind # "ack"
  PROVE  ServedInv'
BY DEF ServedInv, Covered, Serving, NobodyLeft, Connected

LEMMA SentRange ==
  ASSUME OutOK, NEW x \in Packets("webapp"),
         out'["webapp"] = Append(out["webapp"], x) \/ out'["webapp"] = out["webapp"]
  PROVE  \A y \in Range(out'["webapp"]) : y \in Range(out["webapp"]) \/ y = x
<1>1. Range(Append(out["webapp"], x)) = Range(out["webapp"]) \cup {x}
  <2>1. out["webapp"] \in Seq(Packets("webapp"))
    BY Programs DEF OutOK
  <2> QED
    BY <2>1, Appending
<1> QED
  BY <1>1

LEMMA ServedSession ==
  ASSUME TypeOK, ServedInv, Session
  PROVE  ServedInv'
<1>1. SessionTypeOK /\ OutOK /\ InboxOK /\ SubscribedOK /\ TokenOK
  BY Parts, SessionParts
<1>2. UNCHANGED <<phase, route>>
  BY DEF Session, Unchanging
<1>3. ASSUME NEW p \in Program, Reconnect(p)
      PROVE  ServedInv'
  <2>1. /\ UNCHANGED <<subscribed, out, inbox, losses>> /\ ~Connected(p)
        /\ \A s \in Page : token[s] = "done" => token'[s] = "done"
    BY <1>1, <1>3, ReconnectedOK, Programs DEF Connected
  <2>2. losses # 0
    BY <2>1 DEF ServedInv
  <2> QED
    BY <1>2, <2>1, <2>2 DEF ServedInv, Serving
<1>4. ASSUME NEW p \in Program, BrokerTakes(p)
      PROVE  ServedInv'
  <2>1. /\ out[p] # << >> /\ out'[p] = Tail(out[p]) /\ out'[Peer[p]] = out[Peer[p]]
        /\ UNCHANGED <<status, token, losses>>
    BY <1>1, <1>4, BrokerCases
  <2>2. Range(out'[p]) \subseteq Range(out[p]) /\ Head(out[p]) \in Range(out[p])
    BY <1>1, <2>1, Taking DEF OutOK
  <2>3. Range(out'["webapp"]) \subseteq Range(out["webapp"])
    BY <2>1, <2>2, Programs DEF Program
  <2>4. inbox["webapp"] \in Seq(Arriving("webapp")) /\ inbox[p] \in Seq(Arriving(p))
    BY <1>1, Programs DEF InboxOK
  <2>5. CASE /\ Head(out[p]) \in Message(p)
             /\ inbox'[p] = inbox[p] /\ UNCHANGED subscribed
             /\ inbox'[Peer[p]] = Append(inbox[Peer[p]], Head(out[p])) \/ inbox'[Peer[p]] = inbox[Peer[p]]
    <3>1. \A x \in Range(inbox'["webapp"]) : x \in Range(inbox["webapp"]) \/ x.kind # "ack"
      <4>1. CASE inbox'["webapp"] = inbox["webapp"]
        BY <4>1
      <4>2. CASE Peer[p] = "webapp" /\ inbox'["webapp"] = Append(inbox["webapp"], Head(out[p]))
        <5>1. p = "meshspy" /\ Head(out[p]) \in Arriving("webapp") /\ Head(out[p]).kind = "message"
          BY <2>5, <4>2, Kinds, Programs DEF Arriving, Program
        <5> QED
          BY <2>4, <4>2, <5>1, Appending
      <4> QED
        BY <2>5, <4>1, <4>2, Programs DEF Program
    <3> QED
      BY <1>2, <2>1, <2>3, <2>5, <3>1, ServedStill
  <2>6. CASE /\ Head(out[p]) \in Request(p)
             /\ subscribed' = [subscribed EXCEPT ![p] = Head(out[p]).kind = "subscribe"]
             /\ \E a \in Ack(p) : inbox'[p] = Append(inbox[p], a)
             /\ inbox'[Peer[p]] = inbox[Peer[p]]
    <3>1. CASE p = "webapp"
      <4>1. losses = 0 /\ NobodyLeft => subscribed'["webapp"]
        BY <1>1, <2>2, <2>6, <3>1, Kinds DEF SubscribedOK, ServedInv, Covered
      <4> QED
        BY <1>2, <2>1, <2>3, <4>1 DEF ServedInv, Covered, Serving, NobodyLeft, Connected
    <3>2. CASE p = "meshspy"
      <4>1. subscribed'["webapp"] = subscribed["webapp"] /\ inbox'["webapp"] = inbox["webapp"]
        BY <1>1, <2>6, <3>2, Programs DEF SubscribedOK
      <4> QED
        BY <1>2, <2>1, <2>3, <4>1 DEF ServedInv, Covered, Serving, NobodyLeft, Connected
    <3> QED
      BY <3>1, <3>2 DEF Program
  <2> QED
    BY <1>1, <1>4, <2>5, <2>6, BrokerCases
<1>5. ASSUME NEW p \in Program, TakeAck(p)
      PROVE  ServedInv'
  <2>1. /\ UNCHANGED <<status, subscribed, out, losses>>
        /\ inbox[p] # << >> /\ Head(inbox[p]) \in Ack(p) /\ Head(inbox[p]).of.by \in Users(p)
        /\ inbox'[p] = Tail(inbox[p]) /\ inbox'[Peer[p]] = inbox[Peer[p]]
        /\ \A s \in Subscriber : token'[s] = token[s] \/ (s = Head(inbox[p]).of.by /\ token'[s] = "done")
    BY <1>1, <1>5, AckedOK
  <2>2. Range(inbox'[p]) \subseteq Range(inbox[p]) /\ Head(inbox[p]) \in Range(inbox[p])
    BY <1>1, <2>1, Taking DEF InboxOK
  <2>3. Range(inbox'["webapp"]) \subseteq Range(inbox["webapp"])
    BY <2>1, <2>2, Programs DEF Program
  <2>4. \A s \in Page : token'[s] = token[s] \/ (s = Head(inbox[p]).of.by /\ token'[s] = "done")
    BY <2>1, Programs
  <2>5. \A s \in Page : s = Head(inbox[p]).of.by => p = "webapp"
    BY <2>1, Programs DEF Users
  <2>6. Head(inbox[p]).kind = "ack"
    BY <2>1, Kinds
  <2>7. losses = 0 /\ NobodyLeft => \A s \in Page : token'[s] = "done" => subscribed["webapp"]
    BY <2>2, <2>4, <2>5, <2>6 DEF ServedInv, Covered
  <2>8. \A s \in Page : token[s] = "done" => token'[s] = "done"
    BY <2>4
  <2> QED
    BY <1>2, <2>1, <2>3, <2>7, <2>8 DEF ServedInv, Covered, Serving, NobodyLeft, Connected
<1> QED
  BY <1>3, <1>4, <1>5 DEF Session, SessionProgress

LEMMA ServedKept == TypeOK /\ ServedInv /\ [Next]_vars => ServedInv'
<1> SUFFICES ASSUME TypeOK, ServedInv, [Next]_vars
             PROVE  ServedInv'
  OBVIOUS
<1>1. SessionTypeOK /\ PagesOK /\ QueuesOK /\ SocketsOK /\ EndsOK
  BY Parts
<1>2. OutOK /\ InboxOK /\ TokenOK
  BY <1>1, SessionParts
<1>3. phase \in [Page -> Phases] /\ token \in [Subscriber -> {"none", "waiting", "done", "failed"}]
  BY <1>1, <1>2 DEF PagesOK, TokenOK
<1>4. ASSUME NEW p \in Page, OpenPage(p)
      PROVE  ServedInv'
  <2>1. /\ TypeOK' /\ UNCHANGED <<status, subscribed, inbox, losses>>
        /\ out'["webapp"] = Append(out["webapp"], [kind |-> "subscribe", by |-> p]) \/ out'["webapp"] = out["webapp"]
        /\ token' = [token EXCEPT ![p] = token'[p]] /\ token'[p] \in {"waiting", "failed"}
        /\ phase[p] = "none"
        /\ \/ Connected("webapp") /\ route' = p /\ phase' = [phase EXCEPT ![p] = "subscribing"]
           \/ ~Connected("webapp") /\ route' = route /\ phase' = [phase EXCEPT ![p] = "done"]
    BY <1>4, OpenedOK
  <2>2. [kind |-> "subscribe", by |-> p] \in Packets("webapp")
    BY Programs DEF Packets, Request
  <2>3. \A x \in Range(out'["webapp"]) : x \in Range(out["webapp"]) \/ x.kind = "subscribe"
    BY <1>2, <2>1, <2>2, SentRange
  <2>4. \A q \in Page : token'[q] # "done" \/ (q # p /\ token'[q] = token[q])
    BY <1>3, <2>1, Programs
  <2>5. \A q \in Page : (q # p /\ phase'[q] = phase[q]) \/ phase'[q] \in {"subscribing", "done"}
    BY <1>3, <2>1
  <2>6. \A q \in Serving' : q \in Serving /\ token'[q] = "done"
    BY <1>3, <2>1, <2>5, Programs DEF Serving, ServedInv
  <2>7. p # "nobody"
    BY PageNames
  <2>8. losses = 0 => Connected("webapp")
    BY Programs DEF ServedInv
  <2>9. losses' = 0 /\ NobodyLeft' => losses = 0 /\ NobodyLeft /\ route' = p
    BY <1>3, <2>1, <2>8 DEF NobodyLeft
  <2>10. losses' = 0 /\ NobodyLeft' => Covered'
    BY <2>1, <2>3, <2>4, <2>7, <2>9 DEF ServedInv, Covered
  <2>11. losses' = 0 => \A q \in Program : Connected(q)'
    BY <2>1 DEF ServedInv, Connected
  <2> QED
    BY <2>6, <2>10, <2>11 DEF ServedInv
<1>5. ASSUME NEW p \in Page, Handler(p)
      PROVE  ServedInv'
  <2>1. /\ UNCHANGED <<status, subscribed, inbox, token, losses>>
        /\ phase[p] \notin {"none", "done"} /\ phase' = [phase EXCEPT ![p] = phase'[p]]
        /\ phase'[p] \in {"reading", "leaving", "done"}
        /\ phase'[p] = "reading" => /\ token[p] = "done" \/ phase[p] = "echoing"
                                    /\ phase[p] # "leaving" /\ UNCHANGED <<out, route>>
    BY <1>5, HandlerOK
  <2>2. \A q \in Serving' : token'[q] = "done"
    BY <1>3, <2>1 DEF ServedInv, Serving
  <2>3. losses' = 0 => \A q \in Program : Connected(q)'
    BY <2>1 DEF ServedInv, Connected
  <2>4. losses' = 0 /\ NobodyLeft' => phase'[p] = "reading" /\ losses = 0 /\ NobodyLeft
    BY <1>3, <2>1 DEF NobodyLeft
  <2>5. losses' = 0 /\ NobodyLeft' => Covered'
    BY <1>3, <2>1, <2>4 DEF ServedInv, Covered
  <2> QED
    BY <2>2, <2>3, <2>5 DEF ServedInv
<1>6. ASSUME NEW p \in Page, Read(p)
      PROVE  ServedInv'
  <2>1. UNCHANGED <<sessionVars, route>> /\ phase[p] = "reading" /\ phase' = [phase EXCEPT ![p] = "echoing"]
    BY <1>6, ReadOK
  <2>2. Serving' = Serving /\ NobodyLeft' = NobodyLeft /\ \A q \in Page : phase'[q] # "none" <=> phase[q] # "none"
    BY <1>3, <2>1 DEF Serving, NobodyLeft
  <2> QED
    BY <2>1, <2>2 DEF ServedInv, Covered, Connected, sessionVars
<1>7. ASSUME NEW p \in Page, Publish(p)
      PROVE  ServedInv'
  <2> DEFINE m == [kind |-> "message", from |-> p, n |-> Head(queue[p])]
  <2>1. /\ OutOK' /\ m \in Message("webapp")
        /\ out'["webapp"] = Append(out["webapp"], m) \/ UNCHANGED out
    BY <1>1, <1>7, PublishedOK
  <2>2. m \in Packets("webapp") /\ m.kind = "message"
    BY <2>1 DEF Packets
  <2>3. \A x \in Range(out'["webapp"]) : x \in Range(out["webapp"]) \/ x.kind # "unsubscribe"
    BY <1>2, <2>1, <2>2, SentRange
  <2> QED
    BY <1>7, <2>3, ServedStill DEF Publish
<1>8. CASE Deliver
  <2>1. inbox["webapp"] # << >> /\ inbox'["webapp"] = Tail(inbox["webapp"])
    BY <1>1, <1>8, DeliveredOK
  <2>2. Range(inbox'["webapp"]) \subseteq Range(inbox["webapp"])
    BY <1>2, <2>1, Taking, Programs DEF InboxOK
  <2> QED
    BY <1>8, <2>2, ServedStill DEF Deliver
<1>9. CASE MeshCommand
  <2>1. inbox'["webapp"] = inbox["webapp"]
    BY <1>1, <1>9, CommandedOK
  <2> QED
    BY <1>9, <2>1, ServedStill DEF MeshCommand
<1>10. CASE MeshPublish
  <2>1. out'["webapp"] = out["webapp"]
    BY <1>1, <1>10, MeshPublishedOK
  <2> QED
    BY <1>10, <2>1, ServedStill DEF MeshPublish
<1>11. ASSUME NEW p \in Program, Lose(p), Unchanging
       PROVE  ServedInv'
  <2>1. losses' # 0 /\ \A s \in Subscriber : token[s] = "done" => token'[s] = "done"
    BY <1>1, <1>11, LoseOK
  <2>2. Serving' = Serving
    BY <1>11 DEF Serving, Unchanging
  <2> QED
    BY <2>1, <2>2, Programs DEF ServedInv, Serving
<1>12. CASE Session
  BY <1>12, ServedSession
<1>13. CASE (\E p \in Page : Leave(p)) \/ EndDeliver \/ UNCHANGED vars
  BY <1>13, ServedStill DEF Leave, EndDeliver, vars, sessionVars
<1> QED
  BY <1>4, <1>5, <1>6, <1>7, <1>8, <1>9, <1>10, <1>11, <1>12, <1>13 DEF Next, Progress, Loss

(* Until a connection is lost or a handler ends, a page that is served has *)
(* the subscription in force and a callback (webapp/main.go 111-122).      *)
THEOREM ServedWhileAllStay == Spec => []ServedUntilSomeoneLeaves
<1>1. ServedInv => ServedUntilSomeoneLeaves
  BY DEF ServedInv, Covered, ServedUntilSomeoneLeaves, Serving
<1> QED
  BY <1>1, InitTypes, TypesKept, ServedInit, ServedKept, PTL DEF Spec

-----------------------------------------------------------------------------
(***************************************************************************)
(* The way of what page p typed: its queue, what webapp has sent, what the *)
(* broker has forwarded to meshspy, the commands.  Along it, and within    *)
(* each part, the numbers fall; the number still to come is the largest.   *)
(***************************************************************************)
Is(x, p) == x.kind = "message" /\ x.from = p
Numbered(p, n) == [kind |-> "message", from |-> p, n |-> n]

Arrived == {Numbered(commands[i][1], commands[i][2]) : i \in DOMAIN commands}
Forwarded == Range(inbox["meshspy"])
Sent == Range(out["webapp"])
Waiting(p) == {Numbered(p, queue[p][i]) : i \in DOMAIN queue[p]}
Coming(p) == {Numbered(p, typed[p] + 1)}

Before(S, T, p) == \A x \in S, y \in T : Is(x, p) /\ Is(y, p) => x.n < y.n
Rising(s) == \A i, j \in DOMAIN s : i < j => s[i] < s[j]
Ascending(s, p) == \A i, j \in DOMAIN s : i < j /\ Is(s[i], p) /\ Is(s[j], p) => s[i].n < s[j].n

InOrder(p) == /\ Ascending(inbox["meshspy"], p) /\ Ascending(out["webapp"], p) /\ Rising(queue[p])
              /\ Before(Arrived, Forwarded \cup Sent \cup Waiting(p) \cup Coming(p), p)
              /\ Before(Forwarded, Sent \cup Waiting(p) \cup Coming(p), p)
              /\ Before(Sent, Waiting(p) \cup Coming(p), p)
              /\ Before(Waiting(p), Coming(p), p)

(* Of the messages of p, t has no other than s, in the same order.         *)
Fewer(t, s, p) == /\ \A x \in Range(t) : Is(x, p) => x \in Range(s)
                  /\ Ascending(s, p) => Ascending(t, p)

LEMMA FewerTail ==
  ASSUME NEW S, NEW s \in Seq(S), s # << >>, NEW p
  PROVE  /\ Fewer(Tail(s), s, p)
         /\ Ascending(s, p) => Before({Head(s)}, Range(Tail(s)), p)
<1>1. /\ Range(Tail(s)) \subseteq Range(s) /\ 1 \in DOMAIN s /\ Head(s) = s[1]
      /\ \A i \in DOMAIN Tail(s) : i \in Nat /\ i + 1 \in DOMAIN s /\ 1 < i + 1 /\ Tail(s)[i] = s[i + 1]
  BY Taking
<1>2. Ascending(s, p) => Ascending(Tail(s), p)
  <2> SUFFICES ASSUME Ascending(s, p), NEW i \in DOMAIN Tail(s), NEW j \in DOMAIN Tail(s), i < j,
                      Is(Tail(s)[i], p), Is(Tail(s)[j], p)
               PROVE  Tail(s)[i].n < Tail(s)[j].n
    BY DEF Ascending
  <2>1. i + 1 < j + 1
    BY <1>1
  <2> QED
    BY <1>1, <2>1 DEF Ascending
<1>3. Ascending(s, p) => Before({Head(s)}, Range(Tail(s)), p)
  BY <1>1 DEF Ascending, Before, Range
<1> QED
  BY <1>1, <1>2, <1>3 DEF Fewer

LEMMA AscendingAppend ==
  ASSUME NEW S, NEW s \in Seq(S), NEW x \in S, NEW p, Ascending(s, p), Before(Range(s), {x}, p)
  PROVE  Ascending(Append(s, x), p)
<1>1. /\ \A i \in 1..Len(s) : Append(s, x)[i] = s[i]
      /\ Append(s, x)[Len(s) + 1] = x /\ Len(Append(s, x)) = Len(s) + 1 /\ Append(s, x) \in Seq(S)
  BY AppendProperties
<1>2. DOMAIN s = 1..Len(s) /\ DOMAIN Append(s, x) = 1..(Len(s) + 1) /\ Len(s) \in Nat
  BY <1>1, LenProperties
<1> SUFFICES ASSUME NEW i \in DOMAIN Append(s, x), NEW j \in DOMAIN Append(s, x), i < j,
                    Is(Append(s, x)[i], p), Is(Append(s, x)[j], p)
             PROVE  Append(s, x)[i].n < Append(s, x)[j].n
  BY DEF Ascending
<1>3. i \in DOMAIN s /\ Append(s, x)[i] = s[i]
  BY <1>1, <1>2
<1>4. CASE j \in DOMAIN s
  BY <1>1, <1>2, <1>3, <1>4 DEF Ascending
<1>5. CASE j = Len(s) + 1
  BY <1>1, <1>3, <1>5 DEF Before, Range
<1> QED
  BY <1>2, <1>4, <1>5

LEMMA FewerAppend ==
  ASSUME NEW S, NEW s \in Seq(S), NEW x \in S, NEW p, ~Is(x, p)
  PROVE  Fewer(Append(s, x), s, p)
<1>1. Range(Append(s, x)) = Range(s) \cup {x}
  BY Appending
<1>2. Ascending(s, p) => Ascending(Append(s, x), p)
  BY AscendingAppend DEF Before
<1> QED
  BY <1>1, <1>2 DEF Fewer

LEMMA FewerNone ==
  ASSUME NEW t, NEW s, NEW p, \A x \in Range(t) : x.kind # "message"
  PROVE  Fewer(t, s, p)
BY DEF Fewer, Ascending, Is, Range

LEMMA FewerSame == \A s, p : Fewer(s, s, p)
BY DEF Fewer

(* A step on which nothing of p moves on.                                  *)
LEMMA StillInOrder ==
  ASSUME NEW p \in Page, InOrder(p), UNCHANGED commands, queue'[p] = queue[p], typed'[p] = typed[p],
         Fewer(inbox'["meshspy"], inbox["meshspy"], p), Fewer(out'["webapp"], out["webapp"], p)
  PROVE  InOrder(p)'
<1>1. Arrived' = Arrived /\ Waiting(p)' = Waiting(p) /\ Coming(p)' = Coming(p)
  BY DEF Arrived, Waiting, Coming
<1>2. \A x \in Forwarded' : Is(x, p) => x \in Forwarded
  BY DEF Fewer, Forwarded
<1>3. \A x \in Sent' : Is(x, p) => x \in Sent
  BY DEF Fewer, Sent
<1>4. Ascending(inbox'["meshspy"], p) /\ Ascending(out'["webapp"], p) /\ Rising(queue'[p])
  BY DEF InOrder, Fewer
<1>5. Before(Arrived', Forwarded' \cup Sent' \cup Waiting(p)' \cup Coming(p)', p)
  BY <1>1, <1>2, <1>3 DEF InOrder, Before
<1>6. Before(Forwarded', Sent' \cup Waiting(p)' \cup Coming(p)', p)
  BY <1>1, <1>2, <1>3 DEF InOrder, Before
<1>7. Before(Sent', Waiting(p)' \cup Coming(p)', p) /\ Before(Waiting(p)', Coming(p)', p)
  BY <1>1, <1>2, <1>3 DEF InOrder, Before
<1> QED
  BY <1>4, <1>5, <1>6, <1>7 DEF InOrder

LEMMA InitInOrder == Init => \A p \in Page : InOrder(p)
<1> SUFFICES ASSUME Init, NEW p \in Page
             PROVE  InOrder(p)
  OBVIOUS
<1>1. commands = << >> /\ inbox["meshspy"] = << >> /\ out["webapp"] = << >> /\ queue[p] = << >>
  BY Programs DEF Init, SessionInit
<1>2. Arrived = {} /\ Forwarded = {} /\ Sent = {} /\ Waiting(p) = {}
  BY <1>1, Nothing DEF Arrived, Forwarded, Sent, Waiting
<1>3. Ascending(inbox["meshspy"], p) /\ Ascending(out["webapp"], p) /\ Rising(queue[p])
  BY <1>1 DEF Ascending, Rising
<1> QED
  BY <1>2, <1>3 DEF InOrder, Before

(* What is typed has the largest number so far.                            *)
LEMMA ReadInOrder ==
  ASSUME TypeOK, NEW p \in Page, InOrder(p), NEW q \in Page, Read(q)
  PROVE  InOrder(p)'
<1>1. /\ UNCHANGED <<sessionVars, commands>> /\ typed' = [typed EXCEPT ![q] = @ + 1]
      /\ queue'[q] = Append(queue[q], typed[q] + 1) \/ queue'[q] = queue[q]
      /\ \A r \in Page \ {q} : queue'[r] = queue[r]
  BY ReadOK
<1>2. typed \in [Page -> Nat] /\ queue[p] \in Seq(Nat \ {0})
  BY Parts DEF QueuesOK
<1>3. CASE p # q
  <2>1. queue'[p] = queue[p] /\ typed'[p] = typed[p]
    BY <1>1, <1>2, <1>3
  <2> QED
    BY <1>1, <2>1, StillInOrder, FewerSame DEF sessionVars
<1>4. CASE p = q
  <2> DEFINE n == typed[p] + 1
  <2>1. n \in Nat \ {0} /\ typed'[p] = n /\ n < n + 1
    BY <1>1, <1>2, <1>4
  <2>2. Forwarded' = Forwarded /\ Sent' = Sent /\ Arrived' = Arrived
    BY <1>1 DEF Forwarded, Sent, Arrived, sessionVars
  <2>3. Coming(p) = {Numbered(p, n)} /\ Coming(p)' = {Numbered(p, n + 1)}
    BY <2>1 DEF Coming
  <2>4. Numbered(p, n).n = n /\ Is(Numbered(p, n), p) /\ Numbered(p, n + 1).n = n + 1
    BY DEF Numbered, Is
  <2>5. Waiting(p)' \subseteq Waiting(p) \cup {Numbered(p, n)} /\ Rising(queue'[p])
    <3>1. CASE queue'[p] = queue[p]
      BY <3>1 DEF Waiting, InOrder
    <3>2. CASE queue'[p] = Append(queue[p], n)
      <4>1. /\ \A i \in 1..Len(queue[p]) : Append(queue[p], n)[i] = queue[p][i]
            /\ Append(queue[p], n)[Len(queue[p]) + 1] = n /\ Len(Append(queue[p], n)) = Len(queue[p]) + 1
            /\ Append(queue[p], n) \in Seq(Nat \ {0})
        BY <1>2, <2>1, AppendProperties
      <4>2. /\ DOMAIN queue[p] = 1..Len(queue[p]) /\ DOMAIN Append(queue[p], n) = 1..(Len(queue[p]) + 1)
            /\ Len(queue[p]) \in Nat
        BY <1>2, <4>1, LenProperties
      <4>3. Waiting(p)' \subseteq Waiting(p) \cup {Numbered(p, n)}
        BY <3>2, <4>1, <4>2 DEF Waiting
      <4>4. \A i \in DOMAIN queue[p] : queue[p][i] < n
        <5> SUFFICES ASSUME NEW i \in DOMAIN queue[p]
                     PROVE  queue[p][i] < n
          OBVIOUS
        <5>1. Numbered(p, queue[p][i]) \in Waiting(p) /\ Is(Numbered(p, queue[p][i]), p) /\ Numbered(p, queue[p][i]).n = queue[p][i]
          BY DEF Waiting, Numbered, Is
        <5> QED
          BY <2>3, <2>4, <5>1 DEF InOrder, Before
      <4>5. Rising(queue'[p])
        <5> SUFFICES ASSUME NEW i \in DOMAIN queue'[p], NEW j \in DOMAIN queue'[p], i < j
                     PROVE  queue'[p][i] < queue'[p][j]
          BY DEF Rising
        <5>1. i \in DOMAIN queue[p] /\ queue'[p][i] = queue[p][i]
          BY <3>2, <4>1, <4>2
        <5>2. CASE j \in DOMAIN queue[p]
          <6>1. queue'[p][j] = queue[p][j]
            BY <3>2, <4>1, <4>2, <5>2
          <6> QED
            BY <5>1, <5>2, <6>1 DEF InOrder, Rising
        <5>3. CASE j = Len(queue[p]) + 1
          BY <3>2, <4>1, <4>4, <5>1, <5>3
        <5> QED
          BY <3>2, <4>2, <5>2, <5>3
      <4> QED
        BY <4>3, <4>5
    <3> QED
      BY <1>1, <1>4, <3>1, <3>2
  <2> HIDE DEF n
  <2>6. \A x \in Arrived \cup Forwarded \cup Sent \cup Waiting(p) : Is(x, p) => x.n < n
    BY <2>3, <2>4 DEF InOrder, Before
  <2>7. \A x \in Arrived \cup Forwarded \cup Sent \cup Waiting(p) : Is(x, p) => x.n \in Int
    <3>1. /\ inbox["meshspy"] \in Seq(Arriving("meshspy")) /\ out["webapp"] \in Seq(Packets("webapp"))
          /\ commands \in Seq(Page \X (Nat \ {0}))
      BY Parts, SessionParts, Programs DEF OutOK, InboxOK, EndsOK
    <3>2. \A x \in Forwarded : Is(x, p) => x.n \in Int
      <4>1. \A x \in Forwarded : x \in Arriving("meshspy")
        BY <3>1, ElementOfSeq, LenProperties DEF Forwarded, Range
      <4> QED
        BY <4>1, Kinds, Programs DEF Is, Arriving
    <3>3. \A x \in Sent : Is(x, p) => x.n \in Int
      <4>1. \A x \in Sent : x \in Packets("webapp")
        BY <3>1, ElementOfSeq, LenProperties DEF Sent, Range
      <4> QED
        BY <4>1, Kinds, Programs DEF Is, Packets
    <3>4. \A x \in Waiting(p) : x.n \in Int
      <4>1. \A i \in DOMAIN queue[p] : queue[p][i] \in Nat
        BY <1>2, ElementOfSeq, LenProperties
      <4> QED
        BY <4>1 DEF Waiting, Numbered
    <3>5. \A x \in Arrived : x.n \in Int
      <4>1. \A i \in DOMAIN commands : commands[i] \in Page \X (Nat \ {0})
        BY <3>1, ElementOfSeq, LenProperties
      <4> QED
        BY <4>1 DEF Arrived, Numbered
    <3> QED
      BY <3>2, <3>3, <3>4, <3>5
  <2>8. \A x \in Arrived \cup Forwarded \cup Sent \cup Waiting(p)' : Is(x, p) => x.n < n + 1
    BY <2>1, <2>4, <2>5, <2>6, <2>7
  <2>9. Before(Arrived \cup Forwarded \cup Sent \cup Waiting(p)', Coming(p)', p)
    BY <2>3, <2>4, <2>8 DEF Before
  <2>10. Before(Arrived \cup Forwarded \cup Sent, Waiting(p)', p)
    BY <2>4, <2>5, <2>6 DEF InOrder, Before
  <2>11. Ascending(inbox'["meshspy"], p) /\ Ascending(out'["webapp"], p) /\ Rising(queue'[p])
    BY <1>1, <2>5 DEF InOrder, sessionVars
  <2>12. /\ Before(Arrived', Forwarded' \cup Sent' \cup Waiting(p)' \cup Coming(p)', p)
         /\ Before(Forwarded', Sent' \cup Waiting(p)' \cup Coming(p)', p)
         /\ Before(Sent', Waiting(p)' \cup Coming(p)', p)
         /\ Before(Waiting(p)', Coming(p)', p)
    BY <2>2, <2>9, <2>10 DEF InOrder, Before
  <2> QED
    BY <2>11, <2>12 DEF InOrder
<1> QED
  BY <1>3, <1>4

(* The head of the queue moves on behind what was sent, or is dropped.     *)
LEMMA PublishInOrder ==
  ASSUME TypeOK, NEW p \in Page, InOrder(p), NEW q \in Page, Publish(q)
  PROVE  InOrder(p)'
<1> DEFINE m == [kind |-> "message", from |-> q, n |-> Head(queue[q])]
<1>1. /\ UNCHANGED <<inbox, typed, commands>>
      /\ out'["webapp"] = Append(out["webapp"], m) \/ out'["webapp"] = out["webapp"]
      /\ m \in Message("webapp") /\ queue[q] # << >>
      /\ queue'[q] = Tail(queue[q]) /\ \A r \in Page \ {q} : queue'[r] = queue[r]
  BY PublishedOK, Parts DEF Publish, endVars
<1>2. m \in Packets("webapp") /\ out["webapp"] \in Seq(Packets("webapp"))
  BY <1>1, Parts, SessionParts, Programs DEF Packets, OutOK
<1>3. CASE p # q
  <2>1. queue'[p] = queue[p] /\ ~Is(m, p)
    BY <1>1, <1>3 DEF Is
  <2> HIDE DEF m
  <2>2. Fewer(out'["webapp"], out["webapp"], p)
    BY <1>1, <1>2, <2>1, FewerAppend, FewerSame
  <2> QED
    BY <1>1, <2>1, <2>2, StillInOrder, FewerSame
<1>4. CASE p = q
  <2>1. queue[p] \in Seq(Nat \ {0})
    BY Parts DEF QueuesOK
  <2>2. /\ 1 \in DOMAIN queue[p] /\ Head(queue[p]) = queue[p][1]
        /\ \A i \in DOMAIN queue'[p] : i \in Nat /\ i + 1 \in DOMAIN queue[p] /\ 1 < i + 1 /\ queue'[p][i] = queue[p][i + 1]
    <3>1. queue[p] # << >> /\ queue'[p] = Tail(queue[p])
      BY <1>1, <1>4
    <3>2. /\ 1 \in DOMAIN queue[p] /\ Head(queue[p]) = queue[p][1]
          /\ \A i \in DOMAIN Tail(queue[p]) : /\ i \in Nat /\ i + 1 \in DOMAIN queue[p] /\ 1 < i + 1
                                             /\ Tail(queue[p])[i] = queue[p][i + 1]
      BY <2>1, <3>1, Taking
    <3> QED
      BY <3>1, <3>2
  <2>3. m \in Waiting(p) /\ m.n = queue[p][1]
    BY <1>4, <2>2 DEF Waiting, Numbered
  <2>4. Waiting(p)' \subseteq Waiting(p)
    BY <2>2 DEF Waiting
  <2>5. Before({m}, Waiting(p)', p)
    BY <2>2, <2>3 DEF Waiting, Numbered, Before, InOrder, Rising
  <2>6. Rising(queue'[p])
    <3> SUFFICES ASSUME NEW i \in DOMAIN queue'[p], NEW j \in DOMAIN queue'[p], i < j
                 PROVE  queue'[p][i] < queue'[p][j]
      BY DEF Rising
    <3>1. i + 1 < j + 1
      BY <2>2
    <3> QED
      BY <2>2, <3>1 DEF InOrder, Rising
  <2> HIDE DEF m
  <2>7. Sent' \subseteq Sent \cup {m}
    <3>1. Range(Append(out["webapp"], m)) = Range(out["webapp"]) \cup {m}
      BY <1>2, Appending
    <3> QED
      BY <1>1, <3>1 DEF Sent
  <2>8. Before(Sent, {m}, p)
    BY <2>3 DEF InOrder, Before
  <2>9. Ascending(out'["webapp"], p)
    BY <1>1, <1>2, <2>8, AscendingAppend DEF InOrder, Sent
  <2>10. Arrived' = Arrived /\ Forwarded' = Forwarded /\ Coming(p)' = Coming(p)
    BY <1>1 DEF Arrived, Forwarded, Coming
  <2>11. /\ Before(Arrived', Forwarded' \cup Sent' \cup Waiting(p)' \cup Coming(p)', p)
         /\ Before(Forwarded', Sent' \cup Waiting(p)' \cup Coming(p)', p)
    BY <2>3, <2>4, <2>7, <2>10 DEF InOrder, Before
  <2>12. Before(Sent', Waiting(p)' \cup Coming(p)', p) /\ Before(Waiting(p)', Coming(p)', p)
    BY <2>3, <2>4, <2>5, <2>7, <2>10 DEF InOrder, Before
  <2> QED
    BY <1>1, <2>6, <2>9, <2>11, <2>12 DEF InOrder
<1> QED
  BY <1>3, <1>4

(* What was sent first is forwarded next, or dropped.                      *)
LEMMA BrokerInOrder ==
  ASSUME TypeOK, NEW p \in Page, InOrder(p), NEW q \in Program, BrokerTakes(q), Unchanging
  PROVE  InOrder(p)'
<1>1. UNCHANGED <<typed, queue, commands>>
  BY DEF Unchanging, queueVars, endVars
<1>2. /\ out["webapp"] \in Seq(Packets("webapp")) /\ inbox["meshspy"] \in Seq(Arriving("meshspy"))
      /\ SessionTypeOK
  BY Parts, SessionParts, Programs DEF OutOK, InboxOK
<1>3. CASE q = "meshspy"
  <2>1. out'["webapp"] = out["webapp"]
    BY <1>2, <1>3, BrokerCases, Programs
  <2>2. inbox'["meshspy"] = inbox["meshspy"] \/ \E a \in Ack("meshspy") : inbox'["meshspy"] = Append(inbox["meshspy"], a)
    BY <1>2, <1>3, BrokerCases
  <2>3. \A a \in Ack("meshspy") : a \in Arriving("meshspy") /\ ~Is(a, p)
    BY Kinds, Programs DEF Arriving, Is
  <2>4. Fewer(inbox'["meshspy"], inbox["meshspy"], p)
    BY <1>2, <2>2, <2>3, FewerAppend, FewerSame
  <2> QED
    BY <1>1, <2>1, <2>4, StillInOrder, FewerSame
<1>4. CASE q = "webapp"
  <2> DEFINE m == Head(out["webapp"])
  <2>1. /\ out["webapp"] # << >> /\ out'["webapp"] = Tail(out["webapp"])
        /\ \/ m \in Message("webapp") /\ inbox'["meshspy"] = Append(inbox["meshspy"], m)
           \/ inbox'["meshspy"] = inbox["meshspy"]
    BY <1>2, <1>4, BrokerCases, Programs
  <2>2. m \in Sent /\ Fewer(out'["webapp"], out["webapp"], p)
    BY <1>2, <2>1, Taking, FewerTail DEF Sent
  <2>3. Before({m}, Sent', p)
    BY <1>2, <2>1, FewerTail DEF Sent, InOrder
  <2> HIDE DEF m
  <2>4. CASE inbox'["meshspy"] = inbox["meshspy"]
    BY <1>1, <2>2, <2>4, StillInOrder, FewerSame
  <2>5. CASE m \in Message("webapp") /\ inbox'["meshspy"] = Append(inbox["meshspy"], m)
    <3>1. m \in Arriving("meshspy")
      BY <2>5, Programs DEF Arriving
    <3>2. Forwarded' = Forwarded \cup {m}
      BY <1>2, <2>5, <3>1, Appending DEF Forwarded
    <3>3. \A x \in Sent' : Is(x, p) => x \in Sent
      BY <2>2 DEF Fewer, Sent
    <3>4. Before(Forwarded, {m}, p)
      BY <2>2 DEF InOrder, Before
    <3>5. Ascending(inbox'["meshspy"], p) /\ Ascending(out'["webapp"], p)
      BY <1>2, <2>2, <2>5, <3>1, <3>4, AscendingAppend DEF InOrder, Fewer, Forwarded
    <3>6. Arrived' = Arrived /\ Waiting(p)' = Waiting(p) /\ Coming(p)' = Coming(p)
      BY <1>1 DEF Arrived, Waiting, Coming
    <3>7. /\ Before(Arrived', Forwarded' \cup Sent' \cup Waiting(p)' \cup Coming(p)', p)
          /\ Before(Sent', Waiting(p)' \cup Coming(p)', p) /\ Before(Waiting(p)', Coming(p)', p)
      BY <2>2, <3>2, <3>3, <3>6 DEF InOrder, Before
    <3>8. Before(Forwarded', Sent' \cup Waiting(p)' \cup Coming(p)', p)
      BY <2>2, <2>3, <3>2, <3>3, <3>6 DEF InOrder, Before
    <3> QED
      BY <1>1, <3>5, <3>7, <3>8 DEF InOrder
  <2> QED
    BY <2>1, <2>4, <2>5
<1> QED
  BY <1>3, <1>4 DEF Program

LEMMA CommandInOrder ==
  ASSUME TypeOK, NEW p \in Page, InOrder(p), MeshCommand
  PROVE  InOrder(p)'
<1> DEFINE m == Head(inbox["meshspy"])
<1>1. /\ UNCHANGED <<out, typed, queue>>
      /\ inbox["meshspy"] # << >> /\ inbox'["meshspy"] = Tail(inbox["meshspy"])
      /\ m \in Message("webapp") /\ commands' = Append(commands, <<m.from, m.n>>)
      /\ <<m.from, m.n>> \in Page \X (Nat \ {0})
  BY Parts, CommandedOK DEF MeshCommand, queueVars
<1>2. inbox["meshspy"] \in Seq(Arriving("meshspy")) /\ commands \in Seq(Page \X (Nat \ {0}))
  BY Parts, SessionParts, Programs DEF InboxOK, EndsOK
<1>3. m \in Forwarded /\ Fewer(inbox'["meshspy"], inbox["meshspy"], p) /\ Before({m}, Forwarded', p)
  <2>1. m \in Range(inbox["meshspy"])
    BY <1>1, <1>2, Taking
  <2>2. Fewer(Tail(inbox["meshspy"]), inbox["meshspy"], p) /\ Before({m}, Range(Tail(inbox["meshspy"])), p)
    BY <1>1, <1>2, FewerTail DEF InOrder
  <2> HIDE DEF m
  <2> QED
    BY <1>1, <2>1, <2>2 DEF Forwarded
<1>4. \A x \in Forwarded' : Is(x, p) => x \in Forwarded
  BY <1>3 DEF Fewer, Forwarded
<1> HIDE DEF m
<1>5. Numbered(m.from, m.n) = m
  BY <1>1 DEF Message, Numbered
<1>6. \A x \in Arrived' : x \in Arrived \/ x = m
  <2>1. /\ \A i \in 1..Len(commands) : commands'[i] = commands[i]
        /\ commands'[Len(commands) + 1] = <<m.from, m.n>> /\ Len(commands') = Len(commands) + 1
        /\ commands' \in Seq(Page \X (Nat \ {0}))
    BY <1>1, <1>2, AppendProperties
  <2>2. DOMAIN commands = 1..Len(commands) /\ DOMAIN commands' = 1..(Len(commands) + 1) /\ Len(commands) \in Nat
    BY <1>2, <2>1, LenProperties
  <2>3. \A i \in DOMAIN commands' : \/ i \in DOMAIN commands /\ commands'[i] = commands[i]
                                    \/ commands'[i][1] = m.from /\ commands'[i][2] = m.n
    BY <2>1, <2>2
  <2> QED
    BY <1>5, <2>3 DEF Arrived
<1>7. Sent' = Sent /\ Waiting(p)' = Waiting(p) /\ Coming(p)' = Coming(p)
  BY <1>1 DEF Sent, Waiting, Coming
<1>8. Before(Arrived', Forwarded' \cup Sent' \cup Waiting(p)' \cup Coming(p)', p)
  BY <1>3, <1>4, <1>6, <1>7 DEF InOrder, Before
<1>9. /\ Before(Forwarded', Sent' \cup Waiting(p)' \cup Coming(p)', p)
      /\ Before(Sent', Waiting(p)' \cup Coming(p)', p) /\ Before(Waiting(p)', Coming(p)', p)
  BY <1>4, <1>7 DEF InOrder, Before
<1>10. Ascending(inbox'["meshspy"], p) /\ Ascending(out'["webapp"], p) /\ Rising(queue'[p])
  BY <1>1, <1>3 DEF InOrder, Fewer
<1> QED
  BY <1>8, <1>9, <1>10 DEF InOrder

(* Requests, acknowledgements and losses.                                  *)
LEMMA RequestInOrder ==
  ASSUME TypeOK, NEW p \in Page, InOrder(p), UNCHANGED <<inbox, typed, queue, commands>>,
         NEW r \in Packets("webapp"), r.kind # "message",
         out'["webapp"] = Append(out["webapp"], r) \/ out'["webapp"] = out["webapp"]
  PROVE  InOrder(p)'
<1>1. out["webapp"] \in Seq(Packets("webapp")) /\ ~Is(r, p)
  BY Parts, SessionParts, Programs DEF OutOK, Is
<1>2. Fewer(out'["webapp"], out["webapp"], p)
  BY <1>1, FewerAppend, FewerSame
<1> QED
  BY <1>2, StillInOrder, FewerSame

LEMMA AckInOrder ==
  ASSUME TypeOK, NEW p \in Page, InOrder(p), UNCHANGED <<typed, queue, commands>>,
         NEW q \in Program, TakeAck(q)
  PROVE  InOrder(p)'
<1>1. /\ UNCHANGED out /\ inbox[q] # << >>
      /\ inbox'[q] = Tail(inbox[q]) /\ inbox'[Peer[q]] = inbox[Peer[q]]
  BY Parts, AckedOK
<1>2. inbox["meshspy"] \in Seq(Arriving("meshspy"))
  BY Parts, SessionParts, Programs DEF InboxOK
<1>3. \/ inbox["meshspy"] # << >> /\ inbox'["meshspy"] = Tail(inbox["meshspy"])
      \/ inbox'["meshspy"] = inbox["meshspy"]
  BY <1>1, Programs DEF Program
<1>4. Fewer(inbox'["meshspy"], inbox["meshspy"], p)
  BY <1>2, <1>3, FewerTail, FewerSame
<1> QED
  BY <1>1, <1>4, StillInOrder, FewerSame

LEMMA LossInOrder ==
  ASSUME TypeOK, NEW p \in Page, InOrder(p), UNCHANGED <<typed, queue, commands>>,
         NEW q \in Program, Lose(q)
  PROVE  InOrder(p)'
<1>1. /\ \A x \in Range(out'[q]) : x.kind # "message"
      /\ out'[Peer[q]] = out[Peer[q]]
      /\ inbox'[q] = << >> /\ inbox'[Peer[q]] = inbox[Peer[q]]
  BY Parts, LoseOK
<1>2. Fewer(out'["webapp"], out["webapp"], p)
  BY <1>1, FewerNone, FewerSame, Programs DEF Program
<1>3. Fewer(inbox'["meshspy"], inbox["meshspy"], p)
  BY <1>1, FewerNone, FewerSame, Programs, Nothing DEF Program
<1> QED
  BY <1>2, <1>3, StillInOrder

LEMMA OrderKept == TypeOK /\ (\A p \in Page : InOrder(p)) /\ [Next]_vars => (\A p \in Page : InOrder(p))'
<1> SUFFICES ASSUME TypeOK, \A p \in Page : InOrder(p), [Next]_vars, NEW p \in Page
             PROVE  InOrder(p)'
  OBVIOUS
<1>1. InOrder(p) /\ SessionTypeOK /\ PagesOK /\ QueuesOK /\ SocketsOK /\ EndsOK
  BY Parts
<1>2. ASSUME NEW q \in Page, OpenPage(q)
      PROVE  InOrder(p)'
  <2> DEFINE r == [kind |-> "subscribe", by |-> q]
  <2>1. r \in Packets("webapp") /\ r.kind # "message"
    BY Programs DEF Packets, Request
  <2>2. /\ UNCHANGED <<inbox, typed, queue, commands>>
        /\ out'["webapp"] = Append(out["webapp"], r) \/ out'["webapp"] = out["webapp"]
    BY <1>2, OpenedOK DEF queueVars
  <2> HIDE DEF r
  <2> QED
    BY <1>1, <2>1, <2>2, RequestInOrder
<1>3. ASSUME NEW q \in Page, Handler(q)
      PROVE  InOrder(p)'
  <2> DEFINE r == Unsubscribing(q)
  <2>1. r \in Packets("webapp") /\ r.kind # "message"
    BY Programs DEF Packets, Request, Unsubscribing
  <2>2. /\ UNCHANGED <<inbox, typed, queue, commands>>
        /\ out'["webapp"] = Append(out["webapp"], r) \/ out'["webapp"] = out["webapp"]
    BY <1>3, HandlerOK DEF queueVars
  <2> HIDE DEF r
  <2> QED
    BY <1>1, <2>1, <2>2, RequestInOrder
<1>4. ASSUME NEW q \in Page, Read(q)
      PROVE  InOrder(p)'
  BY <1>1, <1>4, ReadInOrder
<1>5. ASSUME NEW q \in Page, Publish(q)
      PROVE  InOrder(p)'
  BY <1>1, <1>5, PublishInOrder
<1>6. CASE Deliver
  <2>1. inbox'["meshspy"] = inbox["meshspy"]
    BY <1>1, <1>6, DeliveredOK
  <2> QED
    BY <1>1, <1>6, <2>1, StillInOrder, FewerSame DEF Deliver, queueVars
<1>7. CASE MeshCommand
  BY <1>1, <1>7, CommandInOrder
<1>8. CASE MeshPublish
  <2>1. out'["webapp"] = out["webapp"]
    BY <1>1, <1>8, MeshPublishedOK
  <2> QED
    BY <1>1, <1>8, <2>1, StillInOrder, FewerSame DEF MeshPublish, queueVars
<1>9. CASE Loss
  BY <1>1, <1>9, LossInOrder DEF Loss, Unchanging, queueVars, endVars
<1>10. CASE Session
  <2>1. Unchanging /\ UNCHANGED <<typed, queue, commands>>
    BY <1>10 DEF Session, Unchanging, queueVars, endVars
  <2>2. ASSUME NEW q \in Program, Reconnect(q)
        PROVE  InOrder(p)'
    BY <1>1, <2>1, <2>2, ReconnectedOK, StillInOrder, FewerSame
  <2> QED
    BY <1>1, <1>10, <2>1, <2>2, BrokerInOrder, AckInOrder DEF Session, SessionProgress
<1>11. CASE (\E q \in Page : Leave(q)) \/ EndDeliver \/ UNCHANGED vars
  BY <1>1, <1>11, StillInOrder, FewerSame DEF Leave, EndDeliver, vars, sessionVars, queueVars, endVars
<1> QED
  BY <1>2, <1>3, <1>4, <1>5, <1>6, <1>7, <1>8, <1>9, <1>10, <1>11 DEF Next, Progress

-----------------------------------------------------------------------------
(***************************************************************************)
(* The steps of the bridge are steps of the relay.                         *)
(***************************************************************************)
LEMMA SaysOneMore ==
  ASSUME TypeOK, NEW p \in Page, Read(p)
  PROVE  CommandRelay!Next
<1>1. typed' = [typed EXCEPT ![p] = @ + 1] /\ UNCHANGED commands
  BY ReadOK
<1> QED
  BY <1>1 DEF CommandRelay!Next, CommandRelay!Say

LEMMA ArrivesInOrder ==
  ASSUME TypeOK, \A p \in Page : InOrder(p), MeshCommand
  PROVE  CommandRelay!Next
<1> DEFINE m == Head(inbox["meshspy"])
<1>1. /\ UNCHANGED typed /\ inbox["meshspy"] # << >>
      /\ m \in Message("webapp") /\ commands' = Append(commands, <<m.from, m.n>>)
      /\ m.from \in Page /\ m.n \in Nat \ {0}
  BY Parts, CommandedOK DEF MeshCommand, queueVars
<1>2. m \in Forwarded
  <2>1. inbox["meshspy"] \in Seq(Arriving("meshspy"))
    BY Parts, SessionParts, Programs DEF InboxOK
  <2> QED
    BY <1>1, <2>1, Taking DEF Forwarded
<1> HIDE DEF m
<1>3. Is(m, m.from)
  BY <1>1, Kinds, Programs DEF Is
<1>4. m.n \in 1..typed[m.from]
  <2>1. m.n < typed[m.from] + 1
    <3>1. Before(Forwarded, Coming(m.from), m.from)
      BY <1>1 DEF InOrder, Before
    <3>2. Numbered(m.from, typed[m.from] + 1) \in Coming(m.from)
      BY DEF Coming
    <3> QED
      BY <1>2, <1>3, <3>1, <3>2 DEF Before, Is, Numbered
  <2>2. typed[m.from] \in Nat
    BY <1>1, Parts DEF QueuesOK
  <2> QED
    BY <1>1, <2>1, <2>2
<1>5. \A i \in DOMAIN commands : commands[i][1] = m.from => commands[i][2] < m.n
  <2> SUFFICES ASSUME NEW i \in DOMAIN commands, commands[i][1] = m.from
               PROVE  commands[i][2] < m.n
    OBVIOUS
  <2>1. Before(Arrived, Forwarded, m.from)
    BY <1>1 DEF InOrder, Before
  <2>2. Numbered(commands[i][1], commands[i][2]) \in Arrived
    BY DEF Arrived
  <2> QED
    BY <1>2, <1>3, <2>1, <2>2 DEF Before, Is, Numbered
<1>6. CommandRelay!Arrive(m.from, m.n)
  BY <1>1, <1>4, <1>5 DEF CommandRelay!Arrive
<1> QED
  BY <1>1, <1>4, <1>6 DEF CommandRelay!Next

(* Every step either types, or hands a command to meshspy, or leaves both  *)
(* ends of the relay alone.                                                *)
LEMMA StepsOfTheRelay ==
  TypeOK /\ (\A p \in Page : InOrder(p)) /\ [Next]_vars => [CommandRelay!Next]_<<typed, commands>>
<1> SUFFICES ASSUME TypeOK, \A p \in Page : InOrder(p), [Next]_vars
             PROVE  CommandRelay!Next \/ UNCHANGED <<typed, commands>>
  OBVIOUS
<1>1. ASSUME NEW p \in Page, OpenPage(p) \/ Leave(p) \/ Handler(p) \/ Publish(p)
      PROVE  UNCHANGED <<typed, commands>>
  BY <1>1 DEF OpenPage, Leave, Handler, EndSubscribe, EndEcho, ReadError, EndReturn, Publish, queueVars, endVars
<1>2. CASE Deliver \/ EndDeliver \/ MeshPublish \/ Loss \/ Session \/ UNCHANGED vars
  BY <1>2 DEF Deliver, EndDeliver, MeshPublish, Loss, Session, Unchanging, vars, queueVars, endVars
<1> QED
  BY <1>1, <1>2, SaysOneMore, ArrivesInOrder DEF Next, Progress

(* What pages type reaches the callback of meshspy in order and at most    *)
(* once: the bridge implements the relay (webapp/main.go 95-109, 128-146). *)
THEOREM CommandsAreRelayed == Spec => CommandsRelayed
<1>1. Init => CommandRelay!Init
  BY DEF Init, CommandRelay!Init
<1> QED
  BY <1>1, InitTypes, TypesKept, InitInOrder, OrderKept, StepsOfTheRelay, PTL
  DEF Spec, CommandsRelayed, CommandRelay!Spec
================================================================================
