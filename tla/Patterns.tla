------------------------------ MODULE Patterns ------------------------------
(***************************************************************************)
(* The one-way patterns (protocol/push, pull, pair, pub, sub, bus, star)   *)
(* and the loopback device (device.go), end to end: sockets at several     *)
(* nodes, connected by links that come up once and may fail.  Every node   *)
(* speaks the same pattern; in "pipeline" and "pubsub" the nodes of Source *)
(* are the PUSH or PUB sockets, the others PULL or SUB.  The sockets stay  *)
(* open: closing is the subject of SocketCore.                             *)
(*                                                                         *)
(* The message that a sending goroutine has in hand counts as the last one *)
(* of its queue; a link hands one message at a time to a receiver.         *)
(***************************************************************************)
EXTENDS Integers, Sequences, FiniteSets

CONSTANTS
  Node, NoNode,
  Link,         \* the connections that may be made: pairs {n, k} of nodes
  Source,       \* the PUB or PUSH nodes
  Talker,       \* bound: the PAIR, BUS or STAR nodes whose application sends
  Device,       \* BUS nodes that are loopback devices
  Protocol,     \* the patterns considered
  MaxMsg,       \* bound: messages sent
  MaxTopic,     \* topic k is the prefix of length k of one string
  TTL,          \* the values of STAR's x.ttl that are considered
  QLen, UwqLen, UrqLen

Pattern == {"pipeline", "pair", "pubsub", "bus", "star"}

ASSUME PatternAssumption ==
  /\ IsFiniteSet(Node) /\ NoNode \notin Node
  /\ \A l \in Link : \E n, k \in Node : n # k /\ l = {n, k}
  /\ Source \subseteq Node /\ Talker \subseteq Node /\ Device \subseteq Node
  /\ Protocol \subseteq Pattern
  /\ MaxMsg \in Nat /\ MaxTopic \in Nat /\ TTL \subseteq Nat
  /\ QLen \in Nat /\ UwqLen \in Nat /\ UrqLen \in Nat

VARIABLES
  proto, ttl,   \* the pattern of this run, and STAR's x.ttl
  conn,         \* conn[l]: "none", "up" or "down"
  called,       \* called[n][k]: "none", "added", "removed": calls for n's pipe to k
  eps,          \* eps[n]: the nodes in n's endpoint table (pair: x.peer)
  uwq, urq,     \* the upper queues of each socket
  q,            \* q[n][k]: queue of n's endpoint to k (PUB, BUS, STAR)
  in,           \* in[n][k]: what n's receiver for k holds
  fwd,          \* fwd[n]: what the two forwarders of a device hold
  subs,         \* subs[n]: subscriptions of a SUB socket
  nmsg, origin, \* messages sent and who sent them
  got           \* got[n][m]: how often n's application received m (2: more than once)

connVars == <<conn, called, eps>>
appVars == <<subs, nmsg, origin, got>>
vars == <<proto, ttl, connVars, uwq, urq, q, in, fwd, appVars>>

Msg == 1 .. MaxMsg
Topic == 0 .. MaxTopic
Copy == [id : Msg, hops : Nat, via : Node \union {NoNode}, topic : Topic]
NoMsg == [id |-> 0, hops |-> 0, via |-> NoNode, topic |-> 0]

Init ==
  /\ proto \in Protocol /\ ttl \in IF proto = "star" THEN TTL ELSE {0}
  /\ conn = [l \in Link |-> "none"]
  /\ called = [n \in Node |-> [k \in Node |-> "none"]]
  /\ eps = [n \in Node |-> {}]
  /\ uwq = [n \in Node |-> <<>>] /\ urq = [n \in Node |-> <<>>]
  /\ q = [n \in Node |-> [k \in Node |-> <<>>]]
  /\ in = [n \in Node |-> [k \in Node |-> NoMsg]]
  /\ fwd = [n \in Node |-> {}]
  /\ subs = [n \in Node |-> <<>>]
  /\ nmsg = 0 /\ origin = [m \in Msg |-> NoNode]
  /\ got = [n \in Node |-> [m \in Msg |-> 0]]

-----------------------------------------------------------------------------
(* Connections.                                                            *)

Symmetric == proto \in {"pair", "bus", "star"}

(* The protocols of the two ends must fit.                                 *)
Dial(l) ==
  /\ conn[l] = "none"
  /\ Symmetric \/ Cardinality(l \intersect Source) = 1
  /\ conn' = [conn EXCEPT ![l] = "up"]
  /\ UNCHANGED <<proto, ttl, called, eps, uwq, urq, q, in, fwd, appVars>>

PipeDown(l) ==
  /\ conn[l] = "up"
  /\ conn' = [conn EXCEPT ![l] = "down"]
  /\ UNCHANGED <<proto, ttl, called, eps, uwq, urq, q, in, fwd, appVars>>

(* AddEndpoint of each protocol.  (PULL and SUB only start a receiver;     *)
(* their tables here say that it runs.)                                    *)
Enlist(n, k) == eps' = [eps EXCEPT ![n] = @ \union {k}] /\ UNCHANGED conn

PushAdd(n, k) == proto = "pipeline" /\ Enlist(n, k)
PubAdd(n, k) == proto = "pubsub" /\ Enlist(n, k)
BusAdd(n, k) == proto = "bus" /\ Enlist(n, k)
StarAdd(n, k) == proto = "star" /\ Enlist(n, k)

PairAdd(n, k) ==
  /\ proto = "pair"
  /\ \/ eps[n] = {} /\ Enlist(n, k)
     \/ eps[n] # {} /\ conn' = [conn EXCEPT ![{n, k}] = "down"] /\ UNCHANGED eps

(* The connection may have failed by then.                                 *)
AddEndpoint(n, k) ==
  /\ {n, k} \in Link /\ conn[{n, k}] # "none" /\ called[n][k] = "none"
  /\ called' = [called EXCEPT ![n][k] = "added"]
  /\ \/ PushAdd(n, k) \/ PubAdd(n, k) \/ BusAdd(n, k) \/ StarAdd(n, k)
     \/ PairAdd(n, k)
  /\ UNCHANGED <<proto, ttl, uwq, urq, q, in, fwd, appVars>>

DropAnyPeer(n, k) == IF proto = "pair" THEN {} ELSE eps[n] \ {k}  \* mutant: no peer.ep == ep

DropPeer(n, k) == eps[n] \ {k}

Delist(n, k) ==
  /\ called' = [called EXCEPT ![n][k] = "removed"]
  /\ eps' = [eps EXCEPT ![n] = DropPeer(n, k)]

(* Closing the queue of an endpoint gives up what is left in it.           *)
CloseQueue(n, k) == q' = [q EXCEPT ![n][k] = <<>>]

PushRemove(n, k) == proto = "pipeline" /\ UNCHANGED q
PairRemove(n, k) == proto = "pair" /\ UNCHANGED q
PubRemove(n, k) == proto = "pubsub" /\ CloseQueue(n, k)
BusRemove(n, k) == proto = "bus" /\ CloseQueue(n, k)
StarRemove(n, k) == proto = "star" /\ CloseQueue(n, k)

RemoveEndpoint(n, k) ==
  /\ called[n][k] = "added" /\ conn[{n, k}] = "down" /\ Delist(n, k)
  /\ \/ PushRemove(n, k) \/ PairRemove(n, k)
     \/ PubRemove(n, k) \/ BusRemove(n, k) \/ StarRemove(n, k)
  /\ UNCHANGED <<proto, ttl, conn, uwq, urq, in, fwd, appVars>>

-----------------------------------------------------------------------------
(* The application: SendMsg, RecvMsg, and the options of SUB.              *)

Send(n) ==
  /\ n \in IF Symmetric THEN Talker ELSE Source   \* SUB, PULL: ErrProtoOp
  /\ n \notin Device \/ proto # "bus"
  /\ nmsg < MaxMsg /\ Len(uwq[n]) < UwqLen
  /\ nmsg' = nmsg + 1
  /\ origin' = [origin EXCEPT ![nmsg + 1] = n]
  /\ \E t \in IF proto = "pubsub" THEN Topic ELSE {0} :
       uwq' = [uwq EXCEPT ![n] =
                 Append(@, [id |-> nmsg + 1, hops |-> 0, via |-> NoNode, topic |-> t])]
  /\ UNCHANGED <<proto, ttl, connVars, urq, q, in, fwd, subs, got>>

Recv(n) ==
  /\ urq[n] # <<>>
  /\ n \notin Device \/ proto # "bus"
  /\ got' = [got EXCEPT ![n][Head(urq[n]).id] = IF @ < 2 THEN @ + 1 ELSE 2]
  /\ urq' = [urq EXCEPT ![n] = Tail(@)]
  /\ UNCHANGED <<proto, ttl, connVars, uwq, q, in, fwd, subs, nmsg, origin>>

Held(n) == {subs[n][i] : i \in 1 .. Len(subs[n])}

SubscribeTo(n, s) == IF s \in Held(n) THEN subs[n] ELSE Append(subs[n], s)

Subscribe(n, s) ==
  /\ proto = "pubsub" /\ n \notin Source /\ Len(subs[n]) <= MaxTopic
  /\ subs' = [subs EXCEPT ![n] = SubscribeTo(n, s)]
  /\ UNCHANGED <<proto, ttl, connVars, uwq, urq, q, in, fwd, nmsg, origin, got>>

(* The last subscription takes the place of the one removed.               *)
Unsubscribe(n, i) ==
  LET last == Len(subs[n]) IN
  /\ proto = "pubsub" /\ i \in 1 .. last
  /\ \A j \in 1 .. i - 1 : subs[n][j] # subs[n][i]
  /\ subs' = [subs EXCEPT ![n] = SubSeq([subs[n] EXCEPT ![i] = subs[n][last]], 1, last - 1)]
  /\ UNCHANGED <<proto, ttl, connVars, uwq, urq, q, in, fwd, nmsg, origin, got>>

-----------------------------------------------------------------------------
(* Sending.  A copy goes to every queue in S that has room.                *)

Offer(n, c, S) ==
  [k \in Node |-> IF k \in S /\ Len(q[n][k]) < QLen THEN Append(q[n][k], c) ELSE q[n][k]]

Broadcast(n, S) ==
  /\ uwq[n] # <<>>
  /\ q' = [q EXCEPT ![n] = Offer(n, Head(uwq[n]), S)]
  /\ uwq' = [uwq EXCEPT ![n] = Tail(@)]
  /\ UNCHANGED <<proto, ttl, connVars, urq, in, fwd, appVars>>

PubSend(n) == proto = "pubsub" /\ Broadcast(n, eps[n])

BusAll(n, c) == eps[n]                           \* mutant: the sender is not skipped

BusOthers(n, c) == eps[n] \ {c.via}

BusSend(n) == proto = "bus" /\ Broadcast(n, BusOthers(n, Head(uwq[n])))

StarSend(n) == proto = "star" /\ Broadcast(n, eps[n])

(* The sender of an endpoint passes its next message over the link.        *)
Transmit(n, k) ==
  /\ q[n][k] # <<>> /\ {n, k} \in Link /\ conn[{n, k}] = "up" /\ in[k][n] = NoMsg
  /\ in' = [in EXCEPT ![k][n] = Head(q[n][k])]
  /\ q' = [q EXCEPT ![n][k] = Tail(@)]
  /\ UNCHANGED <<proto, ttl, connVars, uwq, urq, fwd, appVars>>

(* PUSH and PAIR have no queue per endpoint: their senders compete for uwq.*)
Take(n, k) ==
  /\ k \in eps[n] /\ uwq[n] # <<>> /\ conn[{n, k}] = "up" /\ in[k][n] = NoMsg
  /\ in' = [in EXCEPT ![k][n] = Head(uwq[n])]
  /\ uwq' = [uwq EXCEPT ![n] = Tail(@)]
  /\ UNCHANGED <<proto, ttl, connVars, urq, q, fwd, appVars>>

Requeue(n) == Append(Tail(uwq[n]), Head(uwq[n])) \* mutant: a failed message is sent again

Discard(n) == Tail(uwq[n])

(* SendMsg fails on a link that is down: the message is freed, and the     *)
(* pipe closes, which removes the endpoint.                                *)
Lose(n, k) ==
  /\ k \in eps[n] /\ uwq[n] # <<>> /\ conn[{n, k}] = "down"
  /\ uwq' = [uwq EXCEPT ![n] = Discard(n)]
  /\ Delist(n, k)
  /\ UNCHANGED <<proto, ttl, conn, urq, q, in, fwd, appVars>>

PushSend(n, k) == proto = "pipeline" /\ (Take(n, k) \/ Lose(n, k))

PairSend(n, k) == proto = "pair" /\ (Take(n, k) \/ Lose(n, k))

-----------------------------------------------------------------------------
(* Receiving: wait for room in urq, or give up the message.                *)

Received(n, k) == in' = [in EXCEPT ![n][k] = NoMsg]
PushUp(n, c) == Len(urq[n]) < UrqLen /\ urq' = [urq EXCEPT ![n] = Append(@, c)]
UpOrDrop(n, c) == PushUp(n, c) \/ (Len(urq[n]) >= UrqLen /\ UNCHANGED urq)

PullRecv(n, k) ==
  /\ proto = "pipeline" /\ PushUp(n, in[n][k]) /\ Received(n, k)
  /\ UNCHANGED <<proto, ttl, connVars, uwq, q, fwd, appVars>>

PairRecv(n, k) ==
  /\ proto = "pair" /\ PushUp(n, in[n][k]) /\ Received(n, k)
  /\ UNCHANGED <<proto, ttl, connVars, uwq, q, fwd, appVars>>

Matches(n, c) == \E s \in Held(n) : s <= c.topic

SubRecv(n, k) ==
  /\ proto = "pubsub" /\ Received(n, k)
  /\ \/ Matches(n, in[n][k]) /\ UpOrDrop(n, in[n][k])
     \/ ~Matches(n, in[n][k]) /\ UNCHANGED urq
  /\ UNCHANGED <<proto, ttl, connVars, uwq, q, fwd, appVars>>

(* The pipe's id becomes the header, for the benefit of devices.           *)
BusRecv(n, k) ==
  /\ proto = "bus" /\ Received(n, k)
  /\ UpOrDrop(n, [in[n][k] EXCEPT !.via = k])
  /\ UNCHANGED <<proto, ttl, connVars, uwq, q, fwd, appVars>>

SameHops(c) == c                                 \* mutant: the hop count stays

NextHop(c) == [c EXCEPT !.hops = @ + 1]

StarAll(n, k) == eps[n]                          \* mutant: sent back where it came from

StarOthers(n, k) == eps[n] \ {k}

(* A message is passed on to all other peers, and up.                      *)
StarRecv(n, k) ==
  /\ proto = "star" /\ Received(n, k)
  /\ \/ /\ in[n][k].hops < ttl
        /\ q' = [q EXCEPT ![n] = Offer(n, NextHop(in[n][k]), StarOthers(n, k))]
        /\ UpOrDrop(n, NextHop(in[n][k]))
     \/ in[n][k].hops >= ttl /\ UNCHANGED <<q, urq>>
  /\ UNCHANGED <<proto, ttl, connVars, uwq, fwd, appVars>>

Ready(n, k) == in[n][k] # NoMsg

RecvStep(n, k) ==
  /\ Ready(n, k)
  /\ PullRecv(n, k) \/ PairRecv(n, k) \/ SubRecv(n, k) \/ BusRecv(n, k) \/ StarRecv(n, k)

(* Device on one socket starts two forwarders, both from it and to it.     *)
FwdTake(n) ==
  /\ proto = "bus" /\ n \in Device /\ urq[n] # <<>> /\ Cardinality(fwd[n]) < 2
  /\ fwd' = [fwd EXCEPT ![n] = @ \union {Head(urq[n])}]
  /\ urq' = [urq EXCEPT ![n] = Tail(@)]
  /\ UNCHANGED <<proto, ttl, connVars, uwq, q, in, appVars>>

FwdSend(n, c) ==
  /\ Len(uwq[n]) < UwqLen
  /\ uwq' = [uwq EXCEPT ![n] = Append(@, c)]
  /\ fwd' = [fwd EXCEPT ![n] = @ \ {c}]
  /\ UNCHANGED <<proto, ttl, connVars, urq, q, in, appVars>>

-----------------------------------------------------------------------------
SendStep(n) == PubSend(n) \/ BusSend(n) \/ StarSend(n)
PeerStep(n, k) == Transmit(n, k) \/ PushSend(n, k) \/ PairSend(n, k)
FwdStep(n) == FwdTake(n) \/ \E c \in fwd[n] : FwdSend(n, c)

Next ==
  \/ \E l \in Link : Dial(l) \/ PipeDown(l)
  \/ \E n \in Node : Send(n) \/ Recv(n) \/ SendStep(n) \/ FwdStep(n)
  \/ \E n, k \in Node : \/ AddEndpoint(n, k) \/ RemoveEndpoint(n, k)
                        \/ PeerStep(n, k) \/ RecvStep(n, k)
  \/ \E n \in Node, s \in Topic : Subscribe(n, s) \/ Unsubscribe(n, s + 1)

SafeSpec == Init /\ [][Next]_vars

-----------------------------------------------------------------------------
(* Properties.                                                             *)

(* Every variable has its type.                                            *)
TypeOK ==
  /\ proto \in Protocol /\ ttl \in Nat
  /\ conn \in [Link -> {"none", "up", "down"}]
  /\ called \in [Node -> [Node -> {"none", "added", "removed"}]]
  /\ eps \in [Node -> SUBSET Node]
  /\ uwq \in [Node -> Seq(Copy)] /\ urq \in [Node -> Seq(Copy)]
  /\ q \in [Node -> [Node -> Seq(Copy)]]
  /\ in \in [Node -> [Node -> Copy \union {NoMsg}]]
  /\ fwd \in [Node -> SUBSET Copy]
  /\ subs \in [Node -> Seq(Topic)]
  /\ nmsg \in 0 .. MaxMsg /\ origin \in [Msg -> Node \union {NoNode}]
  /\ got \in [Node -> [Msg -> 0 .. 2]]

(* The links made so far contain no cycle: every set of them leaves some   *)
(* node with just one.                                                     *)
Forest ==
  LET made == {l \in Link : conn[l] # "none"} IN
  \A L \in (SUBSET made) \ {{}} : \E n \in Node : Cardinality({l \in L : n \in l}) = 1

(* In a topology without cycles no application receives a message twice;   *)
(* in PUSH/PULL and PAIR no two applications receive the same message.     *)
AtMostOnce ==
  \A m \in Msg :
    /\ Forest => \A n \in Node : got[n][m] <= 1
    /\ proto \in {"pipeline", "pair"} => Cardinality({n \in Node : got[n][m] > 0}) <= 1

(* In a topology without cycles a message does not come back to its        *)
(* sender, through a STAR or a BUS device either.                          *)
NoEcho == Forest => \A m \in 1 .. nmsg : got[origin[m]][m] = 0

(* An application receives what another one sent in the order it was sent, *)
(* also when connections fail; a loopback device, with its two forwarders, *)
(* may reorder.                                                            *)
InOrder ==
  [][\A n \in Node, m \in Msg :
       got'[n][m] # got[n][m] /\ (proto = "bus" => Device = {}) /\ Forest =>
         \A k \in m + 1 .. nmsg : origin[k] = origin[m] => got[n][k] = 0]_vars

(* A connection that is up has its place in the endpoint table, and so a   *)
(* sender: PAIR's refusal of a second connection does not disturb the      *)
(* first (AddEndpoint, RemoveEndpoint).                                    *)
Served ==
  \A n, k \in Node :
    called[n][k] = "added" /\ {n, k} \in Link /\ conn[{n, k}] = "up" => k \in eps[n]

(* The nodes that links made so far join to n in at most j steps.          *)
Within(n) ==
  LET W[j \in Nat] ==
        IF j = 0 THEN {n}
        ELSE W[j - 1] \union {k \in Node : \E h \in W[j - 1] :
                                 {h, k} \in Link /\ conn[{h, k}] # "none"}
  IN W

(* In a topology without cycles STAR's hop count says how far a message    *)
(* has come: as far as the node that sent it when it is under way, as far  *)
(* as this node, and no further than the TTL, when it is passed up         *)
(* (star.SendHook, receiver, broadcast).                                   *)
HopsCount ==
  LET Far(c, n) == c.hops = Cardinality({j \in 0 .. Cardinality(Node) :
                                            n \notin Within(origin[c.id])[j]})
  IN proto = "star" /\ Forest =>
       \A n \in Node :
         /\ \A k \in Node : in[n][k] # NoMsg => Far(in[n][k], k)
         /\ \A i \in 1 .. Len(urq[n]) : Far(urq[n][i], n) /\ urq[n][i].hops <= ttl

=============================================================================
