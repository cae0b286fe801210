------------------------------- MODULE Relay --------------------------------
(***************************************************************************)
(* Requests and surveys that reach their server through devices: cooked    *)
(* REQ or SURVEYOR sockets at the clients, cooked REP or RESPONDENT ones   *)
(* at the servers, and between them devices (device.go), each a raw REP or *)
(* RESPONDENT socket in front and a raw REQ or SURVEYOR socket behind,     *)
(* with a forwarder in each direction.  An edge <<x, y>> is the connection *)
(* of x's asking socket to y's answering one.                              *)
(*                                                                         *)
(* Header and body of a message are, together, the ids of the pipes that   *)
(* lead back (the backtrace), the request id and the payload: a record of  *)
(* the backtrace, the client and the number of its request.  What a        *)
(* goroutine has in hand counts as the first of the queue it came from; a  *)
(* REQ message that could not be sent, and is taken by the sender of       *)
(* another connection, counts as not yet taken.  The sockets stay open:    *)
(* closing is the subject of other modules.                                *)
(***************************************************************************)
EXTENDS Integers, Sequences, FiniteSets

CONSTANTS
  Client, Device, Server,
  Topology,     \* the sets of edges considered
  Kind,         \* which of "reqrep" and "survey" are considered
  MaxReq,       \* bound: requests of a client
  MaxCopies,    \* bound: busy queues and connections when a client retries
  MaxLoss,      \* bound: connections that fail
  TTL,          \* r.ttl
  QLen,         \* capacity of an endpoint's queue (2 and 1 in the code)
  UqLen         \* capacity of the upper queues

Edge == UNION Topology
Asking == Client \union Device
Answering == Device \union Server

ASSUME RelayAssumption ==
  /\ Edge \subseteq Asking \X Answering
  /\ Client \intersect Answering = {} /\ Server \intersect Asking = {}
  /\ Kind \subseteq {"reqrep", "survey"}
  /\ MaxReq \in Nat /\ MaxCopies \in Nat /\ MaxLoss \in Nat /\ TTL \in Nat
  /\ QLen \in Nat \ {0} /\ UqLen \in Nat \ {0}

VARIABLES
  kind, edges,  \* the pattern and the topology of this run
  id, nextID,   \* id[e]: pipe id at the answering end, 0: not connected; the next id there
  ask, ans,     \* requests and replies under way on a connection
  deaf,         \* connections whose receiver at the answering end has returned
  urq, uwq,     \* the upper queues of the answering socket of each node
  burq, buwq,   \* those of the asking socket
  nreq, cur,    \* nreq[c]: requests that c has made; cur[c]: the one it waits for, or 0
  lost          \* connections that have failed

connVars == <<id, nextID, lost>>
wireVars == <<ask, ans, deaf>>
sockVars == <<urq, uwq, burq, buwq>>
cliVars  == <<nreq, cur>>
vars == <<kind, edges, connVars, wireVars, sockVars, cliVars>>

Message == [trace : Seq(Nat), from : Client, num : Nat]

Init ==
  /\ kind \in Kind /\ edges \in Topology
  /\ id = [e \in Edge |-> 0] /\ nextID = [y \in Answering |-> 1]
  /\ ask = [e \in Edge |-> <<>>] /\ ans = [e \in Edge |-> <<>>] /\ deaf = {}
  /\ urq = [y \in Answering |-> <<>>] /\ uwq = [y \in Answering |-> <<>>]
  /\ burq = [x \in Asking |-> <<>>] /\ buwq = [x \in Asking |-> <<>>]
  /\ nreq = [c \in Client |-> 0] /\ cur = [c \in Client |-> 0] /\ lost = 0

Out(x) == {e \in edges : e[1] = x}
In(y) == {e \in edges : e[2] = y}

-----------------------------------------------------------------------------
(* Connections.  Pipe ids are unique within a node, not between nodes.     *)

LowestFree(y) ==                             \* mutant: the id of a closed pipe is reused
  CHOOSE i \in 1 .. Cardinality(In(y)) + 1 :
    /\ \A e \in In(y) : id[e] # i
    /\ \A j \in 1 .. i - 1 : \E e \in In(y) : id[e] = j

NewID(y) == nextID[y]

AddEndpoint(e) ==
  LET y == e[2] IN
  /\ id[e] = 0
  /\ id' = [id EXCEPT ![e] = NewID(y)]
  /\ nextID' = [nextID EXCEPT ![y] = @ + 1]
  /\ UNCHANGED <<kind, edges, lost, wireVars, sockVars, cliVars>>

(* The connection fails, and both ends remove their endpoints.             *)
RemoveEndpoint(e) ==
  /\ id[e] # 0 /\ lost < MaxLoss
  /\ lost' = lost + 1
  /\ id' = [id EXCEPT ![e] = 0]
  /\ ask' = [ask EXCEPT ![e] = <<>>] /\ ans' = [ans EXCEPT ![e] = <<>>]
  /\ deaf' = deaf \ {e}
  /\ UNCHANGED <<kind, edges, nextID, sockVars, cliVars>>

-----------------------------------------------------------------------------
(* The clients.  A retry goes to the first connection that has room.       *)

SendMsg(c) ==
  /\ Out(c) # {} /\ nreq[c] < MaxReq /\ Len(buwq[c]) < UqLen
  /\ nreq' = [nreq EXCEPT ![c] = @ + 1]
  /\ cur' = [cur EXCEPT ![c] = nreq[c] + 1]
  /\ buwq' = [buwq EXCEPT ![c] = Append(@, [trace |-> <<>>, from |-> c, num |-> nreq[c] + 1])]
  /\ UNCHANGED <<kind, edges, connVars, wireVars, urq, uwq, burq>>

Room(e) == id[e] # 0 /\ ask[e] = <<>>

Busy(f) == Cardinality({x \in DOMAIN f : f[x] # <<>>})
Copies == Busy(ask) + Busy(ans) + Busy(urq) + Busy(uwq) + Busy(burq) + Busy(buwq)

NoRetry(c) == FALSE                          \* mutant: the timer is not set

Retry(c) == kind = "reqrep" /\ cur[c] # 0

Resend(e) ==
  /\ e[1] \in Client /\ Retry(e[1]) /\ Room(e)
  /\ Copies < MaxCopies
  /\ ask' = [ask EXCEPT ![e] = <<[trace |-> <<>>, from |-> e[1], num |-> cur[e[1]]]>>]
  /\ UNCHANGED <<kind, edges, connVars, ans, deaf, sockVars, cliVars>>

(* RecvHook compares the first word with the id of the current request.    *)
Matches(c, m) == m.trace = <<>> /\ m.from = c /\ m.num = cur[c]

RecvMsg(c) ==
  /\ burq[c] # <<>>
  /\ burq' = [burq EXCEPT ![c] = Tail(@)]
  /\ cur' = [cur EXCEPT ![c] = IF kind = "reqrep" /\ Matches(c, Head(burq[c])) THEN 0 ELSE @]
  /\ UNCHANGED <<kind, edges, connVars, wireVars, urq, uwq, buwq, nreq>>

-----------------------------------------------------------------------------
(* The asking sockets, of clients and devices.                             *)

(* The senders of the connections compete for the queue.                   *)
ReqSend(e) ==
  LET x == e[1] IN
  /\ kind = "reqrep" /\ buwq[x] # <<>> /\ Room(e)
  /\ ask' = [ask EXCEPT ![e] = <<Head(buwq[x])>>]
  /\ buwq' = [buwq EXCEPT ![x] = Tail(@)]
  /\ UNCHANGED <<kind, edges, connVars, ans, deaf, urq, uwq, burq, cliVars>>

SurveySend(x) ==
  /\ kind = "survey" /\ buwq[x] # <<>>
  /\ ask' = [e \in Edge |-> IF e \in Out(x) /\ Room(e) THEN <<Head(buwq[x])>> ELSE ask[e]]
  /\ buwq' = [buwq EXCEPT ![x] = Tail(@)]
  /\ UNCHANGED <<kind, edges, connVars, ans, deaf, urq, uwq, burq, cliVars>>

(* The receiver moves one word to the header.                              *)
BackRecv(e) ==
  LET x == e[1] IN
  /\ ans[e] # <<>> /\ Len(burq[x]) < UqLen
  /\ burq' = [burq EXCEPT ![x] = Append(@, Head(ans[e]))]
  /\ ans' = [ans EXCEPT ![e] = Tail(@)]
  /\ UNCHANGED <<kind, edges, connVars, ask, deaf, urq, uwq, buwq, cliVars>>

ReqRecv(e) == kind = "reqrep" /\ BackRecv(e)
SurveyRecv(e) == kind = "survey" /\ BackRecv(e)

-----------------------------------------------------------------------------
(* The answering sockets, of devices and servers.                          *)

(* The words up to the request id, which ends the backtrace.               *)
InTTL(m) == Len(m.trace) < TTL

NoTrace(e, m) == m                           \* mutant: the pipe's id is not added

AddTrace(e, m) == [m EXCEPT !.trace = <<id[e]>> \o @]

FrontRecv(e) ==
  LET y == e[2] IN
  /\ InTTL(Head(ask[e])) /\ Len(urq[y]) < UqLen
  /\ urq' = [urq EXCEPT ![y] = Append(@, AddTrace(e, Head(ask[e])))]
  /\ UNCHANGED deaf

(* A message that has come too far: REP's receiver returns, RESPONDENT's   *)
(* goes on with the next one.                                              *)
RepRecv(e) ==
  /\ kind = "reqrep" /\ ask[e] # <<>> /\ e \notin deaf
  /\ \/ FrontRecv(e)
     \/ ~InTTL(Head(ask[e])) /\ deaf' = deaf \union {e} /\ UNCHANGED urq
  /\ ask' = [ask EXCEPT ![e] = <<>>]
  /\ UNCHANGED <<kind, edges, connVars, ans, uwq, burq, buwq, cliVars>>

RespondentRecv(e) ==
  /\ kind = "survey" /\ ask[e] # <<>>
  /\ FrontRecv(e) \/ (~InTTL(Head(ask[e])) /\ UNCHANGED <<deaf, urq>>)
  /\ ask' = [ask EXCEPT ![e] = <<>>]
  /\ UNCHANGED <<kind, edges, connVars, ans, uwq, burq, buwq, cliVars>>

(* The endpoints that the first word of the backtrace names: one or none.  *)
Target(y, m) == {e \in In(y) : m.trace # <<>> /\ id[e] # 0 /\ id[e] = m.trace[1]}

(* The sender lops that word off.  Without an endpoint, or with its queue  *)
(* full, the reply is dropped.                                             *)
FrontSend(y) ==
  /\ uwq[y] # <<>>
  /\ LET m == Head(uwq[y])
         to == {e \in Target(y, m) : Len(ans[e]) < QLen}
     IN ans' = [e \in Edge |-> IF e \in to THEN Append(ans[e], [m EXCEPT !.trace = Tail(@)])
                                           ELSE ans[e]]
  /\ uwq' = [uwq EXCEPT ![y] = Tail(@)]
  /\ UNCHANGED <<kind, edges, connVars, ask, deaf, urq, burq, buwq, cliVars>>

RepSend(y) == kind = "reqrep" /\ FrontSend(y)
RespondentSend(y) == kind = "survey" /\ FrontSend(y)

(* The server's application receives a request and replies; the hooks keep *)
(* the backtrace in between.                                               *)
Serve(s) ==
  /\ urq[s] # <<>> /\ Len(uwq[s]) < UqLen
  /\ urq' = [urq EXCEPT ![s] = Tail(@)]
  /\ uwq' = [uwq EXCEPT ![s] = Append(@, Head(urq[s]))]
  /\ UNCHANGED <<kind, edges, connVars, wireVars, burq, buwq, cliVars>>

-----------------------------------------------------------------------------
(* Devices: both sockets become raw, and messages pass their hooks         *)
(* unchanged.                                                              *)

ForwardAsk(d) ==
  /\ urq[d] # <<>> /\ Len(buwq[d]) < UqLen
  /\ buwq' = [buwq EXCEPT ![d] = Append(@, Head(urq[d]))]
  /\ urq' = [urq EXCEPT ![d] = Tail(@)]
  /\ UNCHANGED <<kind, edges, connVars, wireVars, uwq, burq, cliVars>>

ForwardAns(d) ==
  /\ burq[d] # <<>> /\ Len(uwq[d]) < UqLen
  /\ uwq' = [uwq EXCEPT ![d] = Append(@, Head(burq[d]))]
  /\ burq' = [burq EXCEPT ![d] = Tail(@)]
  /\ UNCHANGED <<kind, edges, connVars, wireVars, urq, buwq, cliVars>>

-----------------------------------------------------------------------------
AskStep(e) == RepRecv(e) \/ RespondentRecv(e)
AnsStep(e) == ReqRecv(e) \/ SurveyRecv(e)
FrontStep(y) == RepSend(y) \/ RespondentSend(y)

Next ==
  \/ \E e \in edges : \/ AddEndpoint(e) \/ RemoveEndpoint(e) \/ Resend(e)
                     \/ ReqSend(e) \/ AskStep(e) \/ AnsStep(e)
  \/ \E c \in Client : SendMsg(c) \/ RecvMsg(c)
  \/ \E x \in Asking : SurveySend(x)
  \/ \E y \in Answering : FrontStep(y)
  \/ \E s \in Server : Serve(s)
  \/ \E d \in Device : ForwardAsk(d) \/ ForwardAns(d)

(* The goroutines run, the applications receive and reply, and the retry   *)
(* timer fires again and again.                                            *)
Fairness ==
  /\ \A e \in Edge : /\ WF_vars(e \in edges /\ (Resend(e) \/ ReqSend(e)))
                     /\ WF_vars(e \in edges /\ AskStep(e))
                     /\ WF_vars(e \in edges /\ AnsStep(e))
  /\ \A c \in Client : WF_vars(RecvMsg(c))
  /\ \A x \in Asking : WF_vars(SurveySend(x))
  /\ \A y \in Answering : WF_vars(FrontStep(y))
  /\ \A s \in Server : WF_vars(Serve(s))
  /\ \A d \in Device : WF_vars(ForwardAsk(d)) /\ WF_vars(ForwardAns(d))

SafeSpec == Init /\ [][Next]_vars
Spec == SafeSpec /\ Fairness

-----------------------------------------------------------------------------
(* Properties.                                                             *)

(* Every variable has its type.                                            *)
TypeOK ==
  /\ kind \in Kind /\ edges \in Topology /\ deaf \subseteq Edge
  /\ id \in [Edge -> Nat] /\ nextID \in [Answering -> Nat] /\ lost \in 0 .. MaxLoss
  /\ ask \in [Edge -> Seq(Message)] /\ ans \in [Edge -> Seq(Message)]
  /\ \A e \in Edge : Len(ask[e]) <= 1 /\ Len(ans[e]) <= QLen
  /\ urq \in [Answering -> Seq(Message)] /\ uwq \in [Answering -> Seq(Message)]
  /\ burq \in [Asking -> Seq(Message)] /\ buwq \in [Asking -> Seq(Message)]
  /\ nreq \in [Client -> 0 .. MaxReq] /\ cur \in [Client -> 0 .. MaxReq]

(* A reply reaches no client but the one that asked, with nothing left of  *)
(* the backtrace, however connections were lost and made again since the   *)
(* request passed (newPipe's ids; receiver and sender of REP, RESPONDENT). *)
RoutedHome ==
  \A e \in edges : e[1] \in Client =>
    \A i \in 1 .. Len(ans[e]) : ans[e][i].from = e[1] /\ ans[e][i].trace = <<>>

(* Following the edges leads nowhere twice.                                *)
Acyclic ==
  \A E \in (SUBSET edges) \ {{}} : \E e \in E : \A f \in E : f[1] # e[2]

(* Once the connections stay up, a REQ client gets its reply through the   *)
(* devices of a topology without cycles, whatever was lost or dropped on   *)
(* the way before (Device, forwarder, resender).                           *)
Relayed ==
  (kind = "reqrep" /\ Acyclic /\ <>[](\A e \in edges : id[e] # 0)) =>
    \A c \in Client : \A n \in 1 .. MaxReq : cur[c] = n ~> cur[c] # n

(* A survey dies out, also where devices form a cycle: its backtrace grows *)
(* with each device until the TTL stops it (receiver of RESPONDENT).       *)
DiesOut ==
  kind = "survey" =>
    <>[](/\ \A e \in Edge : ask[e] = <<>> /\ ans[e] = <<>>
         /\ \A d \in Device : urq[d] = <<>> /\ buwq[d] = <<>>)

=============================================================================
