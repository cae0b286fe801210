----------------------------- MODULE RelayProofs ----------------------------
(***************************************************************************)
(* Proofs about Relay, for every network of clients, devices and servers,  *)
(* with cycles or without, any number of requests, retries and failing     *)
(* connections, and queues of any length.                                  *)
(***************************************************************************)
EXTENDS Relay, SequenceTheorems, TLAPS

Node == Asking \union Answering

(* path leads from n, word by word of the backtrace of m, to the client    *)
(* that made the request: no endpoint of a node on it bears the id in the  *)
(* backtrace, but for those that lead to the next node.                    *)
Leads(path, n, m) ==
  /\ path[1] = n /\ path[Len(m.trace) + 1] = m.from
  /\ \A j \in 1 .. Len(m.trace) :
       /\ path[j] \in Answering
       /\ m.trace[j] \in 1 .. nextID[path[j]] - 1
       /\ \A e \in In(path[j]) : id[e] = m.trace[j] => e[1] = path[j + 1]

(* The messages whose backtrace leads home from n.                         *)
Homeward(n) ==
  {m \in Message : \E path \in [1 .. Len(m.trace) + 1 -> Node] : Leads(path, n, m)}

(* The ids of a node are unique, below its counter, and not 0.             *)
IdInv ==
  /\ \A y \in Answering : nextID[y] > 0
  /\ \A e \in edges : id[e] < nextID[e[2]]
  /\ \A e, f \in edges : e[2] = f[2] /\ id[e] = id[f] /\ id[e] # 0 => e = f
  /\ \A e \in Edge : ask[e] # <<>> => e \in edges /\ id[e] # 0

(* Wherever a message is, its backtrace leads home from there.             *)
RouteInv ==
  /\ \A e \in Edge : ask[e] \in Seq(Homeward(e[1])) /\ ans[e] \in Seq(Homeward(e[1]))
  /\ \A y \in Answering : urq[y] \in Seq(Homeward(y)) /\ uwq[y] \in Seq(Homeward(y))
  /\ \A x \in Asking : burq[x] \in Seq(Homeward(x)) /\ buwq[x] \in Seq(Homeward(x))

-----------------------------------------------------------------------------
(* The ends of an edge are nodes.                                          *)
LEMMA EdgeType ==
  ASSUME edges \in Topology
  PROVE  /\ edges \subseteq Edge
         /\ \A e \in Edge : e[1] \in Asking /\ e[2] \in Answering /\ e = <<e[1], e[2]>>
  BY RelayAssumption DEF Edge

(* What is left of a queue, and a queue with one more message.             *)
LEMMA QueueType ==
  ASSUME NEW S, NEW s \in Seq(S)
  PROVE  /\ s # <<>> => Head(s) \in S /\ Tail(s) \in Seq(S) /\ Len(Tail(s)) = Len(s) - 1
         /\ \A m \in S : Append(s, m) \in Seq(S) /\ <<m>> \in Seq(S) /\ Len(<<m>>) = 1
                        /\ Len(Append(s, m)) = Len(s) + 1
  OBVIOUS

(* Messages with a word more or less in the backtrace.                     *)
LEMMA TraceType ==
  ASSUME NEW m \in Message, NEW i \in Nat
  PROVE  /\ [m EXCEPT !.trace = <<i>> \o @] \in Message
         /\ m.trace # <<>> => [m EXCEPT !.trace = Tail(@)] \in Message
<1>1. m.trace \in Seq(Nat) BY DEF Message
<1>2. <<i>> \o m.trace \in Seq(Nat) BY <1>1
<1>3. m.trace # <<>> => Tail(m.trace) \in Seq(Nat) BY <1>1
<1> QED BY <1>2, <1>3 DEF Message

LEMMA TypeInit == Init => TypeOK
<1> SUFFICES ASSUME Init PROVE TypeOK
  OBVIOUS
<1>1. <<>> \in Seq(Message) /\ Len(<<>>) = 0 OBVIOUS
<1> QED BY <1>1, RelayAssumption DEF Init, TypeOK

LEMMA TypeStep == TypeOK /\ [Next]_vars => TypeOK'
<1> SUFFICES ASSUME TypeOK, [Next]_vars PROVE TypeOK'
  OBVIOUS
<1> USE RelayAssumption DEF TypeOK, connVars, wireVars, sockVars, cliVars
<1>e. edges \subseteq Edge /\ \A e \in Edge : e[1] \in Asking /\ e[2] \in Answering
  BY EdgeType
<1>1. CASE UNCHANGED vars BY <1>1 DEF vars
<1>2. ASSUME NEW e \in edges, AddEndpoint(e) PROVE TypeOK'
  <2>1. id' \in [Edge -> Nat] /\ nextID' \in [Answering -> Nat]
    BY <1>2, <1>e DEF AddEndpoint, NewID
  <2> QED BY <1>2, <2>1 DEF AddEndpoint
<1>3. ASSUME NEW e \in edges, RemoveEndpoint(e) PROVE TypeOK'
  <2>1. lost' \in 0 .. MaxLoss /\ id' \in [Edge -> Nat] /\ deaf' \subseteq Edge
    BY <1>3, <1>e DEF RemoveEndpoint
  <2>2. /\ ask' \in [Edge -> Seq(Message)] /\ ans' \in [Edge -> Seq(Message)]
        /\ \A f \in Edge : Len(ask'[f]) <= 1 /\ Len(ans'[f]) <= QLen
    BY <1>3, <1>e DEF RemoveEndpoint
  <2> QED BY <1>3, <2>1, <2>2 DEF RemoveEndpoint
<1>4. ASSUME NEW e \in edges, Resend(e) PROVE TypeOK'
  <2>1. [trace |-> <<>>, from |-> e[1], num |-> cur[e[1]]] \in Message
    BY <1>4, <1>e DEF Resend, Message
  <2>2. ask' \in [Edge -> Seq(Message)] /\ \A f \in Edge : Len(ask'[f]) <= 1
    BY <1>4, <1>e, <2>1 DEF Resend
  <2> QED BY <1>4, <2>2 DEF Resend
<1>5. ASSUME NEW e \in edges, ReqSend(e) PROVE TypeOK'
  <2>1. Head(buwq[e[1]]) \in Message /\ Tail(buwq[e[1]]) \in Seq(Message)
    BY <1>5, <1>e, QueueType DEF ReqSend
  <2>2. ask' \in [Edge -> Seq(Message)] /\ \A f \in Edge : Len(ask'[f]) <= 1
    BY <1>5, <1>e, <2>1 DEF ReqSend
  <2>3. buwq' \in [Asking -> Seq(Message)] BY <1>5, <1>e, <2>1 DEF ReqSend
  <2> QED BY <1>5, <2>2, <2>3 DEF ReqSend
<1>6. ASSUME NEW e \in edges, AskStep(e) PROVE TypeOK'
  <2>1. ask[e] # <<>> BY <1>6 DEF AskStep, RepRecv, RespondentRecv
  <2>2. Head(ask[e]) \in Message BY <1>e, <2>1, QueueType
  <2>3. AddTrace(e, Head(ask[e])) \in Message BY <1>e, <2>2, TraceType DEF AddTrace
  <2>4. ask' \in [Edge -> Seq(Message)] /\ \A f \in Edge : Len(ask'[f]) <= 1
    <3>1. ask' = [ask EXCEPT ![e] = <<>>] BY <1>6 DEF AskStep, RepRecv, RespondentRecv
    <3> QED BY <1>e, <3>1
  <2>5. urq' \in [Answering -> Seq(Message)]
    <3>1. \/ UNCHANGED urq
          \/ urq' = [urq EXCEPT ![e[2]] = Append(@, AddTrace(e, Head(ask[e])))]
      BY <1>6 DEF AskStep, RepRecv, RespondentRecv, FrontRecv
    <3>2. Append(urq[e[2]], AddTrace(e, Head(ask[e]))) \in Seq(Message)
      BY <1>e, <2>3, QueueType
    <3> QED BY <1>e, <3>1, <3>2, ZenonT(30)
  <2>6. deaf' \subseteq Edge
    BY <1>6, <1>e DEF AskStep, RepRecv, RespondentRecv, FrontRecv
  <2>7. UNCHANGED <<kind, edges, connVars, ans, uwq, burq, buwq, cliVars>>
    BY <1>6 DEF AskStep, RepRecv, RespondentRecv
  <2> QED BY <2>4, <2>5, <2>6, <2>7
<1>7. ASSUME NEW e \in edges, AnsStep(e) PROVE TypeOK'
  <2>1. BackRecv(e) BY <1>7 DEF AnsStep, ReqRecv, SurveyRecv
  <2>2. /\ Head(ans[e]) \in Message /\ Tail(ans[e]) \in Seq(Message)
        /\ Len(Tail(ans[e])) = Len(ans[e]) - 1
    BY <1>e, <2>1, QueueType DEF BackRecv
  <2>3. ans' \in [Edge -> Seq(Message)] /\ \A f \in Edge : Len(ans'[f]) <= QLen
    BY <1>e, <2>1, <2>2 DEF BackRecv
  <2>4. burq' \in [Asking -> Seq(Message)] BY <1>e, <2>1, <2>2 DEF BackRecv
  <2> QED BY <2>1, <2>3, <2>4 DEF BackRecv
<1>8. ASSUME NEW c \in Client, SendMsg(c) PROVE TypeOK'
  <2>1. c \in Asking BY DEF Asking
  <2>2. nreq[c] + 1 \in 0 .. MaxReq BY <1>8 DEF SendMsg
  <2>3. [trace |-> <<>>, from |-> c, num |-> nreq[c] + 1] \in Message BY <2>2 DEF Message
  <2>4. buwq' \in [Asking -> Seq(Message)] BY <1>8, <2>1, <2>3 DEF SendMsg
  <2> QED BY <1>8, <2>2, <2>4 DEF SendMsg
<1>9. ASSUME NEW c \in Client, RecvMsg(c) PROVE TypeOK'
  <2>1. c \in Asking BY DEF Asking
  <2>2. burq' \in [Asking -> Seq(Message)] BY <1>9, <2>1, QueueType DEF RecvMsg
  <2> QED BY <1>9, <2>2 DEF RecvMsg
<1>10. ASSUME NEW x \in Asking, SurveySend(x) PROVE TypeOK'
  <2>1. Head(buwq[x]) \in Message /\ Tail(buwq[x]) \in Seq(Message)
    BY <1>10, QueueType DEF SurveySend
  <2>2. ask' \in [Edge -> Seq(Message)] /\ \A f \in Edge : Len(ask'[f]) <= 1
    BY <1>10, <2>1 DEF SurveySend
  <2>3. buwq' \in [Asking -> Seq(Message)] BY <1>10, <2>1 DEF SurveySend
  <2> QED BY <1>10, <2>2, <2>3 DEF SurveySend
<1>11. ASSUME NEW y \in Answering, FrontStep(y) PROVE TypeOK'
  <2>1. FrontSend(y) BY <1>11 DEF FrontStep, RepSend, RespondentSend
  <2>2. Head(uwq[y]) \in Message /\ Tail(uwq[y]) \in Seq(Message)
    BY <2>1, QueueType DEF FrontSend
  <2> DEFINE lopped == [Head(uwq[y]) EXCEPT !.trace = Tail(@)]
             to == {e \in Target(y, Head(uwq[y])) : Len(ans[e]) < QLen}
  <2>3. \A e \in to : lopped \in Message BY <2>2, TraceType DEF Target
  <2>4. ans' = [e \in Edge |-> IF e \in to THEN Append(ans[e], lopped) ELSE ans[e]]
    BY <2>1 DEF FrontSend
  <2> HIDE DEF lopped
  <2>5. \A e \in Edge : ans'[e] \in Seq(Message) /\ Len(ans'[e]) <= QLen
    <3> TAKE e \in Edge
    <3>1. ans[e] \in Seq(Message) /\ Len(ans[e]) \in Nat OBVIOUS
    <3>2. CASE e \in to BY <2>3, <2>4, <3>1, <3>2, QueueType
    <3>3. CASE e \notin to BY <2>4, <3>3
    <3> QED BY <3>2, <3>3
  <2>6. ans' \in [Edge -> Seq(Message)] BY <2>4, <2>5
  <2>7. uwq' \in [Answering -> Seq(Message)] BY <2>1, <2>2 DEF FrontSend
  <2> QED BY <2>1, <2>5, <2>6, <2>7 DEF FrontSend
<1>12. ASSUME NEW s \in Server, Serve(s) PROVE TypeOK'
  <2>1. s \in Answering BY DEF Answering
  <2>2. Head(urq[s]) \in Message /\ Tail(urq[s]) \in Seq(Message)
    BY <1>12, <2>1, QueueType DEF Serve
  <2> QED BY <1>12, <2>1, <2>2 DEF Serve
<1>13. ASSUME NEW d \in Device, ForwardAsk(d) PROVE TypeOK'
  <2>1. d \in Answering /\ d \in Asking BY DEF Answering, Asking
  <2>2. Head(urq[d]) \in Message /\ Tail(urq[d]) \in Seq(Message)
    BY <1>13, <2>1, QueueType DEF ForwardAsk
  <2> QED BY <1>13, <2>1, <2>2 DEF ForwardAsk
<1>14. ASSUME NEW d \in Device, ForwardAns(d) PROVE TypeOK'
  <2>1. d \in Answering /\ d \in Asking BY DEF Answering, Asking
  <2>2. Head(burq[d]) \in Message /\ Tail(burq[d]) \in Seq(Message)
    BY <1>14, <2>1, QueueType DEF ForwardAns
  <2> QED BY <1>14, <2>1, <2>2, SMTT(30) DEF ForwardAns
<1> QED
  BY <1>1, <1>2, <1>3, <1>4, <1>5, <1>6, <1>7, <1>8, <1>9, <1>10, <1>11, <1>12, <1>13, <1>14
  DEF Next

(* In every reachable state every variable has its type.                   *)
THEOREM TypeCorrect == SafeSpec => []TypeOK
  BY TypeInit, TypeStep, PTL DEF SafeSpec

-----------------------------------------------------------------------------
(* Ids change where a connection is made or lost, and a message is put on  *)
(* a connection only while that has an id.                                 *)
LEMMA ConnSteps ==
  ASSUME TypeOK, [Next]_vars
  PROVE  \/ \E e \in edges : AddEndpoint(e) \/ RemoveEndpoint(e)
         \/ /\ UNCHANGED <<edges, id, nextID>>
            /\ \A e \in Edge : ask'[e] # <<>> => ask[e] # <<>> \/ (e \in edges /\ id[e] # 0)
<1> USE DEF TypeOK, connVars, wireVars, sockVars, cliVars
<1> DEFINE Quiet == /\ UNCHANGED <<edges, id, nextID>>
                    /\ \A e \in Edge : ask'[e] # <<>> =>
                                        ask[e] # <<>> \/ (e \in edges /\ id[e] # 0)
<1>e. edges \subseteq Edge BY EdgeType
<1>1. CASE UNCHANGED vars BY <1>1 DEF vars
<1>2. ASSUME NEW e \in edges, Resend(e) PROVE Quiet BY <1>2, <1>e DEF Resend, Room
<1>3. ASSUME NEW e \in edges, ReqSend(e) PROVE Quiet BY <1>3, <1>e DEF ReqSend, Room
<1>4. ASSUME NEW e \in edges, AskStep(e) PROVE Quiet
  BY <1>4, <1>e DEF AskStep, RepRecv, RespondentRecv
<1>5. ASSUME NEW e \in edges, AnsStep(e) PROVE Quiet
  BY <1>5 DEF AnsStep, ReqRecv, SurveyRecv, BackRecv
<1>6. ASSUME NEW c \in Client, SendMsg(c) \/ RecvMsg(c) PROVE Quiet
  BY <1>6 DEF SendMsg, RecvMsg
<1>7. ASSUME NEW x \in Asking, SurveySend(x) PROVE Quiet BY <1>7 DEF SurveySend, Room, Out
<1>8. ASSUME NEW y \in Answering, FrontStep(y) PROVE Quiet
  BY <1>8 DEF FrontStep, RepSend, RespondentSend, FrontSend
<1>9. ASSUME NEW s \in Server, Serve(s) PROVE Quiet BY <1>9 DEF Serve
<1>10. ASSUME NEW d \in Device, ForwardAsk(d) \/ ForwardAns(d) PROVE Quiet
  BY <1>10 DEF ForwardAsk, ForwardAns
<1> QED BY <1>1, <1>2, <1>3, <1>4, <1>5, <1>6, <1>7, <1>8, <1>9, <1>10 DEF Next

(* The ids of a node stay unique, as newPipe counts upwards.               *)
LEMMA IdStep == TypeOK /\ IdInv /\ [Next]_vars => IdInv'
<1> SUFFICES ASSUME TypeOK, IdInv, [Next]_vars PROVE IdInv'
  OBVIOUS
<1> USE DEF TypeOK, IdInv, connVars, wireVars, sockVars, cliVars
<1>e. edges \subseteq Edge /\ \A e \in Edge : e[2] \in Answering BY EdgeType
<1>1. ASSUME NEW e \in edges, AddEndpoint(e) PROVE IdInv'
  <2>1. /\ UNCHANGED <<edges, ask>> /\ id[e] = 0
        /\ id' = [id EXCEPT ![e] = nextID[e[2]]]
        /\ nextID' = [nextID EXCEPT ![e[2]] = @ + 1]
    BY <1>1 DEF AddEndpoint, NewID
  <2>2. \A y \in Answering : nextID'[y] > 0 BY <1>e, <2>1
  <2>3. \A f \in edges : id'[f] < nextID'[f[2]] BY <1>e, <2>1
  <2>4. \A f, g \in edges : f[2] = g[2] /\ id'[f] = id'[g] /\ id'[f] # 0 => f = g
    BY <1>e, <2>1
  <2>5. \A f \in Edge : ask'[f] # <<>> => f \in edges /\ id'[f] # 0 BY <1>e, <2>1
  <2> QED BY <2>1, <2>2, <2>3, <2>4, <2>5
<1>2. ASSUME NEW e \in edges, RemoveEndpoint(e) PROVE IdInv'
  <2>1. /\ UNCHANGED <<edges, nextID>>
        /\ id' = [id EXCEPT ![e] = 0] /\ ask' = [ask EXCEPT ![e] = <<>>]
    BY <1>2 DEF RemoveEndpoint
  <2>2. \A f \in edges : id'[f] < nextID'[f[2]] BY <1>e, <2>1
  <2>3. \A f, g \in edges : f[2] = g[2] /\ id'[f] = id'[g] /\ id'[f] # 0 => f = g
    BY <1>e, <2>1
  <2>4. \A f \in Edge : ask'[f] # <<>> => f \in edges /\ id'[f] # 0 BY <1>e, <2>1
  <2> QED BY <2>1, <2>2, <2>3, <2>4
<1>3. CASE /\ UNCHANGED <<edges, id, nextID>>
           /\ \A e \in Edge : ask'[e] # <<>> => ask[e] # <<>> \/ (e \in edges /\ id[e] # 0)
  BY <1>3
<1> QED BY <1>1, <1>2, <1>3, ConnSteps

(* What leads home goes on leading home, whatever happens to connections.  *)
LEMMA HomewardKept ==
  ASSUME TypeOK, IdInv, [Next]_vars, NEW n \in Node
  PROVE  Homeward(n) \subseteq Homeward(n)'
<1> SUFFICES ASSUME NEW m \in Message, NEW path \in [1 .. Len(m.trace) + 1 -> Node],
                    Leads(path, n, m)
             PROVE  Leads(path, n, m)'
  BY DEF Homeward
<1> USE DEF TypeOK, Leads, In
<1>e. edges \subseteq Edge /\ \A e \in Edge : e[2] \in Answering BY EdgeType
<1>1. ASSUME NEW a \in edges, AddEndpoint(a) PROVE Leads(path, n, m)'
  <2>1. /\ UNCHANGED edges
        /\ id' = [id EXCEPT ![a] = nextID[a[2]]]
        /\ nextID' = [nextID EXCEPT ![a[2]] = @ + 1]
    BY <1>1 DEF AddEndpoint, NewID
  <2>2. ASSUME NEW j \in 1 .. Len(m.trace)
        PROVE  /\ path[j] \in Answering
               /\ m.trace[j] \in 1 .. nextID'[path[j]] - 1
               /\ \A e \in edges : e[2] = path[j] /\ id'[e] = m.trace[j] => e[1] = path[j + 1]
    <3>1. path[j] \in Answering /\ m.trace[j] \in 1 .. nextID[path[j]] - 1 OBVIOUS
    <3>2. m.trace[j] \in 1 .. nextID'[path[j]] - 1
      <4>1. nextID[path[j]] \in Nat /\ a[2] \in Answering BY <1>e, <3>1
      <4>2. nextID'[path[j]] = nextID[path[j]] \/ nextID'[path[j]] = nextID[path[j]] + 1
        BY <2>1, <3>1, <4>1
      <4> QED BY <3>1, <4>1, <4>2, SMTT(30)
    <3>3. ASSUME NEW e \in edges, e[2] = path[j], id'[e] = m.trace[j]
          PROVE  e[1] = path[j + 1]
      <4>1. e # a BY <1>e, <2>1, <3>1, <3>3
      <4>2. id'[e] = id[e] BY <1>e, <2>1, <4>1
      <4> QED BY <3>3, <4>2
    <3> QED BY <3>1, <3>2, <3>3
  <2> QED BY <2>1, <2>2
<1>2. ASSUME NEW a \in edges, RemoveEndpoint(a) PROVE Leads(path, n, m)'
  <2>1. UNCHANGED <<edges, nextID>> /\ id' = [id EXCEPT ![a] = 0]
    BY <1>2 DEF RemoveEndpoint
  <2>2. ASSUME NEW j \in 1 .. Len(m.trace), NEW e \in edges,
               e[2] = path[j], id'[e] = m.trace[j]
        PROVE  e[1] = path[j + 1]
    <3>1. e # a BY <1>e, <2>1, <2>2
    <3>2. id'[e] = id[e] BY <1>e, <2>1, <3>1
    <3> QED BY <2>2, <3>2
  <2> QED BY <2>1, <2>2
<1>3. CASE UNCHANGED <<edges, id, nextID>> BY <1>3
<1> QED BY <1>1, <1>2, <1>3, ConnSteps

(* REP's and RESPONDENT's receivers put the id of the pipe in front.       *)
LEMMA AddsHome ==
  ASSUME TypeOK, IdInv, NEW e \in edges, id[e] # 0, NEW m \in Homeward(e[1])
  PROVE  AddTrace(e, m) \in Homeward(e[2])
<1> USE DEF TypeOK, IdInv
<1>e. e \in Edge /\ e[1] \in Asking /\ e[2] \in Answering BY EdgeType
<1>m. m \in Message /\ m.trace \in Seq(Nat) /\ id[e] \in Nat BY <1>e DEF Homeward, Message
<1>1. PICK path \in [1 .. Len(m.trace) + 1 -> Node] : Leads(path, e[1], m) BY DEF Homeward
<1> DEFINE n == Len(m.trace)
           longer == AddTrace(e, m)
           way == [i \in 1 .. n + 2 |-> IF i = 1 THEN e[2] ELSE path[i - 1]]
<1>2. /\ longer \in Message /\ longer.from = m.from
      /\ longer.trace = <<id[e]>> \o m.trace
  BY <1>m, TraceType DEF AddTrace, Message
<1>3. /\ Len(longer.trace) = n + 1 /\ longer.trace[1] = id[e]
      /\ \A j \in 2 .. n + 1 : longer.trace[j] = m.trace[j - 1]
  BY <1>m, <1>2
<1> HIDE DEF longer
<1>n. n \in Nat BY <1>m
<1> HIDE DEF n
<1>4. way \in [1 .. n + 2 -> Node]
  <2>1. path \in [1 .. n + 1 -> Node] /\ e[2] \in Node BY <1>e, <1>1 DEF Node, n
  <2>2. \A i \in 1 .. n + 2 : i # 1 => i - 1 \in 1 .. n + 1 BY <1>n
  <2> QED BY <2>1, <2>2
<1>5. way[1] = e[2] /\ way[n + 2] = longer.from BY <1>1, <1>2, <1>n DEF Leads, n
<1>6. ASSUME NEW j \in 1 .. n + 1
      PROVE  /\ way[j] \in Answering
             /\ longer.trace[j] \in 1 .. nextID[way[j]] - 1
             /\ \A f \in In(way[j]) : id[f] = longer.trace[j] => f[1] = way[j + 1]
  <2>1. CASE j = 1
    <3>1. way[j] = e[2] /\ way[j + 1] = e[1] BY <1>1, <1>n, <2>1 DEF Leads
    <3>2. id[e] \in 1 .. nextID[e[2]] - 1 BY <1>e, <1>m, SMTT(30)
    <3>3. \A f \in In(e[2]) : id[f] = id[e] => f = e BY DEF In
    <3>4. longer.trace[j] = id[e] BY <1>3, <2>1
    <3> HIDE DEF way
    <3> QED BY <1>e, <3>1, <3>2, <3>3, <3>4
  <2>2. CASE j # 1
    <3>1. j - 1 \in 1 .. Len(m.trace) BY <2>2, <1>n DEF n
    <3>2. way[j] = path[j - 1] /\ way[j + 1] = path[(j - 1) + 1] BY <2>2, <1>n
    <3>3. longer.trace[j] = m.trace[j - 1] BY <1>3, <2>2, <1>n, SMTT(30)
    <3> QED BY <1>1, <3>1, <3>2, <3>3 DEF Leads
  <2> QED BY <2>1, <2>2
<1> HIDE DEF way
<1>7. Leads(way, e[2], longer)
  <2>1. Len(longer.trace) + 1 = n + 2 BY <1>3, <1>n
  <2> QED BY <1>3, <1>5, <1>6, <2>1 DEF Leads
<1>8. way \in [1 .. Len(longer.trace) + 1 -> Node]
  <2>1. Len(longer.trace) + 1 = n + 2 BY <1>3, <1>n
  <2> QED BY <1>4, <2>1
<1> QED BY <1>2, <1>7, <1>8 DEF Homeward, longer

(* Their senders lop the first word off, and the endpoint that it names    *)
(* leads to the next node on the way.                                      *)
LEMMA LopsHome ==
  ASSUME TypeOK, NEW y \in Answering, NEW m \in Homeward(y), NEW e \in Target(y, m)
  PROVE  [m EXCEPT !.trace = Tail(@)] \in Homeward(e[1])
<1> USE DEF TypeOK
<1>e. e \in In(y) /\ m.trace # <<>> /\ id[e] = m.trace[1] BY DEF Target
<1>m. m \in Message /\ m.trace \in Seq(Nat) BY DEF Homeward, Message
<1>1. PICK path \in [1 .. Len(m.trace) + 1 -> Node] : Leads(path, y, m) BY DEF Homeward
<1> DEFINE n == Len(m.trace)
           lopped == [m EXCEPT !.trace = Tail(@)]
           way == [i \in 1 .. n |-> path[i + 1]]
<1>2. lopped \in Message /\ lopped.from = m.from /\ lopped.trace = Tail(m.trace)
  BY <1>e, <1>m, TraceType DEF Message
<1>3. /\ n \in Nat /\ n > 0 /\ Len(lopped.trace) = n - 1
      /\ \A j \in 1 .. n - 1 : lopped.trace[j] = m.trace[j + 1]
  BY <1>e, <1>m, <1>2
<1> HIDE DEF lopped, n
<1>4. way \in [1 .. n -> Node] BY <1>1, <1>3 DEF n
<1>5. way[1] = e[1]
  <2>1. 1 \in 1 .. Len(m.trace) BY <1>3 DEF n
  <2>2. path[1] = y BY <1>1 DEF Leads
  <2>3. path[1 + 1] = e[1] BY <1>1, <1>e, <2>1, <2>2 DEF Leads
  <2> QED BY <1>3, <2>3
<1>6. way[n] = lopped.from BY <1>1, <1>2, <1>3 DEF Leads, n
<1>7. ASSUME NEW j \in 1 .. n - 1
      PROVE  /\ way[j] \in Answering
             /\ lopped.trace[j] \in 1 .. nextID[way[j]] - 1
             /\ \A f \in In(way[j]) : id[f] = lopped.trace[j] => f[1] = way[j + 1]
  <2>1. j + 1 \in 1 .. Len(m.trace) BY <1>3 DEF n
  <2>2. way[j] = path[j + 1] /\ way[j + 1] = path[(j + 1) + 1] BY <1>3
  <2>3. lopped.trace[j] = m.trace[j + 1] BY <1>3
  <2> QED BY <1>1, <2>1, <2>2, <2>3 DEF Leads
<1> HIDE DEF way
<1>8. Len(lopped.trace) + 1 = n BY <1>3
<1>9. Leads(way, e[1], lopped) BY <1>3, <1>5, <1>6, <1>7, <1>8 DEF Leads
<1> QED BY <1>2, <1>4, <1>8, <1>9 DEF Homeward, lopped

(* A new request is at home where it is made.                              *)
LEMMA StartsHome ==
  ASSUME NEW c \in Client, NEW k \in Nat
  PROVE  [trace |-> <<>>, from |-> c, num |-> k] \in Homeward(c)
<1> DEFINE m == [trace |-> <<>>, from |-> c, num |-> k]
           way == [i \in 1 .. 1 |-> c]
<1>1. m \in Message /\ Len(m.trace) = 0 BY DEF Message
<1>2. way \in [1 .. Len(m.trace) + 1 -> Node] BY DEF Node, Asking
<1>3. Leads(way, c, m) BY DEF Leads
<1> QED BY <1>1, <1>2, <1>3 DEF Homeward

(* Every message that a step moves still leads home from where it is put.  *)
LEMMA RouteStep == TypeOK /\ IdInv /\ RouteInv /\ [Next]_vars => RouteInv'
<1> SUFFICES ASSUME TypeOK, IdInv, RouteInv, [Next]_vars PROVE RouteInv'
  OBVIOUS
<1> USE DEF TypeOK, RouteInv, connVars, wireVars, sockVars, cliVars
<1>e. edges \subseteq Edge /\ \A e \in Edge : e[1] \in Asking /\ e[2] \in Answering
  BY EdgeType
<1>h. \A n \in Node : Homeward(n) \subseteq Homeward(n)' BY HomewardKept
<1>q. \A n \in Node : Seq(Homeward(n)) \subseteq Seq(Homeward(n)')
  BY <1>h, SeqMonotonic
<1>k. /\ \A e \in Edge : ask[e] \in Seq(Homeward(e[1])') /\ ans[e] \in Seq(Homeward(e[1])')
      /\ \A y \in Answering : urq[y] \in Seq(Homeward(y)') /\ uwq[y] \in Seq(Homeward(y)')
      /\ \A x \in Asking : burq[x] \in Seq(Homeward(x)') /\ buwq[x] \in Seq(Homeward(x)')
  BY <1>e, <1>q DEF Node
<1> SUFFICES
      /\ \A e \in Edge : ask'[e] \in Seq(Homeward(e[1])') /\ ans'[e] \in Seq(Homeward(e[1])')
      /\ \A y \in Answering : urq'[y] \in Seq(Homeward(y)') /\ uwq'[y] \in Seq(Homeward(y)')
      /\ \A x \in Asking : burq'[x] \in Seq(Homeward(x)') /\ buwq'[x] \in Seq(Homeward(x)')
  OBVIOUS
<1> DEFINE Goal ==
      /\ \A e \in Edge : ask'[e] \in Seq(Homeward(e[1])') /\ ans'[e] \in Seq(Homeward(e[1])')
      /\ \A y \in Answering : urq'[y] \in Seq(Homeward(y)') /\ uwq'[y] \in Seq(Homeward(y)')
      /\ \A x \in Asking : burq'[x] \in Seq(Homeward(x)') /\ buwq'[x] \in Seq(Homeward(x)')
<1>1. CASE UNCHANGED vars BY <1>1, <1>k DEF vars
<1>2. ASSUME NEW e \in edges, AddEndpoint(e) PROVE Goal BY <1>2, <1>k DEF AddEndpoint
<1>3. ASSUME NEW e \in edges, RemoveEndpoint(e) PROVE Goal
  <2>1. \A S : <<>> \in Seq(S) OBVIOUS
  <2> QED BY <1>3, <1>e, <1>k, <2>1 DEF RemoveEndpoint
<1>4. ASSUME NEW e \in edges, Resend(e) PROVE Goal
  <2> DEFINE m == [trace |-> <<>>, from |-> e[1], num |-> cur[e[1]]]
  <2>1. ask' = [ask EXCEPT ![e] = <<m>>] /\ UNCHANGED <<ans, sockVars>> /\ e[1] \in Client
    BY <1>4 DEF Resend
  <2>2. m \in Homeward(e[1])' BY <1>e, <1>h, <2>1, StartsHome DEF Node
  <2>3. <<m>> \in Seq(Homeward(e[1])') BY <2>2
  <2> HIDE DEF m
  <2> QED BY <1>e, <1>k, <2>1, <2>3
<1>5. ASSUME NEW e \in edges, ReqSend(e) PROVE Goal
  <2>1. /\ ask' = [ask EXCEPT ![e] = <<Head(buwq[e[1]])>>]
        /\ buwq' = [buwq EXCEPT ![e[1]] = Tail(@)] /\ buwq[e[1]] # <<>>
        /\ UNCHANGED <<ans, urq, uwq, burq>>
    BY <1>5 DEF ReqSend
  <2>2. e[1] \in Asking /\ buwq[e[1]] \in Seq(Homeward(e[1])') BY <1>e, <1>k
  <2>3. Head(buwq[e[1]]) \in Homeward(e[1])' /\ Tail(buwq[e[1]]) \in Seq(Homeward(e[1])')
    BY <2>1, <2>2, QueueType
  <2>4. <<Head(buwq[e[1]])>> \in Seq(Homeward(e[1])') BY <2>3
  <2> QED BY <1>e, <1>k, <2>1, <2>2, <2>3, <2>4
<1>6. ASSUME NEW e \in edges, AskStep(e) PROVE Goal
  <2> DEFINE m == AddTrace(e, Head(ask[e]))
  <2>1. /\ ask[e] # <<>> /\ ask' = [ask EXCEPT ![e] = <<>>]
        /\ UNCHANGED urq \/ urq' = [urq EXCEPT ![e[2]] = Append(@, m)]
        /\ UNCHANGED <<ans, uwq, burq, buwq>>
    BY <1>6 DEF AskStep, RepRecv, RespondentRecv, FrontRecv
  <2>2. Head(ask[e]) \in Homeward(e[1]) BY <1>e, <2>1, QueueType
  <2>3. id[e] # 0 BY <1>e, <2>1 DEF IdInv
  <2>4. m \in Homeward(e[2]) BY <2>2, <2>3, AddsHome
  <2>5. m \in Homeward(e[2])' BY <1>e, <1>h, <2>4 DEF Node
  <2> HIDE DEF m
  <2>6. Append(urq[e[2]], m) \in Seq(Homeward(e[2])') BY <1>e, <1>k, <2>5, QueueType
  <2>7. \A S : <<>> \in Seq(S) OBVIOUS
  <2> QED BY <1>e, <1>k, <2>1, <2>6, <2>7
<1>7. ASSUME NEW e \in edges, AnsStep(e) PROVE Goal
  <2>1. /\ ans[e] # <<>> /\ ans' = [ans EXCEPT ![e] = Tail(@)]
        /\ burq' = [burq EXCEPT ![e[1]] = Append(@, Head(ans[e]))]
        /\ UNCHANGED <<ask, urq, uwq, buwq>>
    BY <1>7 DEF AnsStep, ReqRecv, SurveyRecv, BackRecv
  <2>2. /\ Tail(ans[e]) \in Seq(Homeward(e[1])')
        /\ Append(burq[e[1]], Head(ans[e])) \in Seq(Homeward(e[1])')
    BY <1>e, <1>k, <2>1, QueueType
  <2> QED BY <1>e, <1>k, <2>1, <2>2
<1>8. ASSUME NEW c \in Client, SendMsg(c) PROVE Goal
  <2> DEFINE m == [trace |-> <<>>, from |-> c, num |-> nreq[c] + 1]
  <2>1. buwq' = [buwq EXCEPT ![c] = Append(@, m)] /\ UNCHANGED <<ask, ans, urq, uwq, burq>>
    BY <1>8 DEF SendMsg
  <2>2. c \in Asking BY DEF Asking
  <2>3. nreq[c] + 1 \in Nat OBVIOUS
  <2>4. m \in Homeward(c)' BY <1>h, <2>2, <2>3, StartsHome DEF Node
  <2> HIDE DEF m
  <2>5. Append(buwq[c], m) \in Seq(Homeward(c)') BY <1>k, <2>2, <2>4, QueueType
  <2> QED BY <1>k, <2>1, <2>2, <2>5
<1>9. ASSUME NEW c \in Client, RecvMsg(c) PROVE Goal
  <2>1. /\ burq[c] # <<>> /\ burq' = [burq EXCEPT ![c] = Tail(@)]
        /\ UNCHANGED <<ask, ans, urq, uwq, buwq>>
    BY <1>9 DEF RecvMsg
  <2>2. c \in Asking BY DEF Asking
  <2>3. Tail(burq[c]) \in Seq(Homeward(c)') BY <1>k, <2>1, <2>2, QueueType
  <2> QED BY <1>k, <2>1, <2>2, <2>3
<1>10. ASSUME NEW x \in Asking, SurveySend(x) PROVE Goal
  <2>1. /\ buwq[x] # <<>> /\ buwq' = [buwq EXCEPT ![x] = Tail(@)]
        /\ ask' = [e \in Edge |-> IF e \in Out(x) /\ Room(e) THEN <<Head(buwq[x])>> ELSE ask[e]]
        /\ UNCHANGED <<ans, urq, uwq, burq>>
    BY <1>10 DEF SurveySend
  <2>2. <<Head(buwq[x])>> \in Seq(Homeward(x)') /\ Tail(buwq[x]) \in Seq(Homeward(x)')
    BY <1>k, <2>1, QueueType
  <2>3. \A e \in Out(x) : e[1] = x BY DEF Out
  <2>4. \A e \in Edge : ask'[e] \in Seq(Homeward(e[1])') BY <1>k, <2>1, <2>2, <2>3
  <2> QED BY <1>k, <2>1, <2>2, <2>4
<1>11. ASSUME NEW y \in Answering, FrontStep(y) PROVE Goal
  <2> DEFINE m == Head(uwq[y])
             lopped == [m EXCEPT !.trace = Tail(@)]
             to == {e \in Target(y, m) : Len(ans[e]) < QLen}
  <2>1. /\ uwq[y] # <<>> /\ uwq' = [uwq EXCEPT ![y] = Tail(@)]
        /\ ans' = [e \in Edge |-> IF e \in to THEN Append(ans[e], lopped) ELSE ans[e]]
        /\ UNCHANGED <<ask, urq, burq, buwq>>
    BY <1>11 DEF FrontStep, RepSend, RespondentSend, FrontSend
  <2>2. m \in Homeward(y) /\ Tail(uwq[y]) \in Seq(Homeward(y)') BY <1>k, <2>1, QueueType
  <2> HIDE DEF m
  <2>3. \A e \in to : lopped \in Homeward(e[1]) BY <2>2, LopsHome
  <2> HIDE DEF lopped
  <2>4. \A e \in Edge : e \in to => lopped \in Homeward(e[1])' BY <1>e, <1>h, <2>3 DEF Node
  <2>5. ASSUME NEW e \in Edge PROVE ans'[e] \in Seq(Homeward(e[1])')
    <3>1. ans[e] \in Seq(Homeward(e[1])') BY <1>k
    <3>2. CASE e \in to BY <2>1, <2>4, <3>1, <3>2, QueueType
    <3>3. CASE e \notin to BY <2>1, <3>1, <3>3
    <3> QED BY <3>2, <3>3
  <2> QED BY <1>k, <2>1, <2>2, <2>5
<1>12. ASSUME NEW s \in Server, Serve(s) PROVE Goal
  <2>1. /\ urq[s] # <<>> /\ urq' = [urq EXCEPT ![s] = Tail(@)]
        /\ uwq' = [uwq EXCEPT ![s] = Append(@, Head(urq[s]))]
        /\ UNCHANGED <<ask, ans, burq, buwq>>
    BY <1>12 DEF Serve
  <2>2. s \in Answering BY DEF Answering
  <2>3. /\ Tail(urq[s]) \in Seq(Homeward(s)')
        /\ Append(uwq[s], Head(urq[s])) \in Seq(Homeward(s)')
    BY <1>k, <2>1, <2>2, QueueType
  <2> QED BY <1>k, <2>1, <2>2, <2>3
<1>13. ASSUME NEW d \in Device, ForwardAsk(d) PROVE Goal
  <2>1. /\ urq[d] # <<>> /\ urq' = [urq EXCEPT ![d] = Tail(@)]
        /\ buwq' = [buwq EXCEPT ![d] = Append(@, Head(urq[d]))]
        /\ UNCHANGED <<ask, ans, uwq, burq>>
    BY <1>13 DEF ForwardAsk
  <2>2. d \in Answering /\ d \in Asking BY DEF Answering, Asking
  <2>3. /\ Tail(urq[d]) \in Seq(Homeward(d)')
        /\ Append(buwq[d], Head(urq[d])) \in Seq(Homeward(d)')
    BY <1>k, <2>1, <2>2, QueueType
  <2> QED BY <1>k, <2>1, <2>2, <2>3
<1>14. ASSUME NEW d \in Device, ForwardAns(d) PROVE Goal
  <2>1. /\ burq[d] # <<>> /\ burq' = [burq EXCEPT ![d] = Tail(@)]
        /\ uwq' = [uwq EXCEPT ![d] = Append(@, Head(burq[d]))]
        /\ UNCHANGED <<ask, ans, urq, buwq>>
    BY <1>14 DEF ForwardAns
  <2>2. d \in Answering /\ d \in Asking BY DEF Answering, Asking
  <2>3. /\ Tail(burq[d]) \in Seq(Homeward(d)')
        /\ Append(uwq[d], Head(burq[d])) \in Seq(Homeward(d)')
    BY <1>k, <2>1, <2>2, QueueType
  <2> QED BY <1>k, <2>1, <2>2, <2>3
<1> QED
  BY <1>1, <1>2, <1>3, <1>4, <1>5, <1>6, <1>7, <1>8, <1>9, <1>10, <1>11, <1>12, <1>13, <1>14
  DEF Next

-----------------------------------------------------------------------------
RelayInv == TypeOK /\ IdInv /\ RouteInv

LEMMA RelayInit == Init => RelayInv
<1> SUFFICES ASSUME Init PROVE RelayInv
  OBVIOUS
<1>1. TypeOK BY TypeInit
<1>2. IdInv
  <2>1. edges \subseteq Edge /\ \A e \in Edge : e[2] \in Answering
    BY <1>1, EdgeType DEF TypeOK
  <2> QED BY <2>1 DEF Init, IdInv
<1>3. RouteInv
  <2>1. \A S : <<>> \in Seq(S) OBVIOUS
  <2> QED BY <2>1 DEF Init, RouteInv
<1> QED BY <1>1, <1>2, <1>3 DEF RelayInv

(* A client is no node that passes messages on: from there a backtrace     *)
(* that leads home has nothing left, and home is that client.              *)
LEMMA HomeAtClient ==
  ASSUME NEW c \in Client, NEW m \in Homeward(c)
  PROVE  m.from = c /\ m.trace = <<>>
<1>1. PICK path \in [1 .. Len(m.trace) + 1 -> Node] : Leads(path, c, m) BY DEF Homeward
<1>2. m.trace \in Seq(Nat) BY DEF Homeward, Message
<1>3. Len(m.trace) = 0
  <2>1. c \notin Answering BY RelayAssumption
  <2>2. ~ (1 \in 1 .. Len(m.trace)) BY <1>1, <2>1 DEF Leads
  <2> QED BY <1>2, <2>2
<1>4. m.trace = <<>> BY <1>2, <1>3
<1>5. path[0 + 1] = m.from /\ path[1] = c BY <1>1, <1>3 DEF Leads
<1> QED BY <1>4, <1>5

(* In every reachable state pipe ids are unique within a node and every    *)
(* backtrace leads home (newPipe of core.go, receiver and sender of REP    *)
(* and RESPONDENT, forwarder of device.go).                                *)
THEOREM RelayInvariant == SafeSpec => []RelayInv
<1>1. RelayInv /\ [Next]_vars => RelayInv'
  BY TypeStep, IdStep, RouteStep DEF RelayInv
<1> QED BY <1>1, RelayInit, PTL DEF SafeSpec

(* A reply reaches no client but the one that asked, with nothing left of  *)
(* the backtrace, in every topology and however connections were lost.     *)
THEOREM RepliesRoutedHome == SafeSpec => []RoutedHome
<1>1. RelayInv => RoutedHome
  <2> SUFFICES ASSUME RelayInv, NEW e \in edges, e[1] \in Client,
                      NEW i \in 1 .. Len(ans[e])
               PROVE  ans[e][i].from = e[1] /\ ans[e][i].trace = <<>>
    BY DEF RoutedHome
  <2>1. e \in Edge BY EdgeType DEF RelayInv, TypeOK
  <2>2. ans[e] \in Seq(Homeward(e[1])) BY <2>1 DEF RelayInv, RouteInv
  <2>3. ans[e][i] \in Homeward(e[1]) BY <2>2, ElementOfSeq
  <2> QED BY <2>3, HomeAtClient
<1> QED BY <1>1, RelayInvariant, PTL

=============================================================================
