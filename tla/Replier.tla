------------------------------ MODULE Replier -------------------------------
(***************************************************************************)
(* The answering sockets in cooked mode: REP (protocol/rep/rep.go) and     *)
(* RESPONDENT (protocol/respondent/respondent.go), with SendMsg of         *)
(* core.go.  The two differ in the order of their hooks' steps, in what    *)
(* the sender does under the lock, and in what a receiver does with a bad  *)
(* request.                                                                *)
(*                                                                         *)
(* A message is the serial number of its request, with 0 for nil or for a  *)
(* reply without a header.  The header of a request is its number, which   *)
(* determines the pipe it came over.                                       *)
(***************************************************************************)
EXTENDS Integers, Sequences

CONSTANTS
  Kind,         \* which of "rep" and "respondent" are considered
  Thread, Pipe,
  MaxReq,       \* bound: requests that peers send
  MaxHops,      \* bound: longest backtrace of a request, in 32-bit words
  TTL,          \* values that OptionTTL is given
  QLen,         \* capacity of an endpoint's queue (2 and 1 in the code)
  UwqLen, UrqLen,
  SendDeadline, \* whether the socket has a send deadline
  NoPipe

ASSUME ReplierAssumption ==
  /\ Kind \subseteq {"rep", "respondent"} /\ NoPipe \notin Pipe
  /\ MaxReq \in Nat /\ MaxHops \in Nat /\ TTL \subseteq 1 .. 255
  /\ QLen \in Nat /\ UwqLen \in Nat /\ UrqLen \in Nat /\ SendDeadline \in BOOLEAN

VARIABLES
  kind,
  ttl,          \* r.ttl
  senderr,      \* sock.senderr is ErrProtoState
  backtrace,    \* the request to which the next reply goes
  up, eps,      \* state of each connection ("deleted": being removed), endpoint table
  q, qclosed,   \* q[p]: queue of p's endpoint, and whether it is closed
  nreq, from,   \* requests sent by peers, and by which
  wire,         \* wire[p]: the request under way: number and words of backtrace
  rcv, ended,   \* what each receiver holds; receivers that have returned
  uwq, urq,     \* the upper queues
  spc, sm,      \* the sender: program counter and message
  tpc, tm,      \* threads: program counter and message
  given,        \* requests handed to the application
  answered,     \* answered[m]: replies to m that reached its peer
  crashed,      \* a send on a closed channel: the process is dead
  closed        \* sock.closeq is closed

opts     == <<kind, ttl>>
hookVars == <<senderr, backtrace>>
epVars   == <<up, eps, q, qclosed>>
rcvVars  == <<nreq, from, wire, rcv, ended>>
sndVars  == <<spc, sm>>
thrVars  == <<tpc, tm>>
outVars  == <<given, answered, crashed>>
vars == <<opts, hookVars, epVars, rcvVars, sndVars, thrVars, outVars, uwq, urq, closed>>

Msg == 1 .. MaxReq
Words == 0 .. MaxHops     \* 0: the body ends before the request id
NoWire == [id |-> 0, words |-> 0]

Init ==
  /\ kind \in Kind /\ ttl \in TTL
  /\ senderr = TRUE /\ backtrace = 0
  /\ up = [p \in Pipe |-> "none"] /\ eps = {}
  /\ q = [p \in Pipe |-> <<>>] /\ qclosed = [p \in Pipe |-> FALSE]
  /\ nreq = 0 /\ from = [m \in Msg |-> NoPipe]
  /\ wire = [p \in Pipe |-> NoWire]
  /\ rcv = [p \in Pipe |-> 0] /\ ended = {}
  /\ uwq = <<>> /\ urq = <<>>
  /\ spc = "sel" /\ sm = 0
  /\ tpc = [t \in Thread |-> "idle"] /\ tm = [t \in Thread |-> 0]
  /\ given = {} /\ answered = [m \in Msg |-> 0]
  /\ crashed = FALSE /\ closed = FALSE

-----------------------------------------------------------------------------
(* Endpoints.  (AddEndpoint may also come late, after Close: SocketCore    *)
(* has that.)                                                              *)

AddEndpoint(p) ==
  /\ up[p] = "none" /\ ~closed
  /\ up' = [up EXCEPT ![p] = "up"]
  /\ eps' = eps \union {p}
  /\ UNCHANGED <<opts, hookVars, q, qclosed, rcvVars, sndVars, thrVars, outVars, uwq, urq, closed>>

RepAdd(p) == kind = "rep" /\ AddEndpoint(p)
RespondentAdd(p) == kind = "respondent" /\ AddEndpoint(p)

(* The connection is lost, and what was under way with it.                 *)
PipeDown(p) ==
  /\ up[p] = "up"
  /\ up' = [up EXCEPT ![p] = "down"]
  /\ wire' = [wire EXCEPT ![p] = NoWire]
  /\ UNCHANGED <<opts, hookVars, eps, q, qclosed, nreq, from, rcv, ended, sndVars, thrVars,
                 outVars, uwq, urq, closed>>

(* REP takes the endpoint out of the table and closes its queue under the  *)
(* lock.                                                                   *)
RepRemove(p) ==
  /\ kind = "rep" /\ up[p] = "down" /\ p \in eps
  /\ eps' = eps \ {p}
  /\ qclosed' = [qclosed EXCEPT ![p] = TRUE]
  /\ UNCHANGED <<opts, hookVars, up, q, rcvVars, sndVars, thrVars, outVars, uwq, urq, closed>>

(* RESPONDENT closes the queue after it has released the lock.             *)
RespondentDelete(p) ==
  /\ kind = "respondent" /\ up[p] = "down" /\ p \in eps
  /\ eps' = eps \ {p}
  /\ up' = [up EXCEPT ![p] = "deleted"]
  /\ UNCHANGED <<opts, hookVars, q, qclosed, rcvVars, sndVars, thrVars, outVars, uwq, urq, closed>>

RespondentRemove(p) ==
  /\ up[p] = "deleted" /\ up' = [up EXCEPT ![p] = "down"]
  /\ qclosed' = [qclosed EXCEPT ![p] = TRUE]
  /\ UNCHANGED <<opts, hookVars, eps, q, rcvVars, sndVars, thrVars, outVars, uwq, urq, closed>>

Close ==
  /\ ~closed /\ closed' = TRUE
  /\ UNCHANGED <<opts, hookVars, epVars, rcvVars, sndVars, thrVars, outVars, uwq, urq>>

(* After the sender has ended, or the linger time.                         *)
Shutdown ==
  /\ closed /\ eps # {}
  /\ eps' = {}
  /\ qclosed' = [p \in Pipe |-> qclosed[p] \/ p \in eps]
  /\ UNCHANGED <<opts, hookVars, up, q, rcvVars, sndVars, thrVars, outVars, uwq, urq, closed>>

-----------------------------------------------------------------------------
(* Receiving.  A peer sends its requests one after the other.              *)

PeerRequest(p, w) ==
  /\ up[p] = "up" /\ wire[p] = NoWire /\ nreq < MaxReq
  /\ nreq' = nreq + 1
  /\ from' = [from EXCEPT ![nreq + 1] = p]
  /\ wire' = [wire EXCEPT ![p] = [id |-> nreq + 1, words |-> w]]
  /\ UNCHANGED <<opts, hookVars, epVars, rcv, ended, sndVars, thrVars, outVars, uwq, urq, closed>>

(* OptionTTL, at any time; the receivers read r.ttl without the lock.      *)
SetTTL(n) ==
  /\ n \in TTL /\ n # ttl /\ ttl' = n
  /\ UNCHANGED <<kind, hookVars, epVars, rcvVars, sndVars, thrVars, outVars, uwq, urq, closed>>

RepSetTTL(n) == kind = "rep" /\ SetTTL(n)
RespondentSetTTL(n) == kind = "respondent" /\ SetTTL(n)

(* The backtrace ends with the request id, within ttl words.               *)
Good(w) == w.words \in 1 .. ttl

ReadsOn(p) == p \notin ended /\ rcv[p] = 0 /\ wire[p] # NoWire

(* REP's receiver returns on a bad request.                                *)
RepRead(p) ==
  /\ kind = "rep" /\ ReadsOn(p)
  /\ \/ Good(wire[p]) /\ rcv' = [rcv EXCEPT ![p] = wire[p].id] /\ UNCHANGED ended
     \/ ~Good(wire[p]) /\ ended' = ended \union {p} /\ UNCHANGED rcv
  /\ wire' = [wire EXCEPT ![p] = NoWire]
  /\ UNCHANGED <<opts, hookVars, epVars, nreq, from, sndVars, thrVars, outVars, uwq, urq, closed>>

EndsOnBad(p) == ended \union {p}        \* mutant: RESPONDENT's receiver returns, too

SkipsBad(p) == ended

(* RESPONDENT's goes on with the next message.                             *)
RespondentRead(p) ==
  /\ kind = "respondent" /\ ReadsOn(p)
  /\ \/ Good(wire[p]) /\ rcv' = [rcv EXCEPT ![p] = wire[p].id] /\ UNCHANGED ended
     \/ ~Good(wire[p]) /\ ended' = SkipsBad(p) /\ UNCHANGED rcv
  /\ wire' = [wire EXCEPT ![p] = NoWire]
  /\ UNCHANGED <<opts, hookVars, epVars, nreq, from, sndVars, thrVars, outVars, uwq, urq, closed>>

RcvReady(p) == rcv[p] # 0

RcvPush(p) ==
  /\ RcvReady(p)
  /\ \/ Len(urq) < UrqLen /\ urq' = Append(urq, rcv[p]) /\ UNCHANGED ended
     \/ closed /\ ended' = ended \union {p} /\ UNCHANGED urq
  /\ rcv' = [rcv EXCEPT ![p] = 0]
  /\ UNCHANGED <<opts, hookVars, epVars, nreq, from, wire, sndVars, thrVars, outVars, uwq, closed>>

-----------------------------------------------------------------------------
(* RecvMsg and SendMsg.  The hooks take the socket lock and the lock of    *)
(* the backtrace one after the other.                                      *)

At(t, pc) == tpc' = [tpc EXCEPT ![t] = pc]
With(t, m) == tm' = [tm EXCEPT ![t] = m]

RecvTake(t) ==
  /\ tpc[t] = "idle" /\ urq # <<>>
  /\ With(t, Head(urq)) /\ At(t, "hook1")
  /\ urq' = Tail(urq)
  /\ UNCHANGED <<opts, hookVars, epVars, rcvVars, sndVars, outVars, uwq, closed>>

ClearErr == senderr' = FALSE /\ UNCHANGED backtrace
Save(t) == backtrace' = tm[t] /\ UNCHANGED senderr

Received(t) ==
  /\ At(t, "idle") /\ With(t, 0)
  /\ given' = given \union {tm[t]}
  /\ UNCHANGED <<answered, crashed>>

(* REP clears the error first, RESPONDENT saves the backtrace first.       *)
RepRecvHook(t) ==
  /\ kind = "rep"
  /\ \/ tpc[t] = "hook1" /\ At(t, "hook2") /\ ClearErr /\ UNCHANGED <<tm, outVars>>
     \/ tpc[t] = "hook2" /\ Save(t) /\ Received(t)
  /\ UNCHANGED <<opts, epVars, rcvVars, sndVars, uwq, urq, closed>>

RespondentRecvHook(t) ==
  /\ kind = "respondent"
  /\ \/ tpc[t] = "hook1" /\ At(t, "hook2") /\ Save(t) /\ UNCHANGED <<tm, outVars>>
     \/ tpc[t] = "hook2" /\ ClearErr /\ Received(t)
  /\ UNCHANGED <<opts, epVars, rcvVars, sndVars, uwq, urq, closed>>

(* With senderr set SendMsg returns ErrProtoState instead.                 *)
SendCall(t) ==
  /\ tpc[t] = "idle" /\ ~senderr
  /\ At(t, "send1")
  /\ UNCHANGED <<opts, hookVars, epVars, rcvVars, sndVars, tm, outVars, uwq, urq, closed>>

SendHook1(t) ==
  /\ tpc[t] = "send1" /\ At(t, "send2")
  /\ senderr' = TRUE
  /\ UNCHANGED <<opts, backtrace, epVars, rcvVars, sndVars, tm, outVars, uwq, urq, closed>>

KeepTrace == backtrace                  \* mutant: the backtrace is not cleared

ClearTrace == 0

TakeTrace(t) ==
  /\ tpc[t] = "send2" /\ With(t, backtrace)
  /\ backtrace' = ClearTrace
  /\ UNCHANGED <<opts, senderr, epVars, rcvVars, sndVars, outVars, uwq, urq, closed>>

(* Without a backtrace the message is dropped here if its header is nil,   *)
(* and otherwise, with an empty header, by the sender.                     *)
RepSendHook(t) ==
  /\ kind = "rep" /\ TakeTrace(t)
  /\ At(t, "enq") \/ (backtrace = 0 /\ At(t, "idle"))

RespondentSendHook(t) ==
  /\ kind = "respondent" /\ TakeTrace(t)
  /\ At(t, IF backtrace = 0 THEN "idle" ELSE "enq")

SendEnd(t) ==
  /\ tpc[t] = "enq" /\ At(t, "idle") /\ With(t, 0)
  /\ \/ Len(uwq) < UwqLen /\ uwq' = Append(uwq, tm[t])
     \/ (closed \/ SendDeadline) /\ UNCHANGED uwq
  /\ UNCHANGED <<opts, hookVars, epVars, rcvVars, sndVars, outVars, urq, closed>>

-----------------------------------------------------------------------------
(* The sender puts a reply on the queue of its peer, if that is there and  *)
(* has room.                                                               *)

Enqueue(p, m) ==
  /\ crashed' = (crashed \/ qclosed[p])
  /\ q' = IF Len(q[p]) < QLen /\ ~qclosed[p] THEN [q EXCEPT ![p] = Append(@, m)] ELSE q

Dropped == UNCHANGED <<q, crashed>>

Found(m) == m # 0 /\ from[m] \in eps

RepLooks(m) == m # 0                    \* mutant: no test for a missing endpoint

RepFinds(m) == Found(m)

RepSend ==
  /\ kind = "rep" /\ spc = "sel" /\ uwq # <<>>
  /\ uwq' = Tail(uwq)
  /\ LET m == Head(uwq) IN
       \/ RepFinds(m) /\ Enqueue(from[m], m)
       \/ ~RepFinds(m) /\ Dropped
  /\ UNCHANGED <<opts, hookVars, up, eps, qclosed, rcvVars, sndVars, thrVars, given, answered,
                 urq, closed>>

(* RESPONDENT's sender looks the peer up under the lock ...                *)
RespondentLookup ==
  /\ kind = "respondent" /\ spc = "sel" /\ uwq # <<>>
  /\ uwq' = Tail(uwq)
  /\ LET m == Head(uwq) IN
       \/ Found(m) /\ spc' = "push" /\ sm' = m
       \/ ~Found(m) /\ UNCHANGED sndVars
  /\ UNCHANGED <<opts, hookVars, epVars, rcvVars, thrVars, outVars, urq, closed>>

(* ... and sends to its queue without it.                                  *)
RespondentPush ==
  /\ spc = "push" /\ Enqueue(from[sm], sm)
  /\ spc' = "sel" /\ sm' = 0
  /\ UNCHANGED <<opts, hookVars, up, eps, qclosed, rcvVars, thrVars, given, answered, uwq, urq, closed>>

SndExit ==
  /\ spc = "sel" /\ closed
  /\ spc' = "exit"
  /\ UNCHANGED <<opts, hookVars, epVars, rcvVars, sm, thrVars, outVars, uwq, urq, closed>>

(* On a lost connection the endpoint's sender fails and takes no more.     *)
PeerSend(p) ==
  /\ q[p] # <<>> /\ up[p] = "up"
  /\ answered' = [answered EXCEPT ![Head(q[p])] = @ + 1]
  /\ q' = [q EXCEPT ![p] = Tail(@)]
  /\ UNCHANGED <<opts, hookVars, up, eps, qclosed, rcvVars, sndVars, thrVars, given, crashed,
                 uwq, urq, closed>>

RepPeerSend(p) == kind = "rep" /\ PeerSend(p)
RespondentPeerSend(p) == kind = "respondent" /\ PeerSend(p)

-----------------------------------------------------------------------------
RcvStep(p) == RepRead(p) \/ RespondentRead(p) \/ RcvPush(p)
SndStep == RepSend \/ RespondentLookup \/ RespondentPush \/ SndExit
ThrStep(t) ==
  \/ RepRecvHook(t) \/ RespondentRecvHook(t)
  \/ SendHook1(t) \/ RepSendHook(t) \/ RespondentSendHook(t) \/ SendEnd(t)

Next ==
  /\ ~crashed
  /\ \/ \E p \in Pipe : \/ RepAdd(p) \/ RespondentAdd(p) \/ PipeDown(p)
                        \/ RepRemove(p) \/ RespondentDelete(p) \/ RespondentRemove(p)
                        \/ RcvStep(p) \/ RepPeerSend(p) \/ RespondentPeerSend(p)
     \/ \E p \in Pipe, w \in Words : PeerRequest(p, w)
     \/ \E t \in Thread : RecvTake(t) \/ SendCall(t) \/ ThrStep(t)
     \/ \E n \in TTL : RepSetTTL(n) \/ RespondentSetTTL(n)
     \/ SndStep \/ Close \/ Shutdown

SafeSpec == Init /\ [][Next]_vars

(* Goroutines run, and some thread keeps calling RecvMsg.                  *)
Fairness ==
  /\ \A p \in Pipe : WF_vars(RcvStep(p) /\ ~crashed)
  /\ SF_vars(\E t \in Thread : RecvTake(t) /\ ~crashed)
  /\ \A t \in Thread : WF_vars(ThrStep(t) /\ ~crashed)
  /\ WF_vars(SndStep /\ ~crashed)

Spec == SafeSpec /\ Fairness

-----------------------------------------------------------------------------
(* Properties.                                                             *)

(* Every variable of the answering sockets has its type.                   *)
TypeOK ==
  /\ kind \in Kind /\ ttl \in TTL
  /\ senderr \in BOOLEAN /\ backtrace \in 0 .. MaxReq
  /\ up \in [Pipe -> {"none", "up", "down", "deleted"}] /\ eps \subseteq Pipe
  /\ q \in [Pipe -> Seq(Msg)] /\ qclosed \in [Pipe -> BOOLEAN]
  /\ nreq \in 0 .. MaxReq /\ from \in [Msg -> Pipe \union {NoPipe}]
  /\ wire \in [Pipe -> [id : 0 .. MaxReq, words : Words]]
  /\ rcv \in [Pipe -> 0 .. MaxReq] /\ ended \subseteq Pipe
  /\ uwq \in Seq(0 .. MaxReq) /\ urq \in Seq(Msg)
  /\ spc \in {"sel", "push", "exit"} /\ sm \in 0 .. MaxReq
  /\ tpc \in [Thread -> {"idle", "hook1", "hook2", "send1", "send2", "enq"}]
  /\ tm \in [Thread -> 0 .. MaxReq]
  /\ given \subseteq Msg /\ answered \in [Msg -> Nat]
  /\ crashed \in BOOLEAN /\ closed \in BOOLEAN

(* A request is answered at most once, also when two threads receive and   *)
(* send on the socket at the same time (RecvHook, SendHook).               *)
AnsweredOnce == \A m \in Msg : answered[m] <= 1

(* REP's sender never sends on a queue that RemoveEndpoint or Shutdown has *)
(* closed, which would end the process: the queues close once they have    *)
(* left the table, and REP looks there under the lock (sender).            *)
RepPushOpen == kind = "rep" => ~crashed

(* A request under way that is good for every TTL in use reaches the       *)
(* application, whatever the same peer sent before and however the TTL     *)
(* changes, unless the connection or the socket goes first; with REP,      *)
(* unless a bad request has made the receiver return.                      *)
GoodServed ==
  \A p \in Pipe, m \in Msg :
    ( /\ wire[p].id = m /\ wire[p].words > 0 /\ \A n \in TTL : wire[p].words <= n
      /\ kind = "rep" => p \notin ended ) ~>
      (m \in given \/ up[p] # "up" \/ closed \/ crashed)

=============================================================================
