-------------------------------- MODULE Req ---------------------------------
(***************************************************************************)
(* A REQ socket in cooked mode (protocol/req/req.go with SendMsg and       *)
(* RecvMsg of core.go): application threads, the upper queues, the         *)
(* resender goroutine with its timer, and a sender and a receiver          *)
(* goroutine for each endpoint.  The peer is external: it answers, in any  *)
(* order, requests that reached it, or loses them.                         *)
(*                                                                         *)
(* A message is the serial number of its request; 0 stands for nil.  A     *)
(* resent request is the same message (Dup shares it).                     *)
(***************************************************************************)
EXTENDS Integers, Sequences

CONSTANTS
  Thread,       \* application threads
  Pipe,         \* endpoints, each connected at most once
  MaxReq,       \* bound: requests made
  IdSpace,      \* request ids are taken modulo IdSpace (2^31 in the code)
  UwqLen, UrqLen, \* capacities of sock.uwq and sock.urq
  SendMode,     \* "block", "deadline" (OptionSendDeadline) or "besteffort"
  RecvDeadline, \* OptionRecvDeadline is set
  RetryMoves,   \* bound: what a change of OptionRetryTime may make of retry
  Lossy         \* the peer may lose a request, and not only delay it

ASSUME BoundAssumption ==
  /\ MaxReq \in Nat /\ IdSpace \in Nat /\ 0 < MaxReq /\ MaxReq < IdSpace
  /\ UwqLen \in Nat /\ UrqLen \in Nat
  /\ SendMode \in {"block", "deadline", "besteffort"} /\ RetryMoves \subseteq BOOLEAN
  /\ RecvDeadline \in BOOLEAN /\ Lossy \in BOOLEAN

VARIABLES
  nreq, reqmsg,      \* requests made (so r.reqid = nreq's id), r.reqmsg
  replies,           \* replies[m]: how often a reply to m was handed over
  waker, tick,       \* r.waker is armed; a tick waits in r.waker.C
  retry, rstable,    \* r.retry > 0; it has been, since the latest SendHook
  recverr,           \* sock.recverr is ErrProtoState
  uwq, urq,          \* the upper queues
  expired,           \* requests whose msg.expire has passed
  rpc, rm,           \* resender: program counter and message
  spc, sm,           \* sender of each endpoint
  rcv,               \* message the receiver of each endpoint holds
  up, atPeer,        \* state of the connection, requests its peer may answer
  tpc, tm,           \* threads: program counter and message to send
  closed             \* sock.closeq is closed

hookVars == <<nreq, reqmsg, replies, waker, retry, rstable, recverr>>
resVars  == <<rpc, rm, tick>>
sndVars  == <<spc, sm>>
netVars  == <<rcv, up, atPeer>>
thrVars  == <<tpc, tm>>
vars == <<hookVars, resVars, sndVars, netVars, thrVars, uwq, urq, expired, closed>>

Msg == 1 .. MaxReq

Init ==
  /\ nreq = 0 /\ reqmsg = 0
  /\ replies = [m \in Msg |-> 0]
  /\ waker = FALSE /\ tick = FALSE
  /\ retry \in BOOLEAN /\ rstable = FALSE
  /\ recverr = TRUE
  /\ uwq = <<>> /\ urq = <<>>
  /\ expired = {}
  /\ rpc = "off" /\ rm = 0
  /\ spc = [p \in Pipe |-> "off"] /\ sm = [p \in Pipe |-> 0]
  /\ rcv = [p \in Pipe |-> 0]
  /\ up = [p \in Pipe |-> "none"] /\ atPeer = [p \in Pipe |-> {}]
  /\ tpc = [t \in Thread |-> "idle"] /\ tm = [t \in Thread |-> 0]
  /\ closed = FALSE

-----------------------------------------------------------------------------
(* SetRecvError signals recverrq without blocking: one thread that waits   *)
(* in RecvMsg's select goes round its loop, or none does, for instance     *)
(* because it has not reached the select yet.                              *)
Wake(pc) ==
  {pc} \union {[pc EXCEPT ![t] = "rtop"] : t \in {u \in Thread : pc[u] = "rsel"}}

(* SendMsg up to its select: SendHook makes the message the outstanding    *)
(* request and arms or stops the retry timer.                              *)

Arm(r) == r

SendCall(t) ==
  /\ tpc[t] = "idle" /\ nreq < MaxReq
  /\ nreq' = nreq + 1
  /\ reqmsg' = nreq + 1
  /\ waker' = Arm(retry)
  /\ rstable' = retry
  /\ recverr' = FALSE
  /\ tpc' \in Wake([tpc EXCEPT ![t] = "enq"])
  /\ tm' = [tm EXCEPT ![t] = nreq + 1]
  /\ UNCHANGED <<replies, retry, resVars, sndVars, netVars, uwq, urq, expired, closed>>

SendEnqueue(t) ==
  /\ tpc[t] = "enq" /\ Len(uwq) < UwqLen
  /\ uwq' = Append(uwq, tm[t])
  /\ tpc' = [tpc EXCEPT ![t] = "idle"]
  /\ tm' = [tm EXCEPT ![t] = 0]
  /\ UNCHANGED <<hookVars, resVars, sndVars, netVars, urq, expired, closed>>

(* ErrClosed, ErrSendTimeout, or the silent drop of best effort: the       *)
(* message is not queued, but it remains the outstanding request.          *)
SendAbort(t) ==
  /\ tpc[t] = "enq"
  /\ \/ closed
     \/ SendMode = "deadline"
     \/ SendMode = "besteffort" /\ Len(uwq) >= UwqLen
  /\ tpc' = [tpc EXCEPT ![t] = "idle"]
  /\ tm' = [tm EXCEPT ![t] = 0]
  /\ UNCHANGED <<hookVars, resVars, sndVars, netVars, uwq, urq, expired, closed>>

RecvCall(t) ==
  /\ tpc[t] = "idle"
  /\ tpc' = [tpc EXCEPT ![t] = "rtop"]
  /\ UNCHANGED <<hookVars, resVars, sndVars, netVars, tm, uwq, urq, expired, closed>>

RecvTop(t) ==
  /\ tpc[t] = "rtop"
  /\ tpc' = [tpc EXCEPT ![t] = IF recverr THEN "idle" ELSE "rsel"]
  /\ UNCHANGED <<hookVars, resVars, sndVars, netVars, tm, uwq, urq, expired, closed>>

Id(m) == m % IdSpace

AcceptsId(m) == Id(m) = Id(nreq)  \* mutant: RecvHook does not test reqmsg

(* RecvHook's conditions.                                                  *)
Accepts(m) == reqmsg # 0 /\ Id(m) = Id(nreq)

ErrAfterReply == TRUE

RecvTake(t) ==
  /\ tpc[t] = "rsel" /\ urq # <<>>
  /\ urq' = Tail(urq)
  /\ \/ /\ Accepts(Head(urq))
        /\ replies' = [replies EXCEPT ![Head(urq)] = @ + 1]
        /\ reqmsg' = 0
        /\ waker' = FALSE
        /\ recverr' = ErrAfterReply
        /\ tpc' \in Wake([tpc EXCEPT ![t] = "idle"])
     \/ /\ ~Accepts(Head(urq))
        /\ tpc' = [tpc EXCEPT ![t] = "rtop"]
        /\ UNCHANGED <<replies, reqmsg, waker, recverr>>
  /\ UNCHANGED <<nreq, retry, rstable, resVars, sndVars, netVars, tm, uwq, expired, closed>>

RecvAbort(t) ==
  /\ tpc[t] = "rsel" /\ (closed \/ RecvDeadline)
  /\ tpc' = [tpc EXCEPT ![t] = "idle"]
  /\ UNCHANGED <<hookVars, resVars, sndVars, netVars, tm, uwq, urq, expired, closed>>

SetRetry ==
  /\ retry' \in RetryMoves \ {retry}
  /\ rstable' = FALSE
  /\ UNCHANGED <<nreq, reqmsg, replies, waker, recverr, resVars, sndVars, netVars, thrVars,
                 uwq, urq, expired, closed>>

-----------------------------------------------------------------------------
(* The timer and the resender goroutine.  Stop and Reset do not take back  *)
(* a tick that is already in the channel.                                  *)

WakerFire ==
  /\ waker
  /\ waker' = FALSE /\ tick' = TRUE
  /\ UNCHANGED <<nreq, reqmsg, replies, retry, rstable, recverr, rpc, rm, sndVars, netVars,
                 thrVars, uwq, urq, expired, closed>>

ResTick ==
  /\ rpc = "wait" /\ tick
  /\ rpc' = "got" /\ tick' = FALSE
  /\ UNCHANGED <<hookVars, rm, sndVars, netVars, thrVars, uwq, urq, expired, closed>>

ResExit ==
  /\ rpc = "wait" /\ closed
  /\ rpc' = "exit"
  /\ UNCHANGED <<hookVars, rm, tick, sndVars, netVars, thrVars, uwq, urq, expired, closed>>

ResLoad ==
  /\ rpc = "got"
  /\ rm' = reqmsg
  /\ rpc' = IF reqmsg = 0 THEN "wait" ELSE "push"
  /\ UNCHANGED <<hookVars, tick, sndVars, netVars, thrVars, uwq, urq, expired, closed>>

(* r.resend is unbuffered: a sender must be in its select.                 *)
Idle(p) == spc[p] = "sel"

ResPush(p) ==
  /\ rpc = "push" /\ Idle(p)
  /\ sm' = [sm EXCEPT ![p] = rm]
  /\ spc' = [spc EXCEPT ![p] = "send"]
  /\ rpc' = "rearm" /\ rm' = 0
  /\ UNCHANGED <<hookVars, tick, netVars, thrVars, uwq, urq, expired, closed>>

RearmOnce == FALSE                \* mutant: a request is resent only once

Rearm == retry

ResRearm ==
  /\ rpc = "rearm"
  /\ rpc' = "wait"
  /\ waker' = Rearm
  /\ UNCHANGED <<nreq, reqmsg, replies, retry, rstable, recverr, rm, tick, sndVars, netVars,
                 thrVars, uwq, urq, expired, closed>>

-----------------------------------------------------------------------------
(* Endpoints.                                                              *)

AddEndpoint(p) ==
  /\ up[p] = "none" /\ ~closed
  /\ up' = [up EXCEPT ![p] = "up"]
  /\ spc' = [spc EXCEPT ![p] = "sel"]
  /\ rpc' = IF rpc = "off" THEN "wait" ELSE rpc   \* r.init.Do
  /\ UNCHANGED <<hookVars, rm, tick, sm, rcv, atPeer, thrVars, uwq, urq, expired, closed>>

(* The connection is lost or closed: RemoveEndpoint closes pe.cq, the      *)
(* receiver ends, and what was under way is lost.                          *)
PipeDown(p) ==
  /\ up[p] = "up"
  /\ up' = [up EXCEPT ![p] = "down"]
  /\ atPeer' = [atPeer EXCEPT ![p] = {}]
  /\ UNCHANGED <<hookVars, resVars, sndVars, rcv, thrVars, uwq, urq, expired, closed>>

SndTake(p) ==
  /\ uwq # <<>> /\ Idle(p)
  /\ sm' = [sm EXCEPT ![p] = Head(uwq)]
  /\ uwq' = Tail(uwq)
  /\ spc' = [spc EXCEPT ![p] = "send"]
  /\ UNCHANGED <<hookVars, resVars, netVars, thrVars, urq, expired, closed>>

SndExit(p) ==
  /\ spc[p] = "sel" /\ (closed \/ up[p] = "down")
  /\ spc' = [spc EXCEPT ![p] = "exit"]
  /\ UNCHANGED <<hookVars, resVars, sm, netVars, thrVars, uwq, urq, expired, closed>>

(* The transport takes the message, or frees it because it has expired.    *)
SndOk(p) ==
  /\ spc[p] = "send"
  /\ \/ /\ sm[p] \in expired
        /\ UNCHANGED atPeer
     \/ /\ sm[p] \notin expired /\ up[p] = "up"
        /\ atPeer' = [atPeer EXCEPT ![p] = @ \union {sm[p]}]
  /\ spc' = [spc EXCEPT ![p] = "sel"]
  /\ sm' = [sm EXCEPT ![p] = 0]
  /\ UNCHANGED <<hookVars, resVars, rcv, up, thrVars, uwq, urq, expired, closed>>

SndFail(p) ==
  /\ spc[p] = "send" /\ sm[p] \notin expired /\ up[p] = "down"
  /\ spc' = [spc EXCEPT ![p] = "push"]
  /\ UNCHANGED <<hookVars, resVars, sm, netVars, thrVars, uwq, urq, expired, closed>>

(* A failed sender hands its message to another one and ends.              *)
SndPush(p, q) ==
  /\ spc[p] = "push" /\ Idle(q)
  /\ sm' = [sm EXCEPT ![p] = 0, ![q] = sm[p]]
  /\ spc' = [spc EXCEPT ![p] = "exit", ![q] = "send"]
  /\ UNCHANGED <<hookVars, resVars, netVars, thrVars, uwq, urq, expired, closed>>

(* The peer answers m, and the receiver reads the reply.                   *)
RcvMsg(p, m) ==
  /\ up[p] = "up" /\ rcv[p] = 0 /\ m \in atPeer[p]
  /\ rcv' = [rcv EXCEPT ![p] = m]
  /\ atPeer' = [atPeer EXCEPT ![p] = @ \ {m}]
  /\ UNCHANGED <<hookVars, resVars, sndVars, up, thrVars, uwq, urq, expired, closed>>

RcvReady(p) == rcv[p] # 0

RcvPush(p) ==
  /\ RcvReady(p)
  /\ \/ Len(urq) < UrqLen /\ urq' = Append(urq, rcv[p])
     \/ closed /\ UNCHANGED urq
  /\ rcv' = [rcv EXCEPT ![p] = 0]
  /\ UNCHANGED <<hookVars, resVars, sndVars, up, atPeer, thrVars, uwq, expired, closed>>

-----------------------------------------------------------------------------
(* The environment.                                                        *)

PeerLoses(p, m) ==
  /\ Lossy /\ m \in atPeer[p]
  /\ atPeer' = [atPeer EXCEPT ![p] = @ \ {m}]
  /\ UNCHANGED <<hookVars, resVars, sndVars, rcv, up, thrVars, uwq, urq, expired, closed>>

(* The send deadline of a request passes.                                  *)
Expire(m) ==
  /\ SendMode = "deadline" /\ m <= nreq /\ m \notin expired
  /\ expired' = expired \union {m}
  /\ UNCHANGED <<hookVars, resVars, sndVars, netVars, thrVars, uwq, urq, closed>>

Close ==
  /\ ~closed /\ closed' = TRUE
  /\ UNCHANGED <<hookVars, resVars, sndVars, netVars, thrVars, uwq, urq, expired>>

-----------------------------------------------------------------------------
RecvStep(t) == RecvCall(t) \/ RecvTop(t) \/ RecvTake(t) \/ RecvAbort(t)
ResStep == ResTick \/ ResExit \/ ResLoad \/ ResRearm
SndStep(p) == SndExit(p) \/ SndOk(p) \/ SndFail(p)

Next ==
  \/ \E t \in Thread : SendCall(t) \/ SendEnqueue(t) \/ SendAbort(t) \/ RecvStep(t)
  \/ WakerFire \/ ResStep \/ SetRetry \/ Close
  \/ \E p \in Pipe : \/ AddEndpoint(p) \/ PipeDown(p) \/ ResPush(p)
                     \/ SndStep(p) \/ SndTake(p) \/ RcvPush(p)
  \/ \E p, q \in Pipe : SndPush(p, q)
  \/ \E p \in Pipe, m \in Msg : RcvMsg(p, m) \/ PeerLoses(p, m)
  \/ \E m \in Msg : Expire(m)

SafeSpec == Init /\ [][Next]_vars

(* Goroutines and the timer run.  A blocked channel operation is served    *)
(* once its partner keeps coming back to its select.  The peer answers a   *)
(* request it keeps getting, and the application keeps receiving.          *)
Fairness ==
  /\ \A t \in Thread : WF_vars(SendEnqueue(t) \/ SendAbort(t) \/ RecvStep(t))
  /\ SF_vars(\E t \in Thread : RecvTake(t))
  /\ WF_vars(WakerFire \/ ResStep)
  /\ WF_vars(\E p \in Pipe : AddEndpoint(p))
  /\ \A p \in Pipe : WF_vars(SndStep(p)) /\ WF_vars(RcvPush(p))
  /\ SF_vars(\E p \in Pipe : SndTake(p)) /\ SF_vars(\E p \in Pipe : ResPush(p))
  /\ SF_vars(\E p, q \in Pipe : SndPush(p, q))
  /\ SF_vars(\E p \in Pipe, m \in Msg : RcvMsg(p, m))

Spec == SafeSpec /\ Fairness

-----------------------------------------------------------------------------
(* Properties.                                                             *)

(* Every variable of the REQ socket has its type.                          *)
TypeOK ==
  /\ nreq \in 0 .. MaxReq /\ reqmsg \in 0 .. MaxReq
  /\ replies \in [Msg -> Nat]
  /\ waker \in BOOLEAN /\ tick \in BOOLEAN /\ retry \in BOOLEAN /\ rstable \in BOOLEAN
  /\ recverr \in BOOLEAN /\ closed \in BOOLEAN
  /\ uwq \in Seq(Msg) /\ urq \in Seq(Msg)
  /\ expired \subseteq Msg
  /\ rpc \in {"off", "wait", "got", "push", "rearm", "exit"} /\ rm \in 0 .. MaxReq
  /\ spc \in [Pipe -> {"off", "sel", "send", "push", "exit"}]
  /\ sm \in [Pipe -> 0 .. MaxReq] /\ rcv \in [Pipe -> 0 .. MaxReq]
  /\ up \in [Pipe -> {"none", "up", "down"}]
  /\ atPeer \in [Pipe -> SUBSET Msg]
  /\ tpc \in [Thread -> {"idle", "enq", "rtop", "rsel"}]
  /\ tm \in [Thread -> 0 .. MaxReq]

(* However often a request is sent and answered, over however many         *)
(* connections, RecvMsg hands over at most one reply to it (RecvHook).     *)
ReplyOnce == \A m \in Msg : replies[m] <= 1

(* A reply that RecvMsg hands over answers the request made last; replies  *)
(* to requests that were replaced are discarded (SendHook, RecvHook).      *)
ReplyToLatest == [][\A m \in Msg : replies'[m] # replies[m] => m = nreq]_vars

(* A request that waits for its reply is never forgotten: the timer runs,  *)
(* its tick is waiting, or the resender is busy with it, as long as the    *)
(* retry time stays set (SendHook, RecvHook, resender).                    *)
RetryPending ==
  reqmsg # 0 /\ rstable /\ ~closed =>
    waker \/ tick \/ rpc \in {"got", "push", "rearm"}

(* A receiver that may wait has a request to wait for: RecvMsg reports     *)
(* ErrProtoState exactly while no request is outstanding.                  *)
RecvErrMatches == recverr <=> reqmsg = 0

(* REQ implements the request/reply service.                               *)
RR == INSTANCE RequestReply
        WITH Request <- Msg, asked <- nreq, pending <- reqmsg # 0, replied <- replies

Implements == RR!AbsSpec

(* With a retry time set, every request is answered, however many times it *)
(* or its reply gets lost, unless the application replaces it or closes    *)
(* the socket, or every connection fails (options.go, OptionRetryTime).    *)
Answered ==
  \A m \in Msg :
    (reqmsg = m /\ rstable) ~>
      (reqmsg # m \/ ~rstable \/ closed \/ \A p \in Pipe : up[p] = "down")

=============================================================================
