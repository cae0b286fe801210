----------------------------- MODULE ReqProofs ------------------------------
(***************************************************************************)
(* Proofs about Req, for any sets of threads and endpoints, any number of  *)
(* requests below the size of the id space, any queue lengths and any send *)
(* mode: the types, the safety invariants, and that REQ implements the     *)
(* request/reply service of RequestReply.                                  *)
(***************************************************************************)
EXTENDS Req, TLAPS

(* Whoever carries a message carries a request, never nil.                 *)
CarryOK ==
  /\ rpc = "push" => rm \in Msg
  /\ \A p \in Pipe : spc[p] \in {"send", "push"} => sm[p] \in Msg
  /\ \A t \in Thread : tpc[t] = "enq" => tm[t] \in Msg

TypeInv == TypeOK /\ CarryOK

(* The kinds of step.                                                      *)
LEMMA NextCases ==
  ASSUME Next
  PROVE  \/ \E t \in Thread : SendCall(t) \/ SendEnqueue(t) \/ SendAbort(t) \/ RecvStep(t)
         \/ WakerFire \/ ResStep \/ SetRetry \/ Close
         \/ \E p \in Pipe : AddEndpoint(p) \/ PipeDown(p) \/ ResPush(p)
         \/ \E p \in Pipe : SndStep(p) \/ SndTake(p) \/ RcvPush(p)
         \/ \E p, q \in Pipe : SndPush(p, q)
         \/ \E p \in Pipe, m \in Msg : RcvMsg(p, m) \/ PeerLoses(p, m)
         \/ \E m \in Msg : Expire(m)
  BY DEF Next

(* A wake-up only moves waiting threads round their loop.                  *)
LEMMA WakeType ==
  ASSUME NEW pc \in [Thread -> {"idle", "enq", "rtop", "rsel"}], NEW w \in Wake(pc)
  PROVE  /\ w \in [Thread -> {"idle", "enq", "rtop", "rsel"}]
         /\ \A t \in Thread : w[t] = "enq" => pc[t] = "enq"
  BY DEF Wake

(* Type correctness of the initial states.                                 *)
LEMMA TypeInit == Init => TypeInv
<1> SUFFICES ASSUME Init PROVE TypeInv OBVIOUS
<1>1. 0 \in 0 .. MaxReq BY BoundAssumption
<1>2. TypeOK
  <2>1. /\ nreq \in 0 .. MaxReq /\ reqmsg \in 0 .. MaxReq /\ replies \in [Msg -> Nat]
        /\ uwq \in Seq(Msg) /\ urq \in Seq(Msg) /\ expired \subseteq Msg /\ rm \in 0 .. MaxReq
    BY <1>1 DEF Init
  <2>2. /\ sm \in [Pipe -> 0 .. MaxReq] /\ rcv \in [Pipe -> 0 .. MaxReq]
        /\ tm \in [Thread -> 0 .. MaxReq] /\ atPeer \in [Pipe -> SUBSET Msg]
    BY <1>1 DEF Init
  <2>3. /\ spc \in [Pipe -> {"off", "sel", "send", "push", "exit"}]
        /\ up \in [Pipe -> {"none", "up", "down"}]
        /\ tpc \in [Thread -> {"idle", "enq", "rtop", "rsel"}]
        /\ rpc \in {"off", "wait", "got", "push", "rearm", "exit"}
    BY DEF Init
  <2>4. /\ waker \in BOOLEAN /\ tick \in BOOLEAN /\ retry \in BOOLEAN
        /\ rstable \in BOOLEAN /\ recverr \in BOOLEAN /\ closed \in BOOLEAN
    BY DEF Init
  <2> QED BY <2>1, <2>2, <2>3, <2>4 DEF TypeOK
<1>3. CarryOK BY DEF Init, CarryOK
<1> QED BY <1>2, <1>3 DEF TypeInv

(* Every step keeps the types.                                             *)
LEMMA TypeStep == TypeInv /\ [Next]_vars => TypeInv'
<1> SUFFICES ASSUME TypeInv, [Next]_vars PROVE TypeInv'
  OBVIOUS
<1>m. Msg \subseteq 0 .. MaxReq /\ 0 \in 0 .. MaxReq /\ 0 \notin Msg
  BY BoundAssumption DEF Msg
<1> USE <1>m DEF TypeInv, TypeOK, CarryOK, hookVars, resVars, sndVars, netVars, thrVars
<1>1. CASE UNCHANGED vars BY <1>1 DEF vars
<1>2. ASSUME NEW t \in Thread, SendCall(t) \/ SendEnqueue(t) \/ SendAbort(t) PROVE TypeInv'
  <2>1. CASE SendCall(t)
    <3>1. nreq + 1 \in Msg BY <2>1, BoundAssumption DEF SendCall, Msg
    <3> DEFINE pc == [tpc EXCEPT ![t] = "enq"]
    <3>2. pc \in [Thread -> {"idle", "enq", "rtop", "rsel"}] /\ tpc' \in Wake(pc)
      BY <2>1 DEF SendCall
    <3>3. /\ tpc' \in [Thread -> {"idle", "enq", "rtop", "rsel"}]
          /\ \A u \in Thread : tpc'[u] = "enq" => pc[u] = "enq"
      <4> HIDE DEF pc
      <4> QED BY <3>2, WakeType
    <3>4. \A u \in Thread : tpc'[u] = "enq" => tpc[u] = "enq" \/ u = t BY <3>3
    <3> QED BY <2>1, <3>1, <3>3, <3>4, ZenonT(30) DEF SendCall, Arm
  <2>2. CASE SendEnqueue(t) BY <2>2 DEF SendEnqueue
  <2>3. CASE SendAbort(t) BY <2>3 DEF SendAbort
  <2> QED BY <1>2, <2>1, <2>2, <2>3
<1>3. ASSUME NEW t \in Thread, RecvStep(t) PROVE TypeInv'
  <2>1. CASE RecvCall(t) BY <2>1 DEF RecvCall
  <2>2. CASE RecvTop(t) BY <2>2 DEF RecvTop
  <2>3. CASE RecvTake(t)
    <3>1. Head(urq) \in Msg /\ urq' \in Seq(Msg) BY <2>3 DEF RecvTake
    <3>3. CASE Accepts(Head(urq))
      <4> DEFINE pc == [tpc EXCEPT ![t] = "idle"]
      <4>1. pc \in [Thread -> {"idle", "enq", "rtop", "rsel"}] /\ tpc' \in Wake(pc)
        BY <2>3, <3>3 DEF RecvTake
      <4>2. /\ tpc' \in [Thread -> {"idle", "enq", "rtop", "rsel"}]
            /\ \A u \in Thread : tpc'[u] = "enq" => pc[u] = "enq"
        <5> HIDE DEF pc
        <5> QED BY <4>1, WakeType
      <4>3. \A u \in Thread : tpc'[u] = "enq" => tpc[u] = "enq" BY <4>2
      <4>4. /\ replies' \in [Msg -> Nat] /\ reqmsg' = 0 /\ waker' = FALSE /\ recverr' = TRUE
        BY <2>3, <3>1, <3>3, SMTT(30) DEF RecvTake, ErrAfterReply
      <4>5. UNCHANGED <<nreq, retry, rstable, rpc, rm, tick, spc, sm, rcv, up, atPeer, tm, uwq,
                        expired, closed>>
        BY <2>3 DEF RecvTake
      <4> QED BY <3>1, <4>2, <4>3, <4>4, <4>5
    <3>4. CASE ~Accepts(Head(urq)) BY <2>3, <3>1, <3>4, ZenonT(30) DEF RecvTake
    <3> QED BY <3>3, <3>4
  <2>4. CASE RecvAbort(t) BY <2>4 DEF RecvAbort
  <2> QED BY <1>3, <2>1, <2>2, <2>3, <2>4 DEF RecvStep
<1>4. CASE WakerFire \/ SetRetry \/ Close
  <2>1. CASE WakerFire \/ Close BY <2>1, ZenonT(30) DEF WakerFire, Close
  <2>2. CASE SetRetry
    <3>1. retry' \in BOOLEAN BY <2>2, BoundAssumption DEF SetRetry
    <3> QED BY <2>2, <3>1 DEF SetRetry
  <2> QED BY <1>4, <2>1, <2>2
<1>5. CASE ResStep
  <2>1. CASE ResTick \/ ResExit BY <2>1 DEF ResTick, ResExit
  <2>2. CASE ResLoad
    <3>1. reqmsg # 0 => reqmsg \in Msg BY DEF Msg
    <3> QED BY <2>2, <3>1 DEF ResLoad
  <2>3. CASE ResRearm BY <2>3 DEF ResRearm, Rearm
  <2> QED BY <1>5, <2>1, <2>2, <2>3 DEF ResStep
<1>6. ASSUME NEW p \in Pipe, AddEndpoint(p) \/ PipeDown(p) \/ ResPush(p) PROVE TypeInv'
  <2>1. CASE AddEndpoint(p) BY <2>1 DEF AddEndpoint
  <2>2. CASE PipeDown(p) BY <2>2 DEF PipeDown
  <2>3. CASE ResPush(p) BY <2>3 DEF ResPush
  <2> QED BY <1>6, <2>1, <2>2, <2>3
<1>7. ASSUME NEW p \in Pipe, SndStep(p) \/ SndTake(p) \/ RcvPush(p) PROVE TypeInv'
  <2>1. CASE SndExit(p) BY <2>1 DEF SndExit
  <2>2. CASE SndOk(p)
    <3>1. sm[p] \in Msg BY <2>2 DEF SndOk
    <3>2. [atPeer EXCEPT ![p] = @ \union {sm[p]}] \in [Pipe -> SUBSET Msg] BY <3>1
    <3>3. atPeer' \in [Pipe -> SUBSET Msg] BY <2>2, <3>2 DEF SndOk
    <3> QED BY <2>2, <3>3, ZenonT(30) DEF SndOk
  <2>3. CASE SndFail(p) BY <2>3 DEF SndFail
  <2>4. CASE SndTake(p)
    <3>1. Head(uwq) \in Msg /\ uwq' \in Seq(Msg) BY <2>4 DEF SndTake
    <3> QED BY <2>4, <3>1, ZenonT(30) DEF SndTake
  <2>5. CASE RcvPush(p)
    <3>1. rcv[p] \in Msg BY <2>5 DEF RcvPush, RcvReady, Msg
    <3>2. Append(urq, rcv[p]) \in Seq(Msg) BY <3>1
    <3>3. urq' \in Seq(Msg) BY <2>5, <3>2 DEF RcvPush
    <3> QED BY <2>5, <3>3 DEF RcvPush
  <2> QED BY <1>7, <2>1, <2>2, <2>3, <2>4, <2>5 DEF SndStep
<1>8. ASSUME NEW p \in Pipe, NEW q \in Pipe, SndPush(p, q) PROVE TypeInv'
  BY <1>8, ZenonT(30) DEF SndPush, Idle
<1>9. ASSUME NEW p \in Pipe, NEW m \in Msg, RcvMsg(p, m) \/ PeerLoses(p, m) PROVE TypeInv'
  <2>1. atPeer' \in [Pipe -> SUBSET Msg] BY <1>9, ZenonT(30) DEF RcvMsg, PeerLoses
  <2>2. rcv' \in [Pipe -> 0 .. MaxReq] BY <1>9, ZenonT(30) DEF RcvMsg, PeerLoses
  <2>3. UNCHANGED <<hookVars, resVars, sndVars, up, thrVars, uwq, urq, expired, closed>>
    BY <1>9 DEF RcvMsg, PeerLoses
  <2> QED BY <2>1, <2>2, <2>3, ZenonT(30)
<1>10. ASSUME NEW m \in Msg, Expire(m) PROVE TypeInv' BY <1>10 DEF Expire
<1> QED BY NextCases, <1>1, <1>2, <1>3, <1>4, <1>5, <1>6, <1>7, <1>8, <1>9, <1>10

(* In every reachable state every variable has its type.                   *)
THEOREM TypeCorrect == SafeSpec => []TypeOK
<1>1. TypeInv => TypeOK BY DEF TypeInv
<1> QED BY <1>1, TypeInit, TypeStep, PTL DEF SafeSpec

-----------------------------------------------------------------------------
(* The state of the outstanding request; only SendHook (in SendCall) and   *)
(* RecvHook (in RecvTake) change it.                                       *)
request == <<nreq, reqmsg, replies, recverr>>

(* Seen from there, every other step is a stutter.                         *)
LEMMA RequestSteps ==
  ASSUME [Next]_vars
  PROVE  UNCHANGED request \/ \E t \in Thread : SendCall(t) \/ RecvTake(t)
<1> USE DEF request, hookVars
<1>1. CASE UNCHANGED vars BY <1>1 DEF vars
<1>2. ASSUME NEW t \in Thread, SendEnqueue(t) \/ SendAbort(t) \/ RecvStep(t)
      PROVE  UNCHANGED request \/ RecvTake(t)
  BY <1>2 DEF SendEnqueue, SendAbort, RecvStep, RecvCall, RecvTop, RecvAbort
<1>3. CASE WakerFire \/ ResStep \/ SetRetry \/ Close
  BY <1>3 DEF WakerFire, ResStep, ResTick, ResExit, ResLoad, ResRearm, SetRetry, Close
<1>4. ASSUME NEW p \in Pipe, AddEndpoint(p) \/ PipeDown(p) \/ ResPush(p)
      PROVE  UNCHANGED request
  BY <1>4 DEF AddEndpoint, PipeDown, ResPush
<1>5. ASSUME NEW p \in Pipe, SndStep(p) \/ SndTake(p) \/ RcvPush(p) PROVE UNCHANGED request
  BY <1>5 DEF SndStep, SndExit, SndOk, SndFail, SndTake, RcvPush
<1>6. ASSUME NEW p \in Pipe, NEW q \in Pipe, SndPush(p, q) PROVE UNCHANGED request
  BY <1>6 DEF SndPush
<1>7. ASSUME NEW p \in Pipe, NEW m \in Msg, RcvMsg(p, m) \/ PeerLoses(p, m)
      PROVE  UNCHANGED request
  BY <1>7 DEF RcvMsg, PeerLoses
<1>8. ASSUME NEW m \in Msg, Expire(m) PROVE UNCHANGED request BY <1>8 DEF Expire
<1> QED BY NextCases, <1>1, <1>2, <1>3, <1>4, <1>5, <1>6, <1>7, <1>8

(* Ids of requests are distinct while there are fewer requests than ids.   *)
LEMMA IdInjective ==
  ASSUME NEW m \in Msg, NEW n \in Msg, Id(m) = Id(n)
  PROVE  m = n
<1>1. \A k \in Msg : k % IdSpace = k BY BoundAssumption DEF Msg
<1> QED BY <1>1 DEF Id

(* The outstanding request is the latest one and has had no reply yet; no  *)
(* request has had two, and none to come has had any.                      *)
ReplyInv ==
  /\ reqmsg \in {0, nreq}
  /\ RecvErrMatches
  /\ \A m \in Msg : replies[m] <= 1
  /\ \A m \in Msg : m > nreq => replies[m] = 0
  /\ reqmsg # 0 => replies[reqmsg] = 0

(* RecvHook accepts a reply only to the latest request.                    *)
LEMMA AcceptsLatest ==
  ASSUME TypeOK, ReplyInv, NEW m \in Msg, Accepts(m)
  PROVE  m = nreq /\ m = reqmsg
<1>1. nreq \in Msg /\ reqmsg = nreq BY DEF TypeOK, ReplyInv, Accepts, Msg
<1> QED BY <1>1, IdInjective DEF Accepts

(* Every step keeps ReplyInv.                                              *)
LEMMA ReplyStep == TypeOK /\ ReplyInv /\ [Next]_vars => ReplyInv'
<1> SUFFICES ASSUME TypeOK, ReplyInv, [Next]_vars PROVE ReplyInv' OBVIOUS
<1>1. CASE UNCHANGED request BY <1>1 DEF request, ReplyInv, RecvErrMatches
<1>2. ASSUME NEW t \in Thread, SendCall(t) PROVE ReplyInv'
  <2>1. /\ nreq' = nreq + 1 /\ reqmsg' = nreq + 1 /\ recverr' = FALSE /\ replies' = replies
        /\ nreq + 1 \in Msg /\ nreq \in Nat
    BY <1>2, BoundAssumption DEF SendCall, TypeOK, Msg
  <2> QED BY <2>1 DEF ReplyInv, RecvErrMatches, Msg, TypeOK
<1>3. ASSUME NEW t \in Thread, RecvTake(t) PROVE ReplyInv'
  <2>1. Head(urq) \in Msg BY <1>3 DEF RecvTake, TypeOK
  <2>2. CASE Accepts(Head(urq))
    <3>1. Head(urq) = nreq /\ Head(urq) = reqmsg BY <2>1, <2>2, AcceptsLatest
    <3>2. /\ nreq' = nreq /\ reqmsg' = 0 /\ recverr' = TRUE
          /\ replies' = [replies EXCEPT ![nreq] = @ + 1]
      BY <1>3, <2>2, <3>1 DEF RecvTake, ErrAfterReply
    <3>3. nreq \in Msg /\ replies[nreq] = 0 BY <2>1, <3>1 DEF ReplyInv, Msg
    <3> QED BY <3>2, <3>3 DEF ReplyInv, RecvErrMatches, TypeOK, Msg
  <2>3. CASE ~Accepts(Head(urq))
    <3>1. UNCHANGED request BY <1>3, <2>3 DEF RecvTake, request
    <3> QED BY <3>1 DEF request, ReplyInv, RecvErrMatches
  <2> QED BY <2>2, <2>3
<1> QED BY RequestSteps, <1>1, <1>2, <1>3

(* ReplyInv is an invariant.                                               *)
THEOREM ReplyInvariant == SafeSpec => []ReplyInv
<1>1. Init => ReplyInv BY BoundAssumption DEF Init, ReplyInv, RecvErrMatches, Msg
<1> QED BY <1>1, TypeCorrect, ReplyStep, PTL DEF SafeSpec

(* At most one reply to a request is handed to the application.            *)
THEOREM RepliesOnce == SafeSpec => []ReplyOnce
<1>1. ReplyInv => ReplyOnce BY DEF ReplyInv, ReplyOnce
<1> QED BY <1>1, ReplyInvariant, PTL

(* RecvMsg reports a protocol state error exactly while nothing is asked.  *)
THEOREM ErrorMatches == SafeSpec => []RecvErrMatches
<1>1. ReplyInv => RecvErrMatches BY DEF ReplyInv
<1> QED BY <1>1, ReplyInvariant, PTL

(* A reply handed to the application answers its latest request.           *)
THEOREM RepliesToLatest == SafeSpec => ReplyToLatest
<1>1. ASSUME TypeOK, ReplyInv, [Next]_vars
      PROVE  [\A m \in Msg : replies'[m] # replies[m] => m = nreq]_vars
  <2>1. CASE UNCHANGED request BY <2>1 DEF request
  <2>2. ASSUME NEW t \in Thread, SendCall(t) PROVE UNCHANGED replies BY <2>2 DEF SendCall
  <2>3. ASSUME NEW t \in Thread, RecvTake(t), NEW m \in Msg, replies'[m] # replies[m]
        PROVE  m = nreq
    <3>1. Head(urq) \in Msg BY <1>1, <2>3 DEF RecvTake, TypeOK
    <3>2. Accepts(Head(urq)) /\ m = Head(urq) BY <1>1, <2>3, <3>1 DEF RecvTake, TypeOK
    <3> QED BY <1>1, <3>1, <3>2, AcceptsLatest
  <2> QED BY <1>1, RequestSteps, <2>1, <2>2, <2>3
<1> QED BY <1>1, TypeCorrect, ReplyInvariant, PTL DEF SafeSpec, ReplyToLatest

(* REQ implements the request/reply service: SendHook is Ask, an accepting *)
(* RecvHook is Answer, and every other step stutters.                      *)
THEOREM ReqImplements == SafeSpec => Implements
<1>1. Init => RR!AbsInit BY DEF Init, RR!AbsInit
<1>2. ASSUME TypeOK, ReplyInv, [Next]_vars PROVE [RR!AbsNext]_(RR!abs)
  <2>1. CASE UNCHANGED request BY <2>1 DEF request, RR!abs
  <2>2. ASSUME NEW t \in Thread, SendCall(t) PROVE RR!Ask
    BY <1>2, <2>2, BoundAssumption DEF SendCall, RR!Ask, TypeOK, Msg
  <2>3. ASSUME NEW t \in Thread, RecvTake(t) PROVE RR!Answer \/ UNCHANGED RR!abs
    <3>1. Head(urq) \in Msg BY <1>2, <2>3 DEF RecvTake, TypeOK
    <3>2. CASE Accepts(Head(urq))
      <4>1. Head(urq) = nreq /\ reqmsg = nreq BY <1>2, <3>1, <3>2, AcceptsLatest
      <4>2. replies[nreq] = 0 /\ nreq # 0 BY <1>2, <3>1, <4>1 DEF ReplyInv, Msg
      <4>3. replies' = [replies EXCEPT ![nreq] = 1] /\ reqmsg' = 0 /\ nreq' = nreq
        BY <2>3, <3>2, <4>1, <4>2 DEF RecvTake
      <4> QED BY <4>1, <4>2, <4>3 DEF RR!Answer
    <3>3. CASE ~Accepts(Head(urq)) BY <2>3, <3>3 DEF RecvTake, RR!abs
    <3> QED BY <3>2, <3>3
  <2> QED BY <1>2, RequestSteps, <2>1, <2>2, <2>3 DEF RR!AbsNext
<1> QED BY <1>1, <1>2, TypeCorrect, ReplyInvariant, PTL
        DEF SafeSpec, Implements, RR!AbsSpec

-----------------------------------------------------------------------------
(* The retry chain needs to know why ResRearm arms the timer again.        *)
RetryInv == RetryPending /\ (rstable => retry)

(* Every step keeps the retry chain.                                       *)
LEMMA RetryStep == TypeOK /\ RetryInv /\ [Next]_vars => RetryInv'
<1> SUFFICES ASSUME TypeOK, RetryInv, [Next]_vars PROVE RetryInv' OBVIOUS
<1> USE DEF RetryInv, RetryPending, TypeOK, hookVars, resVars
<1>1. CASE UNCHANGED vars BY <1>1 DEF vars
<1>2. ASSUME NEW t \in Thread, SendCall(t) \/ SendEnqueue(t) \/ SendAbort(t) \/ RecvStep(t)
      PROVE  RetryInv'
  <2>1. CASE SendCall(t) BY <2>1 DEF SendCall, Arm
  <2>2. CASE RecvTake(t) BY <2>2 DEF RecvTake
  <2>3. CASE UNCHANGED <<reqmsg, rstable, retry, waker, tick, rpc, closed>> BY <2>3
  <2> QED BY <1>2, <2>1, <2>2, <2>3
          DEF SendEnqueue, SendAbort, RecvStep, RecvCall, RecvTop, RecvAbort
<1>3. CASE WakerFire \/ SetRetry \/ Close BY <1>3 DEF WakerFire, SetRetry, Close
<1>4. CASE ResTick \/ ResExit \/ ResLoad BY <1>4 DEF ResTick, ResExit, ResLoad
<1>5. CASE ResRearm BY <1>5 DEF ResRearm, Rearm
<1>6. ASSUME NEW p \in Pipe, AddEndpoint(p) \/ PipeDown(p) \/ ResPush(p) PROVE RetryInv'
  BY <1>6 DEF AddEndpoint, PipeDown, ResPush
<1>7. ASSUME NEW p \in Pipe, SndStep(p) \/ SndTake(p) \/ RcvPush(p) PROVE RetryInv'
  BY <1>7 DEF SndStep, SndExit, SndOk, SndFail, SndTake, RcvPush
<1>8. ASSUME NEW p \in Pipe, NEW q \in Pipe, SndPush(p, q) PROVE RetryInv'
  BY <1>8 DEF SndPush
<1>9. ASSUME NEW p \in Pipe, NEW m \in Msg, RcvMsg(p, m) \/ PeerLoses(p, m)
      PROVE  RetryInv'
  BY <1>9 DEF RcvMsg, PeerLoses
<1>10. ASSUME NEW m \in Msg, Expire(m) PROVE RetryInv' BY <1>10 DEF Expire
<1> QED BY NextCases, <1>1, <1>2, <1>3, <1>4, <1>5, <1>6, <1>7, <1>8, <1>9, <1>10 DEF ResStep

(* A request waiting for its reply is never forgotten by the retry logic.  *)
THEOREM RetryNeverLost == SafeSpec => []RetryPending
<1>1. Init => RetryInv BY DEF Init, RetryInv, RetryPending
<1>2. RetryInv => RetryPending BY DEF RetryInv
<1> QED BY <1>1, <1>2, TypeCorrect, RetryStep, PTL DEF SafeSpec

=============================================================================
