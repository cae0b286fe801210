---------------------------- MODULE ReplierProofs ---------------------------
(***************************************************************************)
(* What is proved about REP and RESPONDENT (Replier), for any number of    *)
(* threads, connections and requests: the type invariant, that REP never   *)
(* sends on a closed queue, and that no request is answered twice.         *)
(***************************************************************************)
EXTENDS Replier, TLAPS

-----------------------------------------------------------------------------
(* A thread between the read and the save of a request's backtrace, a      *)
(* sender between the lookup and the push, hold a request.                 *)
HoldInv ==
  /\ \A t \in Thread : tpc[t] \in {"hook1", "hook2"} => tm[t] # 0
  /\ spc = "push" => sm # 0 /\ from[sm] \in Pipe

(* The queue of an endpoint in the table is open; REP's endpoints leave    *)
(* the table and close in one step, and its sender never is between two.   *)
OpenInv ==
  /\ \A p \in Pipe : /\ p \in eps => ~qclosed[p] /\ up[p] \in {"up", "down"}
                     /\ up[p] = "none" => ~qclosed[p]
  /\ kind = "rep" => ~crashed /\ spc # "push" /\ \A p \in Pipe : up[p] # "deleted"

-----------------------------------------------------------------------------
(* The stages that a request goes through, from its peer back to its peer; *)
(* 0 is no request.                                                        *)

Elems(s) == {s[i] : i \in 1 .. Len(s)} \ {0}

(* Before the thread has put its request into the backtrace.               *)
Unsaved(t) == tpc[t] = "hook1" \/ (kind = "rep" /\ tpc[t] = "hook2")

Wired    == {wire[p].id : p \in Pipe} \ {0}
Read     == {rcv[p] : p \in Pipe} \ {0}
Ready    == Elems(urq)
Hooked   == {tm[t] : t \in {u \in Thread : Unsaved(u)}} \ {0}
Saved    == {backtrace} \ {0}
Replying == {tm[t] : t \in {u \in Thread : tpc[u] = "enq"}} \ {0}
Outgoing == Elems(uwq)
Picked   == {sm} \ {0}
Queued   == UNION {Elems(q[p]) : p \in Pipe}
Done     == {m \in Msg : answered[m] # 0}

Stage == <<Wired, Read, Ready, Hooked, Saved, Replying, Outgoing, Picked, Queued, Done>>

(* In the stages are requests that peers have sent; none is in two ...      *)
Placed(S, n) ==
  /\ \A i \in 1 .. 10 : S[i] \subseteq 1 .. n
  /\ \A i, j \in 1 .. 10 : i # j => S[i] \cap S[j] = {}

(* ... and none twice in a queue.                                          *)
Solo(s) == \A i, j \in 1 .. Len(s) : s[i] = s[j] /\ s[i] # 0 => i = j

(* A request is known to be of the pipe whose receiver or queue has it.    *)
FromInv ==
  \A p \in Pipe : /\ wire[p].id # 0 => from[wire[p].id] = p
                  /\ rcv[p] # 0 => from[rcv[p]] = p
                  /\ \A m \in Elems(q[p]) : from[m] = p

(* Nor do two threads have the same one.                                    *)
ThreadsSolo ==
  /\ \A t, u \in Thread : Unsaved(t) /\ Unsaved(u) /\ tm[t] = tm[u] => t = u
  /\ \A t, u \in Thread : tpc[t] = "enq" /\ tpc[u] = "enq" /\ tm[t] = tm[u] /\ tm[t] # 0 => t = u

SoloInv == Solo(urq) /\ Solo(uwq) /\ (\A p \in Pipe : Solo(q[p])) /\ ThreadsSolo

OnceInv ==
  /\ Placed(Stage, nreq)
  /\ FromInv
  /\ SoloInv
  /\ AnsweredOnce

-----------------------------------------------------------------------------
(* Lemmas about queues.                                                    *)

LEMMA QueueType ==
  ASSUME NEW S, NEW s \in Seq(S)
  PROVE  /\ s # <<>> => Head(s) \in S /\ Tail(s) \in Seq(S)
         /\ \A m \in S : Append(s, m) \in Seq(S)
  OBVIOUS

(* Taking the head of a queue takes it out of the queue's elements; adding *)
(* at the end adds to them.                                                *)
LEMMA TakesOut ==
  ASSUME NEW s \in Seq(Nat), s # <<>>, Solo(s)
  PROVE  /\ Solo(Tail(s)) /\ Elems(Tail(s)) \subseteq Elems(s) \ {Head(s)}
         /\ Head(s) # 0 => Head(s) \in Elems(s)
<1>1. /\ Len(s) \in Nat /\ Len(s) >= 1 /\ Head(s) = s[1] /\ Len(Tail(s)) = Len(s) - 1
      /\ \A i \in 1 .. Len(s) - 1 : Tail(s)[i] = s[i + 1] /\ i + 1 \in 1 .. Len(s)
  OBVIOUS
<1>2. Solo(Tail(s)) BY <1>1 DEF Solo
<1>3. \A i \in 1 .. Len(s) - 1 : s[i + 1] # 0 => s[i + 1] # s[1] BY <1>1 DEF Solo
<1>4. Elems(Tail(s)) \subseteq Elems(s) \ {Head(s)} BY <1>1, <1>3 DEF Elems
<1> QED BY <1>1, <1>2, <1>4 DEF Elems

LEMMA PutsIn ==
  ASSUME NEW s \in Seq(Nat), NEW m \in Nat
  PROVE  /\ Elems(Append(s, m)) \subseteq Elems(s) \union ({m} \ {0})
         /\ Solo(s) /\ m \notin Elems(s) => Solo(Append(s, m))
<1>1. /\ Len(s) \in Nat /\ Len(Append(s, m)) = Len(s) + 1 /\ Append(s, m)[Len(s) + 1] = m
      /\ \A i \in 1 .. Len(s) : Append(s, m)[i] = s[i]
      /\ \A i \in 1 .. Len(s) + 1 : i \in 1 .. Len(s) \/ i = Len(s) + 1
  OBVIOUS
<1>2. Elems(Append(s, m)) \subseteq Elems(s) \union ({m} \ {0}) BY <1>1 DEF Elems
<1>3. ASSUME Solo(s), m \notin Elems(s) PROVE Solo(Append(s, m))
  <2>1. \A i \in 1 .. Len(s) : s[i] # 0 => s[i] # m BY <1>3 DEF Elems
  <2> QED BY <1>1, <1>3, <2>1 DEF Solo
<1> QED BY <1>2, <1>3

-----------------------------------------------------------------------------
(* Types.                                                                  *)

LEMMA TypeInit == Init => TypeOK /\ HoldInv /\ OpenInv
<1> SUFFICES ASSUME Init PROVE TypeOK /\ HoldInv /\ OpenInv OBVIOUS
<1>1. 0 \in 0 .. MaxReq /\ NoWire \in [id : 0 .. MaxReq, words : Words]
  BY ReplierAssumption DEF Words, NoWire
<1>2. \A S : <<>> \in Seq(S) OBVIOUS
<1>3. q \in [Pipe -> Seq(Msg)] /\ uwq \in Seq(0 .. MaxReq) /\ urq \in Seq(Msg)
  BY <1>2 DEF Init
<1>4. /\ senderr \in BOOLEAN /\ crashed \in BOOLEAN /\ closed \in BOOLEAN
      /\ qclosed \in [Pipe -> BOOLEAN]
  BY DEF Init
<1>5. /\ from \in [Msg -> Pipe \union {NoPipe}] /\ answered \in [Msg -> Nat]
      /\ wire \in [Pipe -> [id : 0 .. MaxReq, words : Words]] /\ rcv \in [Pipe -> 0 .. MaxReq]
  BY <1>1 DEF Init
<1>6. TypeOK BY <1>1, <1>3, <1>4, <1>5 DEF Init, TypeOK
<1>7. HoldInv /\ OpenInv BY DEF Init, HoldInv, OpenInv
<1> QED BY <1>6, <1>7

LEMMA TypeStep == TypeOK /\ HoldInv /\ [Next]_vars => TypeOK'
<1> SUFFICES ASSUME TypeOK, HoldInv, [Next]_vars PROVE TypeOK' OBVIOUS
<1> USE ReplierAssumption DEF TypeOK, opts, hookVars, epVars, rcvVars, sndVars, thrVars, outVars
<1>1. CASE UNCHANGED vars BY <1>1 DEF vars
<1>2. ASSUME NEW p \in Pipe, AddEndpoint(p) PROVE TypeOK' BY <1>2 DEF AddEndpoint
<1>n. NoWire \in [id : 0 .. MaxReq, words : Words] BY DEF NoWire, Words
<1>3. ASSUME NEW p \in Pipe, PipeDown(p) PROVE TypeOK' BY <1>3, <1>n DEF PipeDown
<1>4. ASSUME NEW p \in Pipe, RepRemove(p) PROVE TypeOK' BY <1>4 DEF RepRemove
<1>5. ASSUME NEW p \in Pipe, RespondentDelete(p) PROVE TypeOK' BY <1>5 DEF RespondentDelete
<1>6. ASSUME NEW p \in Pipe, RespondentRemove(p) PROVE TypeOK' BY <1>6 DEF RespondentRemove
<1>7. CASE Close BY <1>7 DEF Close
<1>8. CASE Shutdown BY <1>8 DEF Shutdown
<1>9. ASSUME NEW p \in Pipe, NEW w \in Words, PeerRequest(p, w) PROVE TypeOK'
  <2>1. nreq + 1 \in Msg /\ nreq + 1 \in 0 .. MaxReq BY <1>9 DEF PeerRequest, Msg
  <2>2. [id |-> nreq + 1, words |-> w] \in [id : 0 .. MaxReq, words : Words] BY <2>1
  <2> QED BY <1>9, <2>1, <2>2 DEF PeerRequest
<1>10. ASSUME NEW n \in TTL, SetTTL(n) PROVE TypeOK' BY <1>10 DEF SetTTL
<1>11. ASSUME NEW p \in Pipe, RepRead(p) PROVE TypeOK'
  BY <1>11, <1>n, SMTT(30) DEF RepRead
<1>12. ASSUME NEW p \in Pipe, RespondentRead(p) PROVE TypeOK'
  BY <1>12, <1>n, ZenonT(30) DEF RespondentRead, SkipsBad
<1>13. ASSUME NEW p \in Pipe, RcvPush(p) PROVE TypeOK'
  <2>1. rcv[p] \in Msg BY <1>13 DEF RcvPush, RcvReady, Msg
  <2>2. Append(urq, rcv[p]) \in Seq(Msg) BY <2>1, QueueType
  <2>3. 0 \in 0 .. MaxReq OBVIOUS
  <2> QED BY <1>13, <2>2, <2>3 DEF RcvPush
<1>m. Msg \subseteq 0 .. MaxReq BY DEF Msg
<1>14. ASSUME NEW t \in Thread, RecvTake(t) PROVE TypeOK'
  <2>1. Head(urq) \in 0 .. MaxReq /\ Tail(urq) \in Seq(Msg) BY <1>14, <1>m, QueueType DEF RecvTake
  <2> QED BY <1>14, <2>1 DEF RecvTake, At, With
<1>15. ASSUME NEW t \in Thread, RepRecvHook(t) PROVE TypeOK'
  <2>1. CASE tpc[t] = "hook1"
    <3>1. /\ tpc' = [tpc EXCEPT ![t] = "hook2"] /\ senderr' = FALSE
          /\ UNCHANGED <<backtrace, tm, given, answered, crashed, opts, epVars, rcvVars, sndVars, uwq, urq, closed>>
      BY <1>15, <2>1 DEF RepRecvHook, At, ClearErr, Save
    <3> QED BY <3>1
  <2>2. CASE tpc[t] = "hook2"
    <3>1. tm[t] \in Msg /\ 0 \in 0 .. MaxReq BY <2>2 DEF HoldInv, Msg
    <3>2. /\ tpc' = [tpc EXCEPT ![t] = "idle"] /\ backtrace' = tm[t] /\ given' = given \union {tm[t]}
          /\ tm' = [tm EXCEPT ![t] = 0]
          /\ UNCHANGED <<senderr, answered, crashed, opts, epVars, rcvVars, sndVars, uwq, urq, closed>>
      BY <1>15, <2>2 DEF RepRecvHook, At, With, ClearErr, Save, Received
    <3> QED BY <3>1, <3>2
  <2> QED BY <1>15, <2>1, <2>2 DEF RepRecvHook
<1>16. ASSUME NEW t \in Thread, RespondentRecvHook(t) PROVE TypeOK'
  <2>1. CASE tpc[t] = "hook1"
    <3>1. /\ tpc' = [tpc EXCEPT ![t] = "hook2"] /\ backtrace' = tm[t]
          /\ UNCHANGED <<senderr, tm, given, answered, crashed, opts, epVars, rcvVars, sndVars, uwq, urq, closed>>
      BY <1>16, <2>1 DEF RespondentRecvHook, At, ClearErr, Save
    <3> QED BY <3>1
  <2>2. CASE tpc[t] = "hook2"
    <3>1. tm[t] \in Msg /\ 0 \in 0 .. MaxReq BY <2>2 DEF HoldInv, Msg
    <3>2. /\ tpc' = [tpc EXCEPT ![t] = "idle"] /\ senderr' = FALSE /\ given' = given \union {tm[t]}
          /\ tm' = [tm EXCEPT ![t] = 0]
          /\ UNCHANGED <<backtrace, answered, crashed, opts, epVars, rcvVars, sndVars, uwq, urq, closed>>
      BY <1>16, <2>2 DEF RespondentRecvHook, At, With, ClearErr, Save, Received
    <3> QED BY <3>1, <3>2
  <2> QED BY <1>16, <2>1, <2>2 DEF RespondentRecvHook
<1>17. ASSUME NEW t \in Thread, SendCall(t) PROVE TypeOK' BY <1>17 DEF SendCall, At
<1>18. ASSUME NEW t \in Thread, SendHook1(t) PROVE TypeOK' BY <1>18 DEF SendHook1, At
<1>19. ASSUME NEW t \in Thread, RepSendHook(t) PROVE TypeOK'
  <2>2. /\ tpc' \in [Thread -> {"idle", "hook1", "hook2", "send1", "send2", "enq"}]
        /\ tm' \in [Thread -> 0 .. MaxReq]
    BY <1>19 DEF RepSendHook, TakeTrace, At, With
  <2> QED BY <1>19, <2>2 DEF RepSendHook, TakeTrace, ClearTrace
<1>20. ASSUME NEW t \in Thread, RespondentSendHook(t) PROVE TypeOK'
  BY <1>20 DEF RespondentSendHook, TakeTrace, At, With, ClearTrace
<1>21. ASSUME NEW t \in Thread, SendEnd(t) PROVE TypeOK'
  <2>1. Append(uwq, tm[t]) \in Seq(0 .. MaxReq) BY QueueType
  <2>2. /\ tpc' \in [Thread -> {"idle", "hook1", "hook2", "send1", "send2", "enq"}]
        /\ tm' \in [Thread -> 0 .. MaxReq]
    BY <1>21 DEF SendEnd, At, With
  <2> QED BY <1>21, <2>1, <2>2 DEF SendEnd
<1>e. ASSUME NEW p \in Pipe, NEW m \in Msg, Enqueue(p, m)
      PROVE  crashed' \in BOOLEAN /\ q' \in [Pipe -> Seq(Msg)]
  <2>1. Append(q[p], m) \in Seq(Msg) BY QueueType
  <2> QED BY <1>e, <2>1 DEF Enqueue
<1>22. CASE RepSend
  <2>1. Head(uwq) \in 0 .. MaxReq /\ Tail(uwq) \in Seq(0 .. MaxReq) BY <1>22, QueueType DEF RepSend
  <2>2. RepFinds(Head(uwq)) => Head(uwq) \in Msg /\ from[Head(uwq)] \in Pipe
    BY <2>1 DEF RepFinds, Found, Msg
  <2>3. crashed' \in BOOLEAN /\ q' \in [Pipe -> Seq(Msg)] BY <1>22, <1>e, <2>2 DEF RepSend, Dropped
  <2> QED BY <1>22, <2>1, <2>3 DEF RepSend
<1>23. CASE RespondentLookup
  <2>1. Head(uwq) \in 0 .. MaxReq /\ Tail(uwq) \in Seq(0 .. MaxReq)
    BY <1>23, QueueType DEF RespondentLookup
  <2> QED BY <1>23, <2>1 DEF RespondentLookup
<1>24. CASE RespondentPush
  <2>1. sm \in Msg /\ from[sm] \in Pipe BY <1>24 DEF RespondentPush, HoldInv, Msg
  <2>2. crashed' \in BOOLEAN /\ q' \in [Pipe -> Seq(Msg)] BY <1>24, <1>e, <2>1 DEF RespondentPush
  <2> QED BY <1>24, <2>2 DEF RespondentPush
<1>25. CASE SndExit BY <1>25 DEF SndExit
<1>26. ASSUME NEW p \in Pipe, PeerSend(p) PROVE TypeOK'
  <2>1. Head(q[p]) \in Msg /\ Tail(q[p]) \in Seq(Msg) BY <1>26, QueueType DEF PeerSend
  <2>2. answered[Head(q[p])] + 1 \in Nat BY <2>1
  <2>3. answered' \in [Msg -> Nat] /\ q' \in [Pipe -> Seq(Msg)] BY <1>26, <2>1, <2>2 DEF PeerSend
  <2> QED BY <1>26, <2>3 DEF PeerSend
<1> HIDE DEF TypeOK
<1> QED
  BY <1>1, <1>2, <1>3, <1>4, <1>5, <1>6, <1>7, <1>8, <1>9, <1>10, <1>11, <1>12, <1>13, <1>14,
     <1>15, <1>16, <1>17, <1>18, <1>19, <1>20, <1>21, <1>22, <1>23, <1>24, <1>25, <1>26
  DEF Next, RepAdd, RespondentAdd, RepPeerSend, RespondentPeerSend, RepSetTTL, RespondentSetTTL,
      RcvStep, SndStep, ThrStep

LEMMA HoldStep == TypeOK /\ HoldInv /\ [Next]_vars => HoldInv'
<1> SUFFICES ASSUME TypeOK, HoldInv, [Next]_vars PROVE HoldInv' OBVIOUS
<1> USE ReplierAssumption DEF HoldInv, opts, hookVars, epVars, rcvVars, sndVars, thrVars, outVars
<1>1. tpc \in [Thread -> {"idle", "hook1", "hook2", "send1", "send2", "enq"}]
      /\ tm \in [Thread -> 0 .. MaxReq]
  BY DEF TypeOK
<1>2. CASE UNCHANGED <<tpc, tm, spc, sm, from>> BY <1>2
<1>3. ASSUME NEW p \in Pipe, NEW w \in Words, PeerRequest(p, w) PROVE HoldInv'
  <2>1. UNCHANGED <<tpc, tm, spc, sm>> BY <1>3 DEF PeerRequest
  <2>2. from' = [from EXCEPT ![nreq + 1] = p] /\ from \in [Msg -> Pipe \union {NoPipe}]
    BY <1>3 DEF PeerRequest, TypeOK
  <2>3. sm # 0 => sm \in Msg BY DEF TypeOK, Msg
  <2> QED BY <2>1, <2>2, <2>3
<1>4. ASSUME NEW t \in Thread, RecvTake(t) PROVE HoldInv'
  <2>1. Head(urq) # 0 BY <1>4, QueueType DEF RecvTake, TypeOK, Msg
  <2> QED BY <1>1, <1>4, <2>1 DEF RecvTake, At, With
<1>5. ASSUME NEW t \in Thread, RepRecvHook(t) \/ RespondentRecvHook(t) PROVE HoldInv'
  BY <1>1, <1>5 DEF RepRecvHook, RespondentRecvHook, Received, At, With
<1>6. ASSUME NEW t \in Thread, SendCall(t) \/ SendHook1(t) PROVE HoldInv'
  BY <1>1, <1>6 DEF SendCall, SendHook1, At
<1>7. ASSUME NEW t \in Thread, RepSendHook(t) \/ RespondentSendHook(t) PROVE HoldInv'
  BY <1>1, <1>7 DEF RepSendHook, RespondentSendHook, TakeTrace, At, With
<1>8. ASSUME NEW t \in Thread, SendEnd(t) PROVE HoldInv'
  BY <1>1, <1>8 DEF SendEnd, At, With
<1>9. CASE RespondentLookup
  <2>1. UNCHANGED <<tpc, tm, from>> BY <1>9 DEF RespondentLookup
  <2>2. (spc' = "push" /\ sm' = Head(uwq) /\ Found(Head(uwq))) \/ UNCHANGED <<spc, sm>>
    BY <1>9 DEF RespondentLookup
  <2>3. eps \subseteq Pipe BY DEF TypeOK
  <2> QED BY <2>1, <2>2, <2>3 DEF Found
<1>10. CASE RespondentPush \/ SndExit BY <1>10 DEF RespondentPush, SndExit
<1> QED
  BY <1>2, <1>3, <1>4, <1>5, <1>6, <1>7, <1>8, <1>9, <1>10
  DEF vars, Next, RepAdd, RespondentAdd, RepPeerSend, RespondentPeerSend, RepSetTTL,
      RespondentSetTTL, RcvStep, SndStep, ThrStep, AddEndpoint, PipeDown, RepRemove,
      RespondentDelete, RespondentRemove, Close, Shutdown, SetTTL, RepRead, RespondentRead,
      RcvPush, RepSend, PeerSend

LEMMA OpenStep == TypeOK /\ OpenInv /\ [Next]_vars => OpenInv'
<1> SUFFICES ASSUME TypeOK, OpenInv, [Next]_vars PROVE OpenInv' OBVIOUS
<1> USE DEF opts, hookVars, epVars, rcvVars, sndVars, thrVars, outVars
<1>t. /\ up \in [Pipe -> {"none", "up", "down", "deleted"}] /\ eps \subseteq Pipe
      /\ qclosed \in [Pipe -> BOOLEAN]
  BY DEF TypeOK
<1>1. CASE UNCHANGED <<kind, up, eps, qclosed, spc, crashed>> BY <1>1 DEF OpenInv
<1>2. ASSUME NEW p \in Pipe, AddEndpoint(p) PROVE OpenInv' BY <1>t, <1>2 DEF AddEndpoint, OpenInv
<1>3. ASSUME NEW p \in Pipe, PipeDown(p) PROVE OpenInv' BY <1>t, <1>3 DEF PipeDown, OpenInv
<1>4. ASSUME NEW p \in Pipe, RepRemove(p) PROVE OpenInv' BY <1>t, <1>4 DEF RepRemove, OpenInv
<1>5. ASSUME NEW p \in Pipe, RespondentDelete(p) PROVE OpenInv'
  BY <1>t, <1>5 DEF RespondentDelete, OpenInv
<1>6. ASSUME NEW p \in Pipe, RespondentRemove(p) PROVE OpenInv'
  BY <1>t, <1>6 DEF RespondentRemove, OpenInv
<1>7. CASE Shutdown BY <1>t, <1>7 DEF Shutdown, OpenInv
<1>8. CASE RepSend
  <2>1. UNCHANGED <<kind, up, eps, qclosed, spc>> BY <1>8 DEF RepSend
  <2>2. RepFinds(Head(uwq)) => from[Head(uwq)] \in eps BY DEF RepFinds, Found
  <2>3. ~crashed BY <1>8 DEF RepSend, OpenInv
  <2>4. RepFinds(Head(uwq)) => ~qclosed[from[Head(uwq)]] BY <1>t, <2>2 DEF OpenInv
  <2>5. CASE Dropped BY <2>1, <2>5 DEF OpenInv, Dropped
  <2>6. CASE RepFinds(Head(uwq)) /\ Enqueue(from[Head(uwq)], Head(uwq))
    <3>1. ~crashed' BY <2>3, <2>4, <2>6 DEF Enqueue
    <3> QED BY <2>1, <3>1 DEF OpenInv
  <2> QED BY <1>8, <2>5, <2>6 DEF RepSend
<1>9. CASE RespondentLookup BY <1>9 DEF RespondentLookup, OpenInv
<1>10. CASE RespondentPush BY <1>10 DEF RespondentPush, OpenInv
<1>11. CASE SndExit BY <1>11 DEF SndExit, OpenInv
<1> QED
  BY <1>1, <1>2, <1>3, <1>4, <1>5, <1>6, <1>7, <1>8, <1>9, <1>10, <1>11
  DEF vars, Next, RepAdd, RespondentAdd, RepPeerSend, RespondentPeerSend, RepSetTTL,
      RespondentSetTTL, RcvStep, SndStep, ThrStep, Close, SetTTL, RepRead, RespondentRead,
      RcvPush, PeerSend, PeerRequest, RecvTake, RepRecvHook, RespondentRecvHook, Received,
      SendCall, SendHook1, RepSendHook, RespondentSendHook, TakeTrace, SendEnd

-----------------------------------------------------------------------------
(* Stages.                                                                 *)

LEMMA StageIs ==
  /\ Stage[1] = Wired /\ Stage[2] = Read /\ Stage[3] = Ready /\ Stage[4] = Hooked
  /\ Stage[5] = Saved /\ Stage[6] = Replying /\ Stage[7] = Outgoing /\ Stage[8] = Picked
  /\ Stage[9] = Queued /\ Stage[10] = Done
  /\ Stage'[1] = Wired' /\ Stage'[2] = Read' /\ Stage'[3] = Ready' /\ Stage'[4] = Hooked'
  /\ Stage'[5] = Saved' /\ Stage'[6] = Replying' /\ Stage'[7] = Outgoing' /\ Stage'[8] = Picked'
  /\ Stage'[9] = Queued' /\ Stage'[10] = Done'
  BY DEF Stage

(* Requests that are dropped, or go from one stage to another, or arrive,  *)
(* leave the stages disjoint.                                              *)
LEMMA Drops ==
  ASSUME NEW S, NEW T, NEW n, Placed(S, n), \A i \in 1 .. 10 : T[i] \subseteq S[i]
  PROVE  Placed(T, n)
  BY DEF Placed

(* From S to T, m goes from stage j to stage k, and nothing else moves in. *)
Shift(S, T, j, k, m) ==
  /\ m \in S[j] /\ T[j] \subseteq S[j] \ {m} /\ T[k] \subseteq S[k] \union {m}
  /\ \A i \in 1 .. 10 : i # j /\ i # k => T[i] \subseteq S[i]

LEMMA Moves ==
  ASSUME NEW S, NEW T, NEW n, Placed(S, n), NEW j \in 1 .. 10, NEW k \in 1 .. 10, j # k,
         NEW m, Shift(S, T, j, k, m)
  PROVE  Placed(T, n)
<1>1. \A i \in 1 .. 10 : i # k => T[i] \subseteq S[i] /\ m \notin T[i] BY DEF Placed, Shift
<1>2. m \in 1 .. n BY DEF Placed, Shift
<1> QED BY <1>1, <1>2 DEF Placed, Shift

LEMMA Arrives ==
  ASSUME NEW S, NEW T, NEW n \in Nat, Placed(S, n), T[1] \subseteq S[1] \union {n + 1},
         \A i \in 1 .. 10 : i # 1 => T[i] \subseteq S[i]
  PROVE  Placed(T, n + 1)
<1>1. n + 1 \notin 1 .. n /\ 1 .. n \subseteq 1 .. n + 1 /\ n + 1 \in 1 .. n + 1 OBVIOUS
<1>2. \A i \in 1 .. 10 : S[i] \subseteq 1 .. n /\ n + 1 \notin S[i] BY <1>1 DEF Placed
<1>3. \A i \in 1 .. 10 : T[i] \subseteq 1 .. n + 1 BY <1>1, <1>2
<1> QED BY <1>2, <1>3 DEF Placed

(* What a stage depends on.                                                *)
LEMMA Frames ==
  /\ UNCHANGED wire => Wired' = Wired
  /\ UNCHANGED rcv => Read' = Read
  /\ UNCHANGED urq => Ready' = Ready
  /\ UNCHANGED <<kind, tpc, tm>> => Hooked' = Hooked
  /\ UNCHANGED backtrace => Saved' = Saved
  /\ UNCHANGED <<tpc, tm>> => Replying' = Replying
  /\ UNCHANGED uwq => Outgoing' = Outgoing
  /\ UNCHANGED sm => Picked' = Picked
  /\ UNCHANGED q => Queued' = Queued
  /\ UNCHANGED answered => Done' = Done
  BY DEF Wired, Read, Ready, Hooked, Unsaved, Saved, Replying, Outgoing, Picked, Queued, Done

(* What a step of one thread does to the stages in which threads are.      *)
LEMMA ThreadStep ==
  ASSUME TypeOK, ThreadsSolo, NEW t \in Thread, NEW pc, NEW n \in Nat, UNCHANGED kind,
         tpc' = [tpc EXCEPT ![t] = pc], tm' = [tm EXCEPT ![t] = n]
  PROVE  /\ Hooked' \subseteq Hooked \union {n} /\ Replying' \subseteq Replying \union {n}
         /\ ~Unsaved(t)' => Hooked' \subseteq Hooked /\ (Unsaved(t) => tm[t] \notin Hooked')
         /\ pc # "enq" => Replying' \subseteq Replying
                          /\ (tpc[t] = "enq" /\ tm[t] # 0 => tm[t] \notin Replying')
         /\ (~Unsaved(t)' \/ (n # 0 /\ n \notin Hooked) \/ (Unsaved(t) /\ n = tm[t]))
            /\ (pc # "enq" \/ n \notin Replying) => ThreadsSolo'
<1>1. /\ \A u \in Thread : u # t => tpc'[u] = tpc[u] /\ tm'[u] = tm[u] /\ Unsaved(u)' = Unsaved(u)
      /\ tpc'[t] = pc /\ tm'[t] = n
  BY DEF TypeOK, Unsaved
<1> QED BY <1>1 DEF ThreadsSolo, Hooked, Replying

-----------------------------------------------------------------------------
(* One step.                                                               *)

LEMMA OnceInit == Init => OnceInv
<1> SUFFICES ASSUME Init PROVE OnceInv OBVIOUS
<1>1. Elems(<<>>) = {} /\ Solo(<<>>) BY DEF Elems, Solo
<1>2. /\ Wired = {} /\ Read = {} /\ Ready = {} /\ Hooked = {} /\ Saved = {} /\ Replying = {}
      /\ Outgoing = {} /\ Picked = {} /\ Queued = {} /\ Done = {}
  BY <1>1 DEF Init, NoWire, Unsaved, Wired, Read, Ready, Hooked, Saved, Replying, Outgoing,
              Picked, Queued, Done
<1>3. \A i \in 1 .. 10 : Stage[i] = {} BY <1>2, StageIs
<1>4. Placed(Stage, nreq) BY <1>3 DEF Placed
<1>5. FromInv BY <1>1 DEF Init, FromInv, NoWire
<1>6. SoloInv BY <1>1 DEF Init, SoloInv, ThreadsSolo, Unsaved
<1>7. AnsweredOnce BY DEF Init, AnsweredOnce
<1> QED BY <1>4, <1>5, <1>6, <1>7 DEF OnceInv

(* A step that touches nothing that holds a request.                       *)
LEMMA Quiet ==
  ASSUME OnceInv, UNCHANGED <<kind, wire, rcv, urq, tpc, tm, backtrace, uwq, sm, q, answered,
                              nreq, from>>
  PROVE  OnceInv'
<1>1. \A i \in 1 .. 10 : Stage'[i] = Stage[i] BY Frames, StageIs
<1>2. Placed(Stage', nreq) BY <1>1, Drops DEF OnceInv
<1>3. FromInv' BY DEF OnceInv, FromInv
<1>4. SoloInv' BY DEF OnceInv, SoloInv, ThreadsSolo, Unsaved
<1>5. AnsweredOnce' BY DEF OnceInv, AnsweredOnce
<1> QED BY <1>2, <1>3, <1>4, <1>5 DEF OnceInv

(* The receiver: from the peer to the upper read queue.                    *)
LEMMA OncePeer ==
  ASSUME TypeOK, OnceInv, NEW p \in Pipe, NEW w \in Words, PeerRequest(p, w)
  PROVE  OnceInv'
<1> USE DEF opts, hookVars, epVars, rcvVars, sndVars, thrVars, outVars
<1> DEFINE n == nreq + 1
<1>1. /\ wire' = [wire EXCEPT ![p] = [id |-> n, words |-> w]] /\ nreq' = n
      /\ from' = [from EXCEPT ![n] = p]
      /\ UNCHANGED <<kind, rcv, urq, tpc, tm, backtrace, uwq, sm, q, answered>>
  BY DEF PeerRequest
<1>2. nreq \in Nat /\ n \in Msg BY ReplierAssumption DEF PeerRequest, TypeOK, Msg
<1>3. Wired' \subseteq Wired \union {n} BY <1>1 DEF Wired, TypeOK
<1>4. /\ Stage'[1] \subseteq Stage[1] \union {n}
      /\ \A i \in 1 .. 10 : i # 1 => Stage'[i] \subseteq Stage[i]
  BY <1>1, <1>3, Frames, StageIs
<1>5. Placed(Stage', nreq') BY <1>1, <1>2, <1>4, Arrives DEF OnceInv
<1>6. n \notin Wired /\ n \notin Read /\ n \notin Queued BY <1>2, StageIs DEF OnceInv, Placed
<1>7. FromInv'
  <2> SUFFICES ASSUME NEW r \in Pipe
               PROVE  /\ wire'[r].id # 0 => from'[wire'[r].id] = r
                      /\ rcv'[r] # 0 => from'[rcv'[r]] = r
                      /\ \A m \in Elems(q'[r]) : from'[m] = r
    BY DEF FromInv
  <2>1. wire'[r].id # 0 => from'[wire'[r].id] = r
    BY <1>1, <1>2, <1>6 DEF OnceInv, FromInv, Wired, TypeOK
  <2>2. rcv'[r] # 0 => from'[rcv'[r]] = r
    BY <1>1, <1>2, <1>6 DEF OnceInv, FromInv, Read, TypeOK
  <2>3. \A m \in Elems(q'[r]) : from'[m] = r
    BY <1>1, <1>2, <1>6 DEF OnceInv, FromInv, Queued, TypeOK
  <2> QED BY <2>1, <2>2, <2>3
<1>8. SoloInv' BY <1>1 DEF OnceInv, SoloInv, ThreadsSolo, Unsaved
<1>9. AnsweredOnce' BY <1>1 DEF OnceInv, AnsweredOnce
<1> QED BY <1>5, <1>7, <1>8, <1>9 DEF OnceInv

LEMMA OnceRead ==
  ASSUME TypeOK, OnceInv, NEW p \in Pipe, wire' = [wire EXCEPT ![p] = NoWire],
         UNCHANGED rcv \/ rcv' = [rcv EXCEPT ![p] = wire[p].id],
         UNCHANGED <<kind, urq, tpc, tm, backtrace, uwq, sm, q, answered, nreq, from>>
  PROVE  OnceInv'
<1> DEFINE m == wire[p].id
<1>t. wire \in [Pipe -> [id : 0 .. MaxReq, words : Words]] /\ rcv \in [Pipe -> 0 .. MaxReq]
  BY DEF TypeOK
<1>1. Wired' \subseteq Wired \ {m} /\ (m # 0 => m \in Wired)
  <2>1. \A r \in Pipe : r # p => wire'[r] = wire[r] /\ (wire[r].id # 0 => wire[r].id # m)
    BY <1>t DEF OnceInv, FromInv
  <2>2. wire'[p].id = 0 BY <1>t DEF NoWire
  <2> QED BY <2>1, <2>2 DEF Wired
<1>2. Read' \subseteq Read \union ({m} \ {0}) BY <1>t DEF Read
<1>3. \A i \in 3 .. 10 : Stage'[i] = Stage[i] BY Frames, StageIs
<1>4. Placed(Stage', nreq)
  <2>1. CASE m = 0
    <3>1. \A i \in 1 .. 10 : Stage'[i] \subseteq Stage[i] BY <1>1, <1>2, <1>3, <2>1, StageIs
    <3> QED BY <3>1, Drops DEF OnceInv
  <2>2. CASE m # 0
    <3>1. Shift(Stage, Stage', 1, 2, m)
      BY <1>1, <1>2, <1>3, <2>2, StageIs DEF Shift
    <3> QED BY <3>1, Moves DEF OnceInv
  <2> QED BY <2>1, <2>2
<1>5. FromInv' BY <1>t DEF OnceInv, FromInv, NoWire
<1>6. SoloInv' BY DEF OnceInv, SoloInv, ThreadsSolo, Unsaved
<1>7. AnsweredOnce' BY DEF OnceInv, AnsweredOnce
<1> QED BY <1>4, <1>5, <1>6, <1>7 DEF OnceInv

LEMMA OncePush == ASSUME TypeOK, OnceInv, NEW p \in Pipe, RcvPush(p) PROVE OnceInv'
<1> USE DEF opts, hookVars, epVars, rcvVars, sndVars, thrVars, outVars
<1> DEFINE m == rcv[p]
<1>1. /\ rcv' = [rcv EXCEPT ![p] = 0] /\ m # 0 /\ (urq' = Append(urq, m) \/ urq' = urq)
      /\ UNCHANGED <<kind, wire, tpc, tm, backtrace, uwq, sm, q, answered, nreq, from>>
  BY DEF RcvPush, RcvReady
<1>t. /\ rcv \in [Pipe -> 0 .. MaxReq] /\ urq \in Seq(Nat) /\ m \in Nat
  BY ReplierAssumption DEF TypeOK, Msg
<1>2. Read' \subseteq Read \ {m} /\ m \in Read
  <2>1. \A r \in Pipe : r # p => rcv'[r] = rcv[r] /\ (rcv[r] # 0 => rcv[r] # m)
    BY <1>t, <1>1 DEF OnceInv, FromInv
  <2> QED BY <1>t, <1>1, <2>1 DEF Read
<1>3. Ready' \subseteq Ready \union {m} BY <1>t, <1>1, PutsIn DEF Ready
<1>4. m \notin Ready BY <1>2, StageIs DEF OnceInv, Placed
<1>5. Placed(Stage', nreq)
  <2>1. Shift(Stage, Stage', 2, 3, m)
    BY <1>1, <1>2, <1>3, Frames, StageIs DEF Shift
  <2> QED BY <2>1, Moves DEF OnceInv
<1>6. FromInv' BY <1>t, <1>1 DEF OnceInv, FromInv
<1>7. Solo(urq')
  <2>1. Solo(urq) /\ m \notin Elems(urq) BY <1>4 DEF OnceInv, SoloInv, Ready
  <2>2. Solo(Append(urq, m)) BY <1>t, <2>1, PutsIn
  <2> QED BY <1>1, <2>1, <2>2
<1>8. SoloInv' BY <1>1, <1>7 DEF OnceInv, SoloInv, ThreadsSolo, Unsaved
<1>9. AnsweredOnce' BY <1>1 DEF OnceInv, AnsweredOnce
<1> QED BY <1>1, <1>5, <1>6, <1>8, <1>9 DEF OnceInv

(* The threads: from the upper read queue to the upper write queue.        *)
LEMMA OnceTake == ASSUME TypeOK, OnceInv, NEW t \in Thread, RecvTake(t) PROVE OnceInv'
<1> USE DEF opts, hookVars, epVars, rcvVars, sndVars, thrVars, outVars
<1> DEFINE m == Head(urq)
<1>1. /\ urq # <<>> /\ urq' = Tail(urq)
      /\ tpc' = [tpc EXCEPT ![t] = "hook1"] /\ tm' = [tm EXCEPT ![t] = m]
      /\ UNCHANGED <<kind, wire, rcv, backtrace, uwq, sm, q, answered, nreq, from>>
  BY DEF RecvTake, At, With
<1>2. urq \in Seq(Nat) /\ m \in Nat /\ m # 0
  <2>1. urq \in Seq(Msg) /\ urq \in Seq(Nat) BY ReplierAssumption DEF TypeOK, Msg
  <2>2. m \in Msg BY <1>1, <2>1, QueueType
  <2> QED BY <2>1, <2>2, ReplierAssumption DEF Msg
<1>3. Solo(urq) BY DEF OnceInv, SoloInv
<1>4. Solo(urq') /\ Ready' \subseteq Ready \ {m} /\ m \in Ready
  BY <1>1, <1>2, <1>3, TakesOut DEF Ready
<1>5. m \notin Hooked /\ m \notin Replying BY <1>4, StageIs DEF OnceInv, Placed
<1>6. ThreadsSolo BY DEF OnceInv, SoloInv
<1> HIDE DEF m
<1>7. Hooked' \subseteq Hooked \union {m} /\ Replying' \subseteq Replying /\ ThreadsSolo'
  BY <1>1, <1>2, <1>5, <1>6, ThreadStep
<1>8. Placed(Stage', nreq)
  <2>1. Shift(Stage, Stage', 3, 4, m)
    BY <1>1, <1>4, <1>7, Frames, StageIs DEF Shift
  <2> QED BY <2>1, Moves DEF OnceInv
<1>9. FromInv' BY <1>1 DEF OnceInv, FromInv
<1>10. SoloInv' BY <1>1, <1>4, <1>7 DEF OnceInv, SoloInv
<1>11. AnsweredOnce' BY <1>1 DEF OnceInv, AnsweredOnce
<1> QED BY <1>1, <1>8, <1>9, <1>10, <1>11 DEF OnceInv

(* A step of a hook or of SendMsg that leaves the backtrace alone.         *)
LEMMA OnceThread ==
  ASSUME TypeOK, OnceInv, NEW t \in Thread, NEW pc, NEW n \in {0, tm[t]},
         tpc' = [tpc EXCEPT ![t] = pc], tm' = [tm EXCEPT ![t] = n], pc # "enq",
         ~Unsaved(t)' \/ (Unsaved(t) /\ n = tm[t]),
         UNCHANGED <<kind, wire, rcv, urq, backtrace, uwq, sm, q, answered, nreq, from>>
  PROVE  OnceInv'
<1>1. ThreadsSolo BY DEF OnceInv, SoloInv
<1>2. n \in Nat BY ReplierAssumption DEF TypeOK
<1>3. Unsaved(t) /\ n = tm[t] /\ n # 0 => n \in Hooked BY DEF Hooked
<1>4. 0 \notin Hooked' BY DEF Hooked
<1>5. Hooked' \subseteq Hooked /\ Replying' \subseteq Replying /\ ThreadsSolo'
  <2>1. Replying' \subseteq Replying BY <1>1, <1>2, ThreadStep
  <2>2. ThreadsSolo' BY <1>1, <1>2, ThreadStep
  <2>3. Hooked' \subseteq Hooked \union {n} /\ (~Unsaved(t)' => Hooked' \subseteq Hooked)
    BY <1>1, <1>2, ThreadStep
  <2> QED BY <1>3, <1>4, <2>1, <2>2, <2>3
<1>6. \A i \in 1 .. 10 : Stage'[i] \subseteq Stage[i] BY <1>5, Frames, StageIs
<1>7. Placed(Stage', nreq) BY <1>6, Drops DEF OnceInv
<1>8. FromInv' BY DEF OnceInv, FromInv
<1>9. SoloInv' BY <1>5 DEF OnceInv, SoloInv
<1>10. AnsweredOnce' BY DEF OnceInv, AnsweredOnce
<1> QED BY <1>7, <1>8, <1>9, <1>10 DEF OnceInv

LEMMA OnceSave ==
  ASSUME TypeOK, OnceInv, NEW t \in Thread, NEW pc, NEW n \in {0, tm[t]}, Unsaved(t), ~Unsaved(t)',
         tpc' = [tpc EXCEPT ![t] = pc], tm' = [tm EXCEPT ![t] = n], pc # "enq",
         backtrace' = tm[t], tm[t] # 0,
         UNCHANGED <<kind, wire, rcv, urq, uwq, sm, q, answered, nreq, from>>
  PROVE  OnceInv'
<1> DEFINE m == tm[t]
<1>1. ThreadsSolo BY DEF OnceInv, SoloInv
<1>2. n \in Nat BY ReplierAssumption DEF TypeOK
<1>3. m \in Hooked BY DEF Hooked
<1>4. Hooked' \subseteq Hooked \ {m} /\ Replying' \subseteq Replying /\ ThreadsSolo'
  <2>1. Replying' \subseteq Replying BY <1>1, <1>2, ThreadStep
  <2>2. ThreadsSolo' BY <1>1, <1>2, ThreadStep
  <2>3. Hooked' \subseteq Hooked /\ m \notin Hooked' BY <1>1, <1>2, ThreadStep
  <2> QED BY <2>1, <2>2, <2>3
<1>5. Saved' \subseteq Saved \union {m} BY DEF Saved
<1>6. Placed(Stage', nreq)
  <2>1. Shift(Stage, Stage', 4, 5, m)
    BY <1>3, <1>4, <1>5, Frames, StageIs DEF Shift
  <2> QED BY <2>1, Moves DEF OnceInv
<1>7. FromInv' BY DEF OnceInv, FromInv
<1>8. SoloInv' BY <1>4 DEF OnceInv, SoloInv
<1>9. AnsweredOnce' BY DEF OnceInv, AnsweredOnce
<1> QED BY <1>6, <1>7, <1>8, <1>9 DEF OnceInv

LEMMA OnceTrace ==
  ASSUME TypeOK, OnceInv, NEW t \in Thread, NEW pc \in {"enq", "idle"},
         pc = "enq" \/ backtrace = 0, tpc' = [tpc EXCEPT ![t] = pc],
         tm' = [tm EXCEPT ![t] = backtrace], backtrace' = 0,
         UNCHANGED <<kind, wire, rcv, urq, uwq, sm, q, answered, nreq, from>>
  PROVE  OnceInv'
<1> DEFINE m == backtrace
<1>1. ThreadsSolo BY DEF OnceInv, SoloInv
<1>2. m \in Nat BY ReplierAssumption DEF TypeOK
<1>3. m # 0 => m \in Saved BY DEF Saved
<1>4. m \notin Replying BY <1>3, StageIs DEF OnceInv, Placed, Replying
<1>5. ~Unsaved(t)' BY DEF Unsaved, TypeOK
<1>6. /\ Hooked' \subseteq Hooked /\ Replying' \subseteq Replying \union {m} /\ 0 \notin Replying'
      /\ ThreadsSolo'
  BY <1>1, <1>2, <1>4, <1>5, ThreadStep DEF Replying
<1>7. Saved' = {} BY DEF Saved
<1>8. Placed(Stage', nreq)
  <2>1. CASE m = 0
    <3>1. \A i \in 1 .. 10 : Stage'[i] \subseteq Stage[i] BY <1>6, <1>7, <2>1, Frames, StageIs
    <3> QED BY <3>1, Drops DEF OnceInv
  <2>2. CASE m # 0
    <3>1. Shift(Stage, Stage', 5, 6, m)
      BY <1>3, <1>6, <1>7, <2>2, Frames, StageIs DEF Shift
    <3> QED BY <3>1, Moves DEF OnceInv
  <2> QED BY <2>1, <2>2
<1>9. FromInv' BY DEF OnceInv, FromInv
<1>10. SoloInv' BY <1>6 DEF OnceInv, SoloInv
<1>11. AnsweredOnce' BY DEF OnceInv, AnsweredOnce
<1> QED BY <1>8, <1>9, <1>10, <1>11 DEF OnceInv

LEMMA OnceSend == ASSUME TypeOK, OnceInv, NEW t \in Thread, SendEnd(t) PROVE OnceInv'
<1> USE DEF opts, hookVars, epVars, rcvVars, sndVars, thrVars, outVars
<1> DEFINE m == tm[t]
<1>1. /\ tpc[t] = "enq" /\ tpc' = [tpc EXCEPT ![t] = "idle"] /\ tm' = [tm EXCEPT ![t] = 0]
      /\ uwq' = Append(uwq, m) \/ uwq' = uwq
      /\ UNCHANGED <<kind, wire, rcv, urq, backtrace, sm, q, answered, nreq, from>>
  BY DEF SendEnd, At, With
<1>2. uwq \in Seq(Nat) /\ m \in Nat BY ReplierAssumption DEF TypeOK
<1>3. ThreadsSolo BY DEF OnceInv, SoloInv
<1>4. ~Unsaved(t)' BY <1>1 DEF Unsaved, TypeOK
<1>5. /\ Hooked' \subseteq Hooked /\ Replying' \subseteq Replying /\ ThreadsSolo'
      /\ m # 0 => m \notin Replying' /\ m \in Replying
  <2> DEFINE pc == "idle"
  <2>1. 0 \in Nat /\ pc # "enq" /\ tpc' = [tpc EXCEPT ![t] = pc] BY <1>1
  <2> HIDE DEF pc
  <2>2. ThreadsSolo' BY <1>1, <1>3, <1>4, <2>1, ThreadStep
  <2>3. Hooked' \subseteq Hooked BY <1>1, <1>3, <1>4, <2>1, ThreadStep
  <2>4. Replying' \subseteq Replying /\ (m # 0 => m \notin Replying')
    BY <1>1, <1>3, <1>4, <2>1, ThreadStep
  <2>5. m # 0 => m \in Replying BY <1>1 DEF Replying
  <2> QED BY <2>2, <2>3, <2>4, <2>5
<1>6. m \notin Outgoing BY <1>5, StageIs, SMTT(30) DEF OnceInv, Placed, Outgoing, Elems
<1>7. Outgoing' \subseteq Outgoing \union ({m} \ {0}) BY <1>1, <1>2, PutsIn DEF Outgoing
<1>8. Solo(uwq')
  <2>1. Solo(uwq) /\ m \notin Elems(uwq) BY <1>6 DEF OnceInv, SoloInv, Outgoing
  <2>2. Solo(Append(uwq, m)) BY <1>2, <2>1, PutsIn
  <2> QED BY <1>1, <2>1, <2>2
<1>9. Placed(Stage', nreq)
  <2>1. CASE m = 0
    <3>1. \A i \in 1 .. 10 : Stage'[i] \subseteq Stage[i] BY <1>1, <1>5, <1>7, <2>1, Frames, StageIs
    <3> QED BY <3>1, Drops DEF OnceInv
  <2>2. CASE m # 0
    <3>1. Shift(Stage, Stage', 6, 7, m)
      BY <1>1, <1>5, <1>7, <2>2, Frames, StageIs DEF Shift
    <3> QED BY <3>1, Moves DEF OnceInv
  <2> QED BY <2>1, <2>2
<1>10. FromInv' BY <1>1 DEF OnceInv, FromInv
<1>11. SoloInv' BY <1>1, <1>5, <1>8 DEF OnceInv, SoloInv
<1>12. AnsweredOnce' BY <1>1 DEF OnceInv, AnsweredOnce
<1> QED BY <1>1, <1>9, <1>10, <1>11, <1>12 DEF OnceInv

(* The sender: from the upper write queue to the peer.                     *)
LEMMA Enqueues ==
  ASSUME TypeOK, NEW m \in Msg, from[m] \in Pipe, Enqueue(from[m], m), m \notin Queued,
         UNCHANGED from, \A p \in Pipe : Solo(q[p]) /\ \A k \in Elems(q[p]) : from[k] = p
  PROVE  /\ Queued' \subseteq Queued \union {m}
         /\ \A p \in Pipe : Solo(q'[p]) /\ \A k \in Elems(q'[p]) : from'[k] = p
<1> DEFINE r == from[m]
<1>1. q \in [Pipe -> Seq(Msg)] /\ m \in Nat /\ \A p \in Pipe : q[p] \in Seq(Nat)
  BY ReplierAssumption DEF TypeOK, Msg
<1>2. UNCHANGED q \/ q' = [q EXCEPT ![r] = Append(@, m)] BY DEF Enqueue
<1>3. m \notin Elems(q[r]) BY DEF Queued
<1>4. Elems(Append(q[r], m)) \subseteq Elems(q[r]) \union {m} /\ Solo(Append(q[r], m))
  BY <1>1, <1>3, PutsIn
<1>5. \A p \in Pipe : p # r => q'[p] = q[p] BY <1>1, <1>2
<1>6. q'[r] = q[r] \/ q'[r] = Append(q[r], m) BY <1>1, <1>2
<1>7. \A p \in Pipe : Elems(q'[p]) \subseteq Elems(q[p]) \union (IF p = r THEN {m} ELSE {})
  BY <1>4, <1>5, <1>6
<1>8. \A p \in Pipe : Solo(q'[p]) BY <1>4, <1>5, <1>6
<1>9. \A p \in Pipe : \A k \in Elems(q'[p]) : from'[k] = p BY <1>7
<1>10. Queued' \subseteq Queued \union {m} BY <1>7 DEF Queued
<1> QED BY <1>8, <1>9, <1>10

LEMMA OnceRepSend == ASSUME TypeOK, OnceInv, RepSend PROVE OnceInv'
<1> USE DEF opts, hookVars, epVars, rcvVars, sndVars, thrVars, outVars
<1> DEFINE m == Head(uwq)
<1>1. /\ uwq # <<>> /\ uwq' = Tail(uwq)
      /\ (RepFinds(m) /\ Enqueue(from[m], m)) \/ Dropped
      /\ UNCHANGED <<kind, wire, rcv, urq, tpc, tm, backtrace, sm, answered, nreq, from>>
  BY DEF RepSend
<1>2. uwq \in Seq(Nat) /\ m \in 0 .. MaxReq BY <1>1, ReplierAssumption, QueueType DEF TypeOK
<1>3. Solo(uwq) BY DEF OnceInv, SoloInv
<1>4. Solo(uwq') /\ Outgoing' \subseteq Outgoing \ {m} /\ (m # 0 => m \in Outgoing)
  BY <1>1, <1>2, <1>3, TakesOut DEF Outgoing
<1>5. AnsweredOnce' BY <1>1 DEF OnceInv, AnsweredOnce
<1>6. CASE Dropped
  <2>1. UNCHANGED q BY <1>6 DEF Dropped
  <2>2. \A i \in 1 .. 10 : Stage'[i] \subseteq Stage[i] BY <1>1, <1>4, <2>1, Frames, StageIs
  <2>3. Placed(Stage', nreq) BY <2>2, Drops DEF OnceInv
  <2>4. FromInv' BY <1>1, <2>1 DEF OnceInv, FromInv
  <2>5. SoloInv' BY <1>1, <1>4, <2>1 DEF OnceInv, SoloInv, ThreadsSolo, Unsaved
  <2> QED BY <1>1, <1>5, <2>3, <2>4, <2>5 DEF OnceInv
<1>7. CASE RepFinds(m) /\ Enqueue(from[m], m)
  <2>1. m # 0 /\ m \in Msg /\ from[m] \in Pipe
    BY <1>2, <1>7, ReplierAssumption DEF RepFinds, Found, TypeOK, Msg
  <2>2. m \notin Queued BY <1>4, <2>1, StageIs DEF OnceInv, Placed
  <2>3. \A p \in Pipe : Solo(q[p]) /\ \A k \in Elems(q[p]) : from[k] = p
    BY DEF OnceInv, SoloInv, FromInv
  <2>4. /\ Queued' \subseteq Queued \union {m}
        /\ \A p \in Pipe : Solo(q'[p]) /\ \A k \in Elems(q'[p]) : from'[k] = p
    BY <1>1, <1>7, <2>1, <2>2, <2>3, Enqueues
  <2>5. Shift(Stage, Stage', 7, 9, m)
    BY <1>1, <1>4, <2>1, <2>4, Frames, StageIs DEF Shift
  <2>6. Placed(Stage', nreq) BY <2>5, Moves DEF OnceInv
  <2>7. FromInv' BY <1>1, <2>4 DEF OnceInv, FromInv
  <2>8. SoloInv' BY <1>1, <1>4, <2>4 DEF OnceInv, SoloInv, ThreadsSolo, Unsaved
  <2> QED BY <1>1, <1>5, <2>6, <2>7, <2>8 DEF OnceInv
<1> QED BY <1>1, <1>6, <1>7

LEMMA OnceLookup == ASSUME TypeOK, OnceInv, RespondentLookup PROVE OnceInv'
<1> USE DEF opts, hookVars, epVars, rcvVars, sndVars, thrVars, outVars
<1> DEFINE m == Head(uwq)
<1>1. /\ uwq # <<>> /\ uwq' = Tail(uwq) /\ ((m # 0 /\ sm' = m) \/ sm' = sm)
      /\ UNCHANGED <<kind, wire, rcv, urq, tpc, tm, backtrace, q, answered, nreq, from>>
  BY DEF RespondentLookup, Found
<1>2. uwq \in Seq(Nat) /\ m \in 0 .. MaxReq BY <1>1, ReplierAssumption, QueueType DEF TypeOK
<1>3. Solo(uwq) BY DEF OnceInv, SoloInv
<1>4. Solo(uwq') /\ Outgoing' \subseteq Outgoing \ {m} /\ (m # 0 => m \in Outgoing)
  BY <1>1, <1>2, <1>3, TakesOut DEF Outgoing
<1>5. Placed(Stage', nreq)
  <2>1. CASE sm' = sm
    <3>1. \A i \in 1 .. 10 : Stage'[i] \subseteq Stage[i] BY <1>1, <1>4, <2>1, Frames, StageIs
    <3> QED BY <3>1, Drops DEF OnceInv
  <2>2. CASE m # 0 /\ sm' = m
    <3>1. Picked' \subseteq Picked \union {m} BY <2>2 DEF Picked
    <3>2. Shift(Stage, Stage', 7, 8, m)
      BY <1>1, <1>4, <2>2, <3>1, Frames, StageIs DEF Shift
    <3> QED BY <3>2, Moves DEF OnceInv
  <2> QED BY <1>1, <2>1, <2>2
<1>6. FromInv' BY <1>1 DEF OnceInv, FromInv
<1>7. SoloInv' BY <1>1, <1>4 DEF OnceInv, SoloInv, ThreadsSolo, Unsaved
<1>8. AnsweredOnce' BY <1>1 DEF OnceInv, AnsweredOnce
<1> QED BY <1>1, <1>5, <1>6, <1>7, <1>8 DEF OnceInv

LEMMA OnceRespondentPush == ASSUME TypeOK, HoldInv, OnceInv, RespondentPush PROVE OnceInv'
<1> USE DEF opts, hookVars, epVars, rcvVars, sndVars, thrVars, outVars
<1>1. /\ sm' = 0 /\ Enqueue(from[sm], sm)
      /\ UNCHANGED <<kind, wire, rcv, urq, tpc, tm, backtrace, uwq, answered, nreq, from>>
  BY DEF RespondentPush
<1>2. sm # 0 /\ sm \in Msg /\ from[sm] \in Pipe
  BY ReplierAssumption DEF RespondentPush, HoldInv, TypeOK, Msg
<1>3. sm \in Picked /\ Picked' = {} BY <1>1, <1>2 DEF Picked
<1>4. sm \notin Queued BY <1>3, StageIs DEF OnceInv, Placed
<1>5. \A p \in Pipe : Solo(q[p]) /\ \A k \in Elems(q[p]) : from[k] = p
  BY DEF OnceInv, SoloInv, FromInv
<1>6. /\ Queued' \subseteq Queued \union {sm}
      /\ \A p \in Pipe : Solo(q'[p]) /\ \A k \in Elems(q'[p]) : from'[k] = p
  BY <1>1, <1>2, <1>4, <1>5, Enqueues
<1>7. Placed(Stage', nreq)
  <2>1. Shift(Stage, Stage', 8, 9, sm)
    BY <1>1, <1>3, <1>6, Frames, StageIs DEF Shift
  <2> QED BY <2>1, Moves DEF OnceInv
<1>8. FromInv' BY <1>1, <1>6 DEF OnceInv, FromInv
<1>9. SoloInv' BY <1>1, <1>6 DEF OnceInv, SoloInv, ThreadsSolo, Unsaved
<1>10. AnsweredOnce' BY <1>1 DEF OnceInv, AnsweredOnce
<1> QED BY <1>1, <1>7, <1>8, <1>9, <1>10 DEF OnceInv

LEMMA OncePeerSend == ASSUME TypeOK, OnceInv, NEW p \in Pipe, PeerSend(p) PROVE OnceInv'
<1> USE DEF opts, hookVars, epVars, rcvVars, sndVars, thrVars, outVars
<1> DEFINE m == Head(q[p])
<1>1. /\ q[p] # <<>> /\ q' = [q EXCEPT ![p] = Tail(@)]
      /\ answered' = [answered EXCEPT ![m] = @ + 1]
      /\ UNCHANGED <<kind, wire, rcv, urq, tpc, tm, backtrace, uwq, sm, nreq, from>>
  BY DEF PeerSend
<1>2. q \in [Pipe -> Seq(Msg)] /\ q[p] \in Seq(Nat) /\ q[p] \in Seq(Msg) /\ answered \in [Msg -> Nat]
  BY ReplierAssumption DEF TypeOK, Msg
<1>3. m \in Msg /\ m # 0
  <2>1. m \in Msg BY <1>1, <1>2, QueueType
  <2> QED BY <2>1, ReplierAssumption DEF Msg
<1>4. Solo(q[p]) BY DEF OnceInv, SoloInv
<1>5. Solo(Tail(q[p])) /\ Elems(Tail(q[p])) \subseteq Elems(q[p]) \ {m} /\ m \in Elems(q[p])
  BY <1>1, <1>2, <1>3, <1>4, TakesOut
<1>6. q'[p] = Tail(q[p]) /\ \A r \in Pipe : r # p => q'[r] = q[r] BY <1>1, <1>2
<1>7. \A r \in Pipe : r # p => m \notin Elems(q[r]) BY <1>5 DEF OnceInv, FromInv
<1>8. \A r \in Pipe : Elems(q'[r]) \subseteq Elems(q[r]) \ {m} BY <1>5, <1>6, <1>7
<1>9. Queued' \subseteq Queued \ {m} /\ m \in Queued BY <1>5, <1>8 DEF Queued
<1>10. Done' \subseteq Done \union {m} BY <1>1, <1>2, <1>3 DEF Done
<1>11. m \notin Done BY <1>9, StageIs DEF OnceInv, Placed
<1>12. answered[m] = 0 BY <1>3, <1>11 DEF Done
<1>13. Placed(Stage', nreq)
  <2>1. Shift(Stage, Stage', 9, 10, m)
    BY <1>1, <1>9, <1>10, Frames, StageIs DEF Shift
  <2> QED BY <2>1, Moves DEF OnceInv
<1>14. FromInv' BY <1>1, <1>8 DEF OnceInv, FromInv
<1>15. SoloInv' BY <1>1, <1>5, <1>6 DEF OnceInv, SoloInv, ThreadsSolo, Unsaved
<1>16. AnsweredOnce' BY <1>1, <1>2, <1>12 DEF OnceInv, AnsweredOnce
<1> QED BY <1>1, <1>13, <1>14, <1>15, <1>16 DEF OnceInv

LEMMA OnceStep == TypeOK /\ HoldInv /\ OnceInv /\ [Next]_vars => OnceInv'
<1> SUFFICES ASSUME TypeOK, HoldInv, OnceInv, [Next]_vars PROVE OnceInv' OBVIOUS
<1> USE DEF opts, hookVars, epVars, rcvVars, sndVars, thrVars, outVars
<1>t. tpc \in [Thread -> {"idle", "hook1", "hook2", "send1", "send2", "enq"}]
      /\ tm \in [Thread -> 0 .. MaxReq]
  BY DEF TypeOK
<1>1. CASE UNCHANGED <<kind, wire, rcv, urq, tpc, tm, backtrace, uwq, sm, q, answered, nreq, from>>
  BY <1>1, Quiet
<1>2. ASSUME NEW p \in Pipe, NEW w \in Words, PeerRequest(p, w) PROVE OnceInv' BY <1>2, OncePeer
<1>3. ASSUME NEW p \in Pipe, PipeDown(p) \/ RepRead(p) \/ RespondentRead(p) PROVE OnceInv'
  BY <1>3, OnceRead DEF PipeDown, RepRead, RespondentRead
<1>4. ASSUME NEW p \in Pipe, RcvPush(p) PROVE OnceInv' BY <1>4, OncePush
<1>5. ASSUME NEW t \in Thread, RecvTake(t) PROVE OnceInv' BY <1>5, OnceTake
<1>6. ASSUME NEW t \in Thread, RepRecvHook(t) PROVE OnceInv'
  <2>1. CASE tpc[t] = "hook1"
    <3>1. /\ tpc' = [tpc EXCEPT ![t] = "hook2"] /\ tm' = [tm EXCEPT ![t] = tm[t]]
          /\ Unsaved(t) /\ UNCHANGED <<kind, wire, rcv, urq, backtrace, uwq, sm, q, answered, nreq, from>>
      BY <1>t, <1>6, <2>1 DEF RepRecvHook, At, ClearErr, Unsaved
    <3> QED BY <3>1, OnceThread
  <2>2. CASE tpc[t] = "hook2"
    <3>1. /\ tpc' = [tpc EXCEPT ![t] = "idle"] /\ tm' = [tm EXCEPT ![t] = 0]
          /\ Unsaved(t) /\ backtrace' = tm[t]
          /\ UNCHANGED <<kind, wire, rcv, urq, uwq, sm, q, answered, nreq, from>>
      BY <1>t, <1>6, <2>2 DEF RepRecvHook, At, With, Save, Received, Unsaved
    <3>2. ~Unsaved(t)' /\ tm[t] # 0 BY <1>t, <2>2, <3>1 DEF Unsaved, HoldInv
    <3> QED BY <3>1, <3>2, OnceSave
  <2> QED BY <1>6, <2>1, <2>2 DEF RepRecvHook
<1>7. ASSUME NEW t \in Thread, RespondentRecvHook(t) PROVE OnceInv'
  <2>1. CASE tpc[t] = "hook1"
    <3>1. /\ tpc' = [tpc EXCEPT ![t] = "hook2"] /\ tm' = [tm EXCEPT ![t] = tm[t]]
          /\ Unsaved(t) /\ backtrace' = tm[t] /\ kind = "respondent"
          /\ UNCHANGED <<kind, wire, rcv, urq, uwq, sm, q, answered, nreq, from>>
      BY <1>t, <1>7, <2>1 DEF RespondentRecvHook, At, Save, Unsaved
    <3>2. ~Unsaved(t)' /\ tm[t] # 0 BY <1>t, <2>1, <3>1 DEF Unsaved, HoldInv
    <3> QED BY <3>1, <3>2, OnceSave
  <2>2. CASE tpc[t] = "hook2"
    <3>1. /\ tpc' = [tpc EXCEPT ![t] = "idle"] /\ tm' = [tm EXCEPT ![t] = 0]
          /\ UNCHANGED <<kind, wire, rcv, urq, backtrace, uwq, sm, q, answered, nreq, from>>
      BY <1>t, <1>7, <2>2 DEF RespondentRecvHook, At, With, ClearErr, Received
    <3>2. ~Unsaved(t)' BY <1>t, <3>1 DEF Unsaved
    <3> QED BY <3>1, <3>2, OnceThread
  <2> QED BY <1>7, <2>1, <2>2 DEF RespondentRecvHook
<1>8. ASSUME NEW t \in Thread, SendCall(t) \/ SendHook1(t) PROVE OnceInv'
  <2>1. PICK pc \in {"send1", "send2"} : tpc' = [tpc EXCEPT ![t] = pc]
    BY <1>8 DEF SendCall, SendHook1, At
  <2>2. /\ tm' = [tm EXCEPT ![t] = tm[t]]
        /\ UNCHANGED <<kind, wire, rcv, urq, backtrace, uwq, sm, q, answered, nreq, from>>
    BY <1>t, <1>8 DEF SendCall, SendHook1
  <2>3. ~Unsaved(t)' BY <1>t, <2>1 DEF Unsaved
  <2> QED BY <2>1, <2>2, <2>3, OnceThread
<1>9. ASSUME NEW t \in Thread, RepSendHook(t) \/ RespondentSendHook(t) PROVE OnceInv'
  <2>1. PICK pc \in {"enq", "idle"} : tpc' = [tpc EXCEPT ![t] = pc] /\ (pc = "enq" \/ backtrace = 0)
    BY <1>9 DEF RepSendHook, RespondentSendHook, At
  <2>2. /\ tm' = [tm EXCEPT ![t] = backtrace] /\ backtrace' = 0
        /\ UNCHANGED <<kind, wire, rcv, urq, uwq, sm, q, answered, nreq, from>>
    BY <1>9 DEF RepSendHook, RespondentSendHook, TakeTrace, With, ClearTrace
  <2> QED BY <2>1, <2>2, OnceTrace
<1>10. ASSUME NEW t \in Thread, SendEnd(t) PROVE OnceInv' BY <1>10, OnceSend
<1>11. CASE RepSend BY <1>11, OnceRepSend
<1>12. CASE RespondentLookup BY <1>12, OnceLookup
<1>13. CASE RespondentPush BY <1>13, OnceRespondentPush
<1>14. ASSUME NEW p \in Pipe, PeerSend(p) PROVE OnceInv' BY <1>14, OncePeerSend
<1> QED
  BY <1>1, <1>2, <1>3, <1>4, <1>5, <1>6, <1>7, <1>8, <1>9, <1>10, <1>11, <1>12, <1>13, <1>14
  DEF vars, Next, RepAdd, RespondentAdd, RepPeerSend, RespondentPeerSend, RepSetTTL,
      RespondentSetTTL, RcvStep, SndStep, ThrStep, AddEndpoint, RepRemove, RespondentDelete,
      RespondentRemove, Close, Shutdown, SetTTL, SndExit

-----------------------------------------------------------------------------
(* Every variable of the answering sockets has its type, in every state    *)
(* that REP and RESPONDENT reach.                                          *)
THEOREM TypeCorrect == SafeSpec => [](TypeOK /\ HoldInv)
<1>1. Init => TypeOK /\ HoldInv BY TypeInit
<1>2. TypeOK /\ HoldInv /\ [Next]_vars => (TypeOK /\ HoldInv)' BY TypeStep, HoldStep
<1> QED BY <1>1, <1>2, PTL DEF SafeSpec

(* REP's sender never sends on a closed queue, whenever connections come   *)
(* and go: endpoints in the table have open queues (RemoveEndpoint takes   *)
(* one out and closes it under the lock under which sender looks it up).   *)
THEOREM RepNeverCrashes == SafeSpec => []RepPushOpen
<1>1. Init => OpenInv BY TypeInit
<1>2. TypeOK /\ OpenInv /\ [Next]_vars => OpenInv' BY OpenStep
<1>3. OpenInv => RepPushOpen BY DEF OpenInv, RepPushOpen
<1> QED BY <1>1, <1>2, <1>3, TypeCorrect, PTL DEF SafeSpec

(* No request is answered twice, however many threads call RecvMsg and     *)
(* SendMsg at once: a request is in one stage of its way at a time, the    *)
(* backtrace is one of them, and SendHook empties it as it takes it.       *)
THEOREM NoSecondAnswer == SafeSpec => []AnsweredOnce
<1>1. Init => OnceInv BY OnceInit
<1>2. TypeOK /\ HoldInv /\ OnceInv /\ [Next]_vars => OnceInv' BY OnceStep
<1>3. OnceInv => AnsweredOnce BY DEF OnceInv
<1> QED BY <1>1, <1>2, <1>3, TypeCorrect, PTL DEF SafeSpec

=============================================================================
