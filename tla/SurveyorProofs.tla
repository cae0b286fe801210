--------------------------- MODULE SurveyorProofs ---------------------------
(***************************************************************************)
(* What is proved about SURVEYOR (Surveyor), for any number of threads,    *)
(* respondents and surveys: the type invariant, that a response handed     *)
(* over is one to the latest survey, and that there are no more of them    *)
(* than respondents.                                                       *)
(***************************************************************************)
EXTENDS Surveyor, FiniteSetTheorems, TLAPS

PCs == {"idle", "enq", "rtop", "rgap", "rsel"}

(* A thread that is about to queue a survey has one.                       *)
EnqInv == \A t \in Thread : tpc[t] = "enq" => tm[t] # 0

-----------------------------------------------------------------------------
(* Where a survey is, before it is broadcast and after.                    *)

Elems(s) == {s[i] : i \in 1 .. Len(s)}

Solo(s) == \A i, j \in 1 .. Len(s) : s[i] = s[j] => i = j

InHand(m) == \E t \in Thread : tpc[t] = "enq" /\ tm[t] = m

Early(m) == m > survey \/ InHand(m) \/ m \in Elems(uwq)

AtPeer(p, m) == m \in Elems(q[p]) \/ m = out[p] \/ m \in atPeer[p] \/ m = rcv[p]

(* The respondents that may still answer m, and the answers not yet handed *)
(* over.                                                                   *)
Due(m) == {p \in Peer : Early(m) \/ AtPeer(p, m)}

Where(s, m) == {i \in 1 .. Len(s) : s[i] = m}

Waiting(m) == Where(urq, m)

(* A survey is in one place until it is broadcast; then in at most one for *)
(* each peer.                                                              *)
EarlyInv ==
  /\ \A t \in Thread : tpc[t] = "enq" => tm[t] <= survey /\ tm[t] \notin Elems(uwq)
  /\ \A t, u \in Thread : tpc[t] = "enq" /\ tpc[u] = "enq" /\ tm[t] = tm[u] => t = u
  /\ Solo(uwq) /\ \A m \in Elems(uwq) : m <= survey
  /\ \A m \in Msg : Early(m) => \A p \in Peer : ~AtPeer(p, m)

PeerInv ==
  \A p \in Peer :
    /\ Solo(q[p]) /\ out[p] \notin Elems(q[p]) /\ rcv[p] \notin Elems(q[p])
    /\ atPeer[p] \intersect Elems(q[p]) = {}
    /\ out[p] \notin atPeer[p] /\ rcv[p] \notin atPeer[p] /\ (out[p] = rcv[p] => out[p] = 0)

CountInv ==
  \A m \in Msg : got[m] + Cardinality(Waiting(m)) + Cardinality(Due(m)) <= Cardinality(Peer)

SurveyInv == EarlyInv /\ PeerInv /\ CountInv

-----------------------------------------------------------------------------
(* Lemmas about queues.                                                    *)

LEMMA QueueType ==
  ASSUME NEW S, NEW s \in Seq(S)
  PROVE  /\ s # <<>> => Head(s) \in S /\ Tail(s) \in Seq(S)
         /\ \A m \in S : Append(s, m) \in Seq(S)
  OBVIOUS

LEMMA TakesOut ==
  ASSUME NEW S, NEW s \in Seq(S), s # <<>>
  PROVE  /\ Head(s) \in Elems(s) /\ Elems(Tail(s)) \subseteq Elems(s)
         /\ Solo(s) => Solo(Tail(s)) /\ Head(s) \notin Elems(Tail(s))
<1>1. /\ Len(s) \in Nat /\ Len(s) >= 1 /\ Head(s) = s[1] /\ Len(Tail(s)) = Len(s) - 1
      /\ \A i \in 1 .. Len(s) - 1 : Tail(s)[i] = s[i + 1] /\ i + 1 \in 1 .. Len(s)
  OBVIOUS
<1>2. Solo(s) => Solo(Tail(s)) BY <1>1 DEF Solo
<1>3. Solo(s) => \A i \in 1 .. Len(s) - 1 : s[i + 1] # s[1] BY <1>1 DEF Solo
<1>4. Solo(s) => Head(s) \notin Elems(Tail(s)) BY <1>1, <1>3 DEF Elems
<1> QED BY <1>1, <1>2, <1>4 DEF Elems

LEMMA PutsIn ==
  ASSUME NEW S, NEW s \in Seq(S), NEW m \in S
  PROVE  /\ Elems(Append(s, m)) = Elems(s) \union {m}
         /\ Solo(s) /\ m \notin Elems(s) => Solo(Append(s, m))
<1>1. /\ Len(s) \in Nat /\ Len(Append(s, m)) = Len(s) + 1 /\ Append(s, m)[Len(s) + 1] = m
      /\ \A i \in 1 .. Len(s) : Append(s, m)[i] = s[i]
      /\ \A i \in 1 .. Len(s) + 1 : i \in 1 .. Len(s) \/ i = Len(s) + 1
      /\ 1 .. Len(s) \subseteq 1 .. Len(s) + 1 /\ Len(s) + 1 \in 1 .. Len(s) + 1
  OBVIOUS
<1>2. Elems(Append(s, m)) \subseteq Elems(s) \union {m} BY <1>1 DEF Elems
<1>3. Elems(s) \union {m} \subseteq Elems(Append(s, m)) BY <1>1 DEF Elems
<1>4. ASSUME Solo(s), m \notin Elems(s) PROVE Solo(Append(s, m))
  <2>1. \A i \in 1 .. Len(s) : s[i] # m BY <1>4 DEF Elems
  <2> QED BY <1>1, <1>4, <2>1 DEF Solo
<1> QED BY <1>2, <1>3, <1>4

LEMMA WhereFinite ==
  ASSUME NEW S, NEW s \in Seq(S), NEW m
  PROVE  IsFiniteSet(Where(s, m)) /\ Cardinality(Where(s, m)) \in Nat
<1>1. IsFiniteSet(1 .. Len(s)) BY FS_Interval
<1>2. Where(s, m) \in SUBSET (1 .. Len(s)) BY DEF Where
<1> QED BY <1>1, <1>2, FS_Subset, FS_CardinalityType

(* A message taken off a queue is there once less, one put there once more. *)
LEMMA WhereTail ==
  ASSUME NEW S, NEW s \in Seq(S), s # <<>>, NEW m
  PROVE  Cardinality(Where(Tail(s), m)) + (IF Head(s) = m THEN 1 ELSE 0) <= Cardinality(Where(s, m))
<1> DEFINE W == Where(Tail(s), m)
           V == Where(s, m) \ {1}
           f == [i \in W |-> i + 1]
<1>1. /\ Len(s) \in Nat /\ Len(s) >= 1 /\ Head(s) = s[1] /\ Len(Tail(s)) = Len(s) - 1
      /\ \A i \in 1 .. Len(s) - 1 : Tail(s)[i] = s[i + 1]
  OBVIOUS
<1>2. f \in [W -> V] BY <1>1 DEF Where
<1>3. \A a, b \in W : f[a] = f[b] => a = b BY <1>1 DEF Where
<1>4. f \in Injection(W, V) BY <1>2, <1>3 DEF Injection, IsInjective
<1>5. IsFiniteSet(Where(s, m)) /\ Cardinality(Where(s, m)) \in Nat BY WhereFinite
<1>6. /\ IsFiniteSet(V)
      /\ Cardinality(V) = IF 1 \in Where(s, m) THEN Cardinality(Where(s, m)) - 1
                                               ELSE Cardinality(Where(s, m))
  BY <1>5, FS_RemoveElement
<1>7. Cardinality(W) <= Cardinality(V) BY <1>4, <1>6, FS_Injection
<1>8. Tail(s) \in Seq(S) OBVIOUS
<1>9. Cardinality(W) \in Nat BY <1>8, WhereFinite
<1>10. Head(s) = m => 1 \in Where(s, m) BY <1>1 DEF Where
<1> HIDE DEF W, V
<1>11. Cardinality(W) + (IF Head(s) = m THEN 1 ELSE 0) <= Cardinality(Where(s, m))
  BY <1>5, <1>6, <1>7, <1>9, <1>10
<1> QED BY <1>11 DEF W

LEMMA WhereAppend ==
  ASSUME NEW S, NEW s \in Seq(S), NEW k \in S, NEW m
  PROVE  Cardinality(Where(Append(s, k), m)) <= Cardinality(Where(s, m)) + (IF k = m THEN 1 ELSE 0)
<1> DEFINE n == Len(s) + 1
<1>1. /\ Len(s) \in Nat /\ Len(Append(s, k)) = n /\ Append(s, k)[n] = k
      /\ \A i \in 1 .. Len(s) : Append(s, k)[i] = s[i]
      /\ \A i \in 1 .. n : i \in 1 .. Len(s) \/ i = n
  OBVIOUS
<1>2. IsFiniteSet(Where(s, m)) /\ Cardinality(Where(s, m)) \in Nat BY WhereFinite
<1>3. CASE k # m
  <2>1. Where(Append(s, k), m) \subseteq Where(s, m) BY <1>1, <1>3 DEF Where
  <2>2. Cardinality(Where(Append(s, k), m)) <= Cardinality(Where(s, m)) BY <1>2, <2>1, FS_Subset
  <2>3. Append(s, k) \in Seq(S) OBVIOUS
  <2>4. Cardinality(Where(Append(s, k), m)) \in Nat BY <2>3, WhereFinite
  <2> QED BY <1>2, <1>3, <2>2, <2>4
<1>4. CASE k = m
  <2>1. Where(Append(s, k), m) \subseteq Where(s, m) \union {n} BY <1>1 DEF Where
  <2>2. n \notin Where(s, m) BY <1>1 DEF Where
  <2>3. /\ IsFiniteSet(Where(s, m) \union {n})
        /\ Cardinality(Where(s, m) \union {n}) = Cardinality(Where(s, m)) + 1
    BY <1>2, <2>2, FS_AddElement
  <2>4. Cardinality(Where(Append(s, k), m)) <= Cardinality(Where(s, m) \union {n})
    BY <2>1, <2>3, FS_Subset
  <2> QED BY <1>4, <2>3, <2>4
<1> QED BY <1>3, <1>4

-----------------------------------------------------------------------------
(* Types.                                                                  *)

(* SetRecvError moves at most one thread, out of RecvMsg's select.         *)
LEMMA WakeIs ==
  ASSUME NEW pc \in [Thread -> PCs], NEW pc2 \in Wake(pc)
  PROVE  /\ pc2 \in [Thread -> PCs]
         /\ \A t \in Thread : pc2[t] = "enq" <=> pc[t] = "enq"
  BY DEF Wake, PCs

LEMMA TypeInit == Init => TypeOK /\ EnqInv
<1> SUFFICES ASSUME Init PROVE TypeOK /\ EnqInv OBVIOUS
<1>1. 0 \in 0 .. MaxSurvey BY BoundAssumption
<1>2. \A S : <<>> \in Seq(S) OBVIOUS
<1>3. q \in [Peer -> Seq(Msg)] /\ uwq \in Seq(Msg) /\ urq \in Seq(Msg) BY <1>2 DEF Init
<1>4. /\ finite \in BOOLEAN /\ timed \in BOOLEAN /\ recverr \in BOOLEAN /\ closed \in BOOLEAN
  BY DEF Init
<1>5. got \in [Msg -> Nat] /\ atPeer \in [Peer -> SUBSET Msg] BY DEF Init
<1> QED BY <1>1, <1>3, <1>4, <1>5 DEF Init, TypeOK, EnqInv

LEMMA TypeStep == TypeOK /\ EnqInv /\ [Next]_vars => TypeOK' /\ EnqInv'
<1> SUFFICES ASSUME TypeOK, EnqInv, [Next]_vars PROVE TypeOK' /\ EnqInv' OBVIOUS
<1> USE BoundAssumption DEF TypeOK, EnqInv, recvVars, netVars, thrVars
<1>m. Msg \subseteq 0 .. MaxSurvey /\ \A m \in 0 .. MaxSurvey : m # 0 => m \in Msg BY DEF Msg
<1>p. PCs = {"idle", "enq", "rtop", "rgap", "rsel"} BY DEF PCs
<1>1. CASE UNCHANGED vars BY <1>1 DEF vars
<1>2. ASSUME NEW t \in Thread, SendCall(t) PROVE TypeOK' /\ EnqInv'
  <2>1. survey + 1 \in 0 .. MaxSurvey /\ survey + 1 # 0 BY <1>2 DEF SendCall
  <2> DEFINE pc == [tpc EXCEPT ![t] = "enq"]
  <2>2. pc \in [Thread -> PCs] /\ \A u \in Thread : u # t => pc[u] = tpc[u] BY <1>p
  <2>w. tpc' \in Wake(pc) BY <1>2 DEF SendCall
  <2> HIDE DEF pc
  <2>3. /\ tpc' \in [Thread -> PCs]
        /\ \A u \in Thread : u # t => (tpc'[u] = "enq" <=> tpc[u] = "enq")
    BY <2>2, <2>w, WakeIs
  <2>4. tm' \in [Thread -> 0 .. MaxSurvey] BY <1>2, <2>1 DEF SendCall
  <2>5. EnqInv' BY <1>2, <2>1, <2>3 DEF SendCall
  <2>6. timer' \in 0 .. MaxSurvey BY <1>2, <2>1 DEF SendCall, ResetTimer
  <2> QED BY <1>2, <1>p, <2>1, <2>3, <2>4, <2>5, <2>6 DEF SendCall
<1>3. ASSUME NEW t \in Thread, SendEnd(t) PROVE TypeOK' /\ EnqInv'
  <2>1. tm[t] \in Msg BY <1>3, <1>m DEF SendEnd
  <2>2. Append(uwq, tm[t]) \in Seq(Msg) BY <2>1, QueueType
  <2>3. /\ tpc' \in [Thread -> {"idle", "enq", "rtop", "rgap", "rsel"}]
        /\ tm' \in [Thread -> 0 .. MaxSurvey] /\ EnqInv'
    BY <1>3 DEF SendEnd
  <2> QED BY <1>3, <2>2, <2>3 DEF SendEnd
<1>4. ASSUME NEW t \in Thread, RecvCall(t) PROVE TypeOK' /\ EnqInv' BY <1>4 DEF RecvCall
<1>5. ASSUME NEW t \in Thread, RecvTop(t) PROVE TypeOK' /\ EnqInv' BY <1>5 DEF RecvTop
<1>6. ASSUME NEW t \in Thread, RecvPark(t) PROVE TypeOK' /\ EnqInv' BY <1>6 DEF RecvPark
<1>7. ASSUME NEW t \in Thread, RecvTake(t) PROVE TypeOK' /\ EnqInv'
  <2>1. Head(urq) \in Msg /\ Tail(urq) \in Seq(Msg) BY <1>7, QueueType DEF RecvTake
  <2>2. got[Head(urq)] + 1 \in Nat BY <2>1
  <2>3. got' \in [Msg -> Nat] BY <1>7, <2>1, <2>2 DEF RecvTake
  <2>4. tpc' \in [Thread -> {"idle", "enq", "rtop", "rgap", "rsel"}] /\ EnqInv'
    BY <1>7 DEF RecvTake
  <2> QED BY <1>7, <2>1, <2>3, <2>4 DEF RecvTake
<1>8. ASSUME NEW t \in Thread, RecvAbort(t) PROVE TypeOK' /\ EnqInv' BY <1>8 DEF RecvAbort
<1>9. CASE TimerFire
  <2>1. timer \in Msg BY <1>9, <1>m DEF TimerFire
  <2> QED BY <1>9, <2>1 DEF TimerFire
<1>10. ASSUME NEW m \in Msg, Callback(m) PROVE TypeOK' /\ EnqInv'
  <2>1. tpc' \in [Thread -> PCs] /\ \A u \in Thread : tpc'[u] = "enq" <=> tpc[u] = "enq"
    BY <1>10, <1>p, WakeIs, ZenonT(30) DEF Callback
  <2> QED BY <1>10, <1>p, <2>1 DEF Callback
<1>11. CASE SetSurveyTime BY <1>11 DEF SetSurveyTime
<1>12. ASSUME NEW p \in Peer, AddEndpoint(p) PROVE TypeOK' /\ EnqInv' BY <1>12 DEF AddEndpoint
<1>13. ASSUME NEW p \in Peer, PipeDown(p) PROVE TypeOK' /\ EnqInv' BY <1>13 DEF PipeDown
<1>14. CASE Shutdown \/ Close BY <1>14 DEF Shutdown, Close
<1>15. CASE Broadcast
  <2>1. Head(uwq) \in Msg /\ Tail(uwq) \in Seq(Msg) BY <1>15, QueueType DEF Broadcast
  <2>2. \A p \in Peer : q[p] \in Seq(Msg) /\ Append(q[p], Head(uwq)) \in Seq(Msg)
    BY <2>1, QueueType
  <2>3. q' \in [Peer -> Seq(Msg)] BY <1>15, <2>2 DEF Broadcast
  <2> QED BY <1>15, <2>1, <2>3 DEF Broadcast
<1>16. CASE SenderExit BY <1>16 DEF SenderExit
<1>17. ASSUME NEW p \in Peer, PeerTake(p) PROVE TypeOK' /\ EnqInv'
  <2>1. Head(q[p]) \in 0 .. MaxSurvey /\ Tail(q[p]) \in Seq(Msg)
    BY <1>17, <1>m, QueueType DEF PeerTake
  <2> QED BY <1>17, <2>1 DEF PeerTake
<1>18. ASSUME NEW p \in Peer, PeerSend(p) PROVE TypeOK' /\ EnqInv'
  <2>1. out[p] \in Msg BY <1>18, <1>m DEF PeerSend
  <2>2. atPeer' \in [Peer -> SUBSET Msg] /\ out' \in [Peer -> 0 .. MaxSurvey]
    BY <1>18, <2>1 DEF PeerSend
  <2> QED BY <1>18, <2>2 DEF PeerSend
<1>19. ASSUME NEW p \in Peer, NEW m \in Msg, Respond(p, m) PROVE TypeOK' /\ EnqInv'
  BY <1>19, <1>m DEF Respond
<1>20. ASSUME NEW p \in Peer, RcvPush(p) PROVE TypeOK' /\ EnqInv'
  <2>1. rcv[p] \in Msg BY <1>20, <1>m DEF RcvPush, RcvReady
  <2>2. Append(urq, rcv[p]) \in Seq(Msg) BY <2>1, QueueType
  <2>3. urq' \in Seq(Msg) /\ ended' \subseteq Peer \union {"sender"} BY <1>20, <2>2 DEF RcvPush
  <2> QED BY <1>20, <2>3 DEF RcvPush, RcvDone
<1> QED
  BY <1>1, <1>2, <1>3, <1>4, <1>5, <1>6, <1>7, <1>8, <1>9, <1>10, <1>11, <1>12, <1>13, <1>14,
     <1>15, <1>16, <1>17, <1>18, <1>19, <1>20
  DEF Next, RecvStep, PeerStep

(* Every variable of the SURVEYOR socket has its type, in every state that *)
(* it reaches.                                                             *)
THEOREM TypeCorrect == SafeSpec => [](TypeOK /\ EnqInv)
  BY TypeInit, TypeStep, PTL DEF SafeSpec

-----------------------------------------------------------------------------
(* A response that RecvMsg hands over belongs to the latest survey, as     *)
(* RecvHook's comparison of ids says for as long as ids do not come round: *)
(* the surveys are fewer than the ids.                                     *)
THEOREM OnlyLatest == SafeSpec => ResponseToLatest
<1>1. TypeOK /\ [Next]_vars => [\A m \in Msg : got'[m] # got[m] => m = survey]_vars
  <2> SUFFICES ASSUME TypeOK, [Next]_vars, NEW m \in Msg, got'[m] # got[m] PROVE m = survey
    OBVIOUS
  <2>1. ASSUME NEW t \in Thread, RecvTake(t) PROVE m = survey
    <3>1. urq \in Seq(Msg) /\ urq # <<>> BY <2>1 DEF TypeOK, RecvTake
    <3>2. Head(urq) \in Msg BY <3>1, QueueType
    <3>3. m = Head(urq) /\ Accepts(m) BY <2>1, <3>2 DEF RecvTake, TypeOK
    <3>4. m \in 0 .. IdSpace - 1 /\ survey \in 0 .. IdSpace - 1 BY BoundAssumption DEF TypeOK, Msg
    <3>5. \A i \in 0 .. IdSpace - 1 : i % IdSpace = i BY BoundAssumption
    <3> QED BY <3>3, <3>4, <3>5 DEF Accepts, Id
  <2>2. (\A t \in Thread : ~RecvTake(t)) => UNCHANGED got
    BY DEF Next, vars, recvVars, RecvStep, PeerStep, SendCall, SendEnd, RecvCall, RecvTop, RecvPark,
           RecvAbort, TimerFire, SetSurveyTime, Broadcast, SenderExit, Close, Shutdown, Callback,
           AddEndpoint, PipeDown, PeerTake, PeerSend, RcvPush, Respond
  <2> QED BY <2>1, <2>2
<1> QED BY <1>1, TypeCorrect, PTL DEF SafeSpec, ResponseToLatest

-----------------------------------------------------------------------------
(* Counting.                                                               *)

LEMMA DueFinite ==
  ASSUME NEW m
  PROVE  /\ IsFiniteSet(Due(m)) /\ Cardinality(Due(m)) \in Nat
         /\ Due(m) \subseteq Peer /\ Cardinality(Due(m)) <= Cardinality(Peer)
         /\ Cardinality(Peer) \in Nat
<1>1. IsFiniteSet(Peer) BY BoundAssumption
<1>2. Due(m) \in SUBSET Peer BY DEF Due
<1> QED BY <1>1, <1>2, FS_Subset, FS_CardinalityType

(* A step that hands nothing over or up, and gives no peer a survey again. *)
LEMMA CountShrinks ==
  ASSUME TypeOK, CountInv, UNCHANGED <<got, urq>>, \A m \in Msg : Due(m)' \subseteq Due(m)
  PROVE  CountInv'
<1> SUFFICES ASSUME NEW m \in Msg
             PROVE  got'[m] + Cardinality(Waiting(m)') + Cardinality(Due(m)') <= Cardinality(Peer)
  BY DEF CountInv
<1>1. got[m] + Cardinality(Waiting(m)) + Cardinality(Due(m)) <= Cardinality(Peer) BY DEF CountInv
<1>2. got'[m] = got[m] /\ Waiting(m)' = Waiting(m) BY DEF Waiting
<1>3. got[m] \in Nat /\ Cardinality(Waiting(m)) \in Nat BY WhereFinite DEF TypeOK, Waiting
<1>4. IsFiniteSet(Due(m)) /\ Cardinality(Due(m)) \in Nat /\ Cardinality(Peer) \in Nat BY DueFinite
<1>5. Due(m)' \in SUBSET Due(m) OBVIOUS
<1>6. IsFiniteSet(Due(m)') /\ Cardinality(Due(m)') <= Cardinality(Due(m)) BY <1>4, <1>5, FS_Subset
<1>7. Cardinality(Due(m)') \in Nat BY <1>6, FS_CardinalityType
<1> QED BY <1>1, <1>2, <1>3, <1>4, <1>6, <1>7

(* Surveys keep their places, or go on to the next.                        *)
LEMMA Shrinks ==
  ASSUME TypeOK, SurveyInv, UNCHANGED <<got, urq>>, EarlyInv', PeerInv',
         \A m \in Msg : Early(m)' => Early(m),
         \A m \in Msg : \A p \in Peer : AtPeer(p, m)' => AtPeer(p, m) \/ Early(m)
  PROVE  SurveyInv'
<1>1. \A m \in Msg : Due(m)' \subseteq Due(m) BY DEF Due
<1> QED BY <1>1, CountShrinks DEF SurveyInv

(* Threads come and go, but for those that have a survey in hand.          *)
LEMMA Quiet ==
  ASSUME TypeOK, SurveyInv, UNCHANGED <<survey, got, uwq, urq, q, out, atPeer, rcv, tm>>,
         \A t \in Thread : tpc'[t] = "enq" <=> tpc[t] = "enq"
  PROVE  SurveyInv'
<1>1. \A m \in Msg : (Early(m)' <=> Early(m)) /\ \A p \in Peer : AtPeer(p, m)' <=> AtPeer(p, m)
  BY DEF Early, InHand, AtPeer
<1>2. EarlyInv' BY <1>1 DEF SurveyInv, EarlyInv
<1>3. PeerInv' BY DEF SurveyInv, PeerInv
<1> QED BY <1>1, <1>2, <1>3, Shrinks

LEMMA CallStep == ASSUME TypeOK, SurveyInv, NEW t \in Thread, SendCall(t) PROVE SurveyInv'
<1> USE DEF recvVars, netVars, thrVars
<1> DEFINE pc == [tpc EXCEPT ![t] = "enq"]
<1>1. pc \in [Thread -> PCs] /\ pc[t] = "enq" /\ \A u \in Thread : u # t => pc[u] = tpc[u]
  BY DEF TypeOK, PCs
<1>2. tpc' \in Wake(pc) BY DEF SendCall
<1> HIDE DEF pc
<1>3. tpc'[t] = "enq" /\ \A u \in Thread : u # t => (tpc'[u] = "enq" <=> tpc[u] = "enq")
  BY <1>1, <1>2, WakeIs
<1>4. /\ survey \in Nat /\ survey' = survey + 1 /\ tm' = [tm EXCEPT ![t] = survey + 1]
      /\ UNCHANGED <<got, uwq, urq, q, out, atPeer, rcv>> /\ tpc[t] = "idle"
      /\ tm \in [Thread -> Nat]
  BY BoundAssumption DEF SendCall, TypeOK
<1>5. \A m \in Msg : m \in Nat BY DEF Msg
<1>6. \A m \in Msg : Early(m)' => Early(m) BY <1>3, <1>4, <1>5 DEF Early, InHand
<1>7. \A m \in Msg : \A p \in Peer : AtPeer(p, m)' <=> AtPeer(p, m) BY <1>4 DEF AtPeer
<1>8. uwq \in Seq(Nat) /\ Elems(uwq) \subseteq Nat
  <2>1. uwq \in Seq(Nat) BY BoundAssumption DEF TypeOK, Msg
  <2> QED BY <2>1 DEF Elems
<1>9. EarlyInv'
  <2>1. \A u \in Thread : tpc'[u] = "enq" => tm'[u] <= survey' /\ tm'[u] \notin Elems(uwq')
    BY <1>3, <1>4, <1>8 DEF SurveyInv, EarlyInv
  <2>2. \A u, v \in Thread : tpc'[u] = "enq" /\ tpc'[v] = "enq" /\ tm'[u] = tm'[v] => u = v
    BY <1>3, <1>4 DEF SurveyInv, EarlyInv
  <2>3. Solo(uwq') /\ \A m \in Elems(uwq') : m <= survey'
    BY <1>4, <1>8 DEF SurveyInv, EarlyInv
  <2>4. \A m \in Msg : Early(m)' => \A p \in Peer : ~AtPeer(p, m)'
    BY <1>6, <1>7 DEF SurveyInv, EarlyInv
  <2> QED BY <2>1, <2>2, <2>3, <2>4 DEF EarlyInv
<1>10. PeerInv' BY <1>4 DEF SurveyInv, PeerInv
<1> QED BY <1>4, <1>6, <1>7, <1>9, <1>10, Shrinks

LEMMA SendStep == ASSUME TypeOK, EnqInv, SurveyInv, NEW t \in Thread, SendEnd(t) PROVE SurveyInv'
<1> USE DEF recvVars, netVars, thrVars
<1> DEFINE k == tm[t]
<1>1. /\ tpc[t] = "enq" /\ tpc' = [tpc EXCEPT ![t] = "idle"] /\ tm' = [tm EXCEPT ![t] = 0]
      /\ uwq' = Append(uwq, k) \/ uwq' = uwq
      /\ UNCHANGED <<survey, got, urq, q, out, atPeer, rcv>>
  BY DEF SendEnd
<1>2. k \in Msg /\ uwq \in Seq(Msg) BY <1>1 DEF TypeOK, EnqInv, Msg
<1>3. Solo(uwq) /\ k \notin Elems(uwq) /\ k <= survey BY <1>1 DEF SurveyInv, EarlyInv
<1>4. Elems(uwq') \subseteq Elems(uwq) \union {k} /\ Solo(uwq')
  <2>1. Elems(Append(uwq, k)) = Elems(uwq) \union {k} /\ Solo(Append(uwq, k))
    BY <1>2, <1>3, PutsIn
  <2> QED BY <1>1, <1>3, <2>1
<1>5. /\ \A u \in Thread : u # t => tpc'[u] = tpc[u] /\ tm'[u] = tm[u]
      /\ tpc'[t] = "idle"
  BY <1>1 DEF TypeOK
<1>6. \A m \in Msg : Early(m)' => Early(m) BY <1>1, <1>4, <1>5 DEF Early, InHand
<1>7. \A m \in Msg : \A p \in Peer : AtPeer(p, m)' <=> AtPeer(p, m) BY <1>1 DEF AtPeer
<1>8. EarlyInv'
  <2>1. \A u \in Thread : tpc'[u] = "enq" => tm'[u] <= survey' /\ tm'[u] \notin Elems(uwq')
    BY <1>1, <1>4, <1>5 DEF SurveyInv, EarlyInv
  <2>2. \A u, v \in Thread : tpc'[u] = "enq" /\ tpc'[v] = "enq" /\ tm'[u] = tm'[v] => u = v
    BY <1>5 DEF SurveyInv, EarlyInv
  <2>3. Solo(uwq') /\ \A m \in Elems(uwq') : m <= survey'
    BY <1>1, <1>3, <1>4 DEF SurveyInv, EarlyInv
  <2>4. \A m \in Msg : Early(m)' => \A p \in Peer : ~AtPeer(p, m)'
    BY <1>6, <1>7 DEF SurveyInv, EarlyInv
  <2> QED BY <2>1, <2>2, <2>3, <2>4 DEF EarlyInv
<1>9. PeerInv' BY <1>1 DEF SurveyInv, PeerInv
<1> QED BY <1>1, <1>6, <1>7, <1>8, <1>9, Shrinks

LEMMA BroadcastStep == ASSUME TypeOK, SurveyInv, Broadcast PROVE SurveyInv'
<1> USE DEF recvVars, netVars, thrVars
<1> DEFINE k == Head(uwq)
<1>1. /\ uwq # <<>> /\ uwq' = Tail(uwq)
      /\ \A p \in Peer : q'[p] = q[p] \/ q'[p] = Append(q[p], k)
      /\ UNCHANGED <<survey, got, urq, out, atPeer, rcv, tpc, tm>>
  BY DEF Broadcast
<1>2. uwq \in Seq(Msg) /\ \A p \in Peer : q[p] \in Seq(Msg) BY DEF TypeOK
<1>3. k \in Msg BY <1>1, <1>2, QueueType
<1>4. Solo(uwq) BY DEF SurveyInv, EarlyInv
<1>5. /\ k \in Elems(uwq) /\ Elems(uwq') \subseteq Elems(uwq)
      /\ Solo(uwq') /\ k \notin Elems(uwq')
  BY <1>1, <1>2, <1>4, TakesOut
<1> HIDE DEF k
<1>6. Early(k) /\ \A p \in Peer : ~AtPeer(p, k) BY <1>3, <1>5 DEF SurveyInv, EarlyInv, Early
<1>7. \A m \in Msg : m = k => ~Early(m)'
  <2>1. ~(k > survey) BY <1>3, <1>5, BoundAssumption DEF SurveyInv, EarlyInv, TypeOK, Msg
  <2>2. ~InHand(k) BY <1>5 DEF SurveyInv, EarlyInv, InHand
  <2> QED BY <1>1, <1>5, <2>1, <2>2 DEF Early, InHand
<1>8. \A m \in Msg : Early(m)' => Early(m) BY <1>1, <1>5 DEF Early, InHand
<1>9. \A p \in Peer : /\ Elems(q'[p]) \subseteq Elems(q[p]) \union {k}
                      /\ Solo(q'[p])
  <2> SUFFICES ASSUME NEW p \in Peer
               PROVE  Elems(q'[p]) \subseteq Elems(q[p]) \union {k} /\ Solo(q'[p])
    OBVIOUS
  <2>1. Solo(q[p]) /\ k \notin Elems(q[p]) BY <1>6 DEF SurveyInv, PeerInv, AtPeer
  <2>2. Elems(Append(q[p], k)) = Elems(q[p]) \union {k} /\ Solo(Append(q[p], k))
    BY <1>2, <1>3, <2>1, PutsIn
  <2> QED BY <1>1, <2>1, <2>2
<1>10. \A m \in Msg : \A p \in Peer : AtPeer(p, m)' => AtPeer(p, m) \/ m = k
  BY <1>1, <1>9 DEF AtPeer
<1>11. EarlyInv'
  <2>1. \A u \in Thread : tpc'[u] = "enq" => tm'[u] <= survey' /\ tm'[u] \notin Elems(uwq')
    BY <1>1, <1>5 DEF SurveyInv, EarlyInv
  <2>2. \A u, v \in Thread : tpc'[u] = "enq" /\ tpc'[v] = "enq" /\ tm'[u] = tm'[v] => u = v
    BY <1>1 DEF SurveyInv, EarlyInv
  <2>3. Solo(uwq') /\ \A m \in Elems(uwq') : m <= survey'
    BY <1>1, <1>5 DEF SurveyInv, EarlyInv
  <2>4. \A m \in Msg : Early(m)' => \A p \in Peer : ~AtPeer(p, m)'
    BY <1>7, <1>8, <1>10 DEF SurveyInv, EarlyInv
  <2> QED BY <2>1, <2>2, <2>3, <2>4 DEF EarlyInv
<1>12. PeerInv'
  <2> SUFFICES ASSUME NEW p \in Peer
               PROVE  /\ Solo(q'[p]) /\ out'[p] \notin Elems(q'[p]) /\ rcv'[p] \notin Elems(q'[p])
                      /\ atPeer'[p] \intersect Elems(q'[p]) = {}
                      /\ out'[p] \notin atPeer'[p] /\ rcv'[p] \notin atPeer'[p]
                      /\ (out'[p] = rcv'[p] => out'[p] = 0)
    BY DEF PeerInv
  <2>1. k # out[p] /\ k # rcv[p] /\ k \notin atPeer[p] BY <1>6 DEF AtPeer
  <2>2. UNCHANGED <<out, rcv, atPeer>> BY <1>1
  <2> QED BY <1>9, <2>1, <2>2 DEF SurveyInv, PeerInv
<1> QED BY <1>1, <1>6, <1>8, <1>10, <1>11, <1>12, Shrinks

(* What one connection does, short of passing a response up.               *)
LEMMA PeerStepInv ==
  ASSUME TypeOK, SurveyInv, NEW p \in Peer,
         UNCHANGED <<survey, got, uwq, urq, tpc, tm>>,
         \A r \in Peer \ {p} : /\ q'[r] = q[r] /\ out'[r] = out[r]
                               /\ atPeer'[r] = atPeer[r] /\ rcv'[r] = rcv[r],
         \A m \in Msg : AtPeer(p, m)' => AtPeer(p, m),
         /\ Solo(q'[p]) /\ out'[p] \notin Elems(q'[p]) /\ rcv'[p] \notin Elems(q'[p])
         /\ atPeer'[p] \intersect Elems(q'[p]) = {}
         /\ out'[p] \notin atPeer'[p] /\ rcv'[p] \notin atPeer'[p]
         /\ (out'[p] = rcv'[p] => out'[p] = 0)
  PROVE  SurveyInv'
<1>1. \A m \in Msg : Early(m)' <=> Early(m) BY DEF Early, InHand
<1>2. \A m \in Msg : \A r \in Peer : AtPeer(r, m)' => AtPeer(r, m) BY DEF AtPeer
<1>3. EarlyInv' BY <1>1, <1>2 DEF SurveyInv, EarlyInv
<1>4. PeerInv' BY DEF SurveyInv, PeerInv
<1> QED BY <1>1, <1>2, <1>3, <1>4, Shrinks

LEMMA ConnStep ==
  ASSUME TypeOK, SurveyInv, NEW p \in Peer,
         PipeDown(p) \/ PeerTake(p) \/ PeerSend(p) \/ \E m \in Msg : Respond(p, m)
  PROVE  SurveyInv'
<1> USE DEF recvVars, netVars, thrVars
<1>t. /\ q \in [Peer -> Seq(Msg)] /\ out \in [Peer -> 0 .. MaxSurvey]
      /\ atPeer \in [Peer -> SUBSET Msg] /\ rcv \in [Peer -> 0 .. MaxSurvey]
      /\ 0 \notin Msg
  BY DEF TypeOK, Msg
<1>i. /\ Solo(q[p]) /\ out[p] \notin Elems(q[p]) /\ rcv[p] \notin Elems(q[p])
      /\ atPeer[p] \intersect Elems(q[p]) = {}
      /\ out[p] \notin atPeer[p] /\ rcv[p] \notin atPeer[p] /\ (out[p] = rcv[p] => out[p] = 0)
  BY DEF SurveyInv, PeerInv
<1>z. 0 \notin Elems(q[p])
  <2>1. \A i \in 1 .. Len(q[p]) : q[p][i] \in Msg BY <1>t
  <2> QED BY <1>t, <2>1 DEF Elems
<1>1. CASE PipeDown(p)
  <2>1. atPeer' = [atPeer EXCEPT ![p] = {}]
        /\ UNCHANGED <<survey, got, uwq, urq, tpc, tm, q, out, rcv>>
    BY <1>1 DEF PipeDown
  <2>2. \A m \in Msg : AtPeer(p, m)' => AtPeer(p, m) BY <1>t, <2>1 DEF AtPeer
  <2> QED BY <1>t, <1>i, <2>1, <2>2, PeerStepInv
<1>2. CASE PeerTake(p)
  <2>1. /\ q[p] # <<>> /\ out' = [out EXCEPT ![p] = Head(q[p])]
        /\ q' = [q EXCEPT ![p] = Tail(q[p])]
        /\ UNCHANGED <<survey, got, uwq, urq, tpc, tm, atPeer, rcv>>
    BY <1>2 DEF PeerTake
  <2>2. q[p] \in Seq(Msg) BY <1>t
  <2>3. /\ Head(q[p]) \in Elems(q[p]) /\ Elems(Tail(q[p])) \subseteq Elems(q[p])
        /\ Solo(Tail(q[p])) /\ Head(q[p]) \notin Elems(Tail(q[p]))
    BY <1>i, <2>1, <2>2, TakesOut
  <2>4. q'[p] = Tail(q[p]) /\ out'[p] = Head(q[p]) /\ atPeer'[p] = atPeer[p] /\ rcv'[p] = rcv[p]
    BY <1>t, <2>1
  <2>5. \A m \in Msg : AtPeer(p, m)' => AtPeer(p, m) BY <2>3, <2>4 DEF AtPeer
  <2>6. \A r \in Peer \ {p} : /\ q'[r] = q[r] /\ out'[r] = out[r]
                              /\ atPeer'[r] = atPeer[r] /\ rcv'[r] = rcv[r]
    BY <1>t, <2>1
  <2>7. /\ Solo(q'[p]) /\ out'[p] \notin Elems(q'[p]) /\ rcv'[p] \notin Elems(q'[p])
        /\ atPeer'[p] \intersect Elems(q'[p]) = {}
        /\ out'[p] \notin atPeer'[p] /\ rcv'[p] \notin atPeer'[p]
        /\ (out'[p] = rcv'[p] => out'[p] = 0)
    BY <1>i, <2>3, <2>4
  <2> QED BY <2>1, <2>5, <2>6, <2>7, PeerStepInv
<1>3. CASE PeerSend(p)
  <2>1. /\ atPeer' = [atPeer EXCEPT ![p] = @ \union {out[p]}] /\ out' = [out EXCEPT ![p] = 0]
        /\ UNCHANGED <<survey, got, uwq, urq, tpc, tm, q, rcv>> /\ out[p] # 0
    BY <1>3 DEF PeerSend
  <2>2. \A m \in Msg : AtPeer(p, m)' => AtPeer(p, m) BY <1>t, <2>1 DEF AtPeer
  <2>3. atPeer'[p] = atPeer[p] \union {out[p]} /\ out'[p] = 0 BY <1>t, <2>1
  <2>4. /\ out'[p] \notin Elems(q'[p]) /\ out'[p] \notin atPeer'[p] /\ rcv'[p] \notin atPeer'[p]
        /\ atPeer'[p] \intersect Elems(q'[p]) = {}
    BY <1>t, <1>i, <1>z, <2>1, <2>3
  <2> QED BY <1>t, <1>i, <2>1, <2>2, <2>3, <2>4, PeerStepInv
<1>4. ASSUME NEW k \in Msg, Respond(p, k) PROVE SurveyInv'
  <2>1. /\ atPeer' = [atPeer EXCEPT ![p] = @ \ {k}] /\ rcv' = [rcv EXCEPT ![p] = k]
        /\ UNCHANGED <<survey, got, uwq, urq, tpc, tm, q, out>> /\ k \in atPeer[p]
    BY <1>4 DEF Respond
  <2>2. \A m \in Msg : AtPeer(p, m)' => AtPeer(p, m) BY <1>t, <2>1 DEF AtPeer
  <2>3. atPeer'[p] = atPeer[p] \ {k} /\ rcv'[p] = k BY <1>t, <2>1
  <2> QED BY <1>t, <1>i, <2>1, <2>2, <2>3, PeerStepInv
<1> QED BY <1>1, <1>2, <1>3, <1>4

(* A response that goes up is due no more.                                 *)
LEMMA PushStep == ASSUME TypeOK, SurveyInv, NEW p \in Peer, RcvPush(p) PROVE SurveyInv'
<1> USE DEF recvVars, netVars, thrVars
<1>t. /\ rcv \in [Peer -> 0 .. MaxSurvey] /\ urq \in Seq(Msg) /\ got \in [Msg -> Nat]
      /\ 0 \notin Msg
  BY DEF TypeOK, Msg
<1>1. /\ rcv[p] # 0 /\ rcv' = [rcv EXCEPT ![p] = 0]
      /\ urq' = Append(urq, rcv[p]) \/ urq' = urq
      /\ UNCHANGED <<survey, got, uwq, tpc, tm, q, out, atPeer>>
  BY DEF RcvPush, RcvReady, RcvDone
<1>2. PICK k \in Msg : k = rcv[p] BY <1>1 DEF TypeOK, Msg
<1>i. /\ Solo(q[p]) /\ out[p] \notin Elems(q[p]) /\ rcv[p] \notin Elems(q[p])
      /\ atPeer[p] \intersect Elems(q[p]) = {}
      /\ out[p] \notin atPeer[p] /\ rcv[p] \notin atPeer[p] /\ (out[p] = rcv[p] => out[p] = 0)
  BY DEF SurveyInv, PeerInv
<1>z. 0 \notin Elems(q[p]) /\ 0 \notin atPeer[p]
  <2>1. q[p] \in Seq(Msg) /\ atPeer[p] \subseteq Msg BY DEF TypeOK
  <2>2. \A i \in 1 .. Len(q[p]) : q[p][i] \in Msg BY <2>1
  <2> QED BY <1>t, <2>1, <2>2 DEF Elems
<1>3. rcv'[p] = 0 /\ \A r \in Peer : r # p => rcv'[r] = rcv[r] BY <1>t, <1>1
<1>4. \A m \in Msg : Early(m)' <=> Early(m) BY <1>1 DEF Early, InHand
<1>5. \A m \in Msg : \A r \in Peer : AtPeer(r, m)' => AtPeer(r, m) BY <1>t, <1>1, <1>3 DEF AtPeer
<1>6. EarlyInv' BY <1>1, <1>4, <1>5 DEF SurveyInv, EarlyInv
<1>7. PeerInv'
  <2>1. \A r \in Peer : r # p => rcv'[r] = rcv[r] BY <1>3
  <2>2. /\ Solo(q'[p]) /\ out'[p] \notin Elems(q'[p]) /\ rcv'[p] \notin Elems(q'[p])
        /\ atPeer'[p] \intersect Elems(q'[p]) = {}
        /\ out'[p] \notin atPeer'[p] /\ rcv'[p] \notin atPeer'[p]
        /\ (out'[p] = rcv'[p] => out'[p] = 0)
    BY <1>1, <1>3, <1>i, <1>z
  <2> QED BY <1>1, <2>1, <2>2 DEF SurveyInv, PeerInv
<1>8. \A m \in Msg : Due(m)' \subseteq Due(m) BY <1>4, <1>5 DEF Due
<1>9. ASSUME NEW m \in Msg, m = k PROVE p \in Due(m) /\ p \notin Due(m)'
  <2>1. AtPeer(p, m) BY <1>2, <1>9 DEF AtPeer
  <2>2. ~Early(m) BY <2>1 DEF SurveyInv, EarlyInv
  <2>3. ~AtPeer(p, m)' BY <1>1, <1>2, <1>3, <1>9, <1>i, <1>t DEF AtPeer
  <2> QED BY <1>4, <2>1, <2>2, <2>3 DEF Due
<1>10. CountInv'
  <2> SUFFICES ASSUME NEW m \in Msg
               PROVE  got'[m] + Cardinality(Waiting(m)') + Cardinality(Due(m)') <= Cardinality(Peer)
    BY DEF CountInv
  <2>1. got[m] + Cardinality(Waiting(m)) + Cardinality(Due(m)) <= Cardinality(Peer)
    BY DEF SurveyInv, CountInv
  <2>2. IsFiniteSet(Due(m)) /\ Cardinality(Due(m)) \in Nat /\ Cardinality(Peer) \in Nat BY DueFinite
  <2>3. Due(m)' \in SUBSET Due(m) BY <1>8
  <2>4. IsFiniteSet(Due(m)') /\ Cardinality(Due(m)') <= Cardinality(Due(m)) BY <2>2, <2>3, FS_Subset
  <2>5. Cardinality(Due(m)') \in Nat BY <2>4, FS_CardinalityType
  <2>6. m = k => Cardinality(Due(m)') <= Cardinality(Due(m)) - 1
    <3> SUFFICES ASSUME m = k PROVE Cardinality(Due(m)') <= Cardinality(Due(m)) - 1 OBVIOUS
    <3>1. p \in Due(m) /\ Due(m)' \in SUBSET (Due(m) \ {p}) BY <1>9, <2>3
    <3>2. IsFiniteSet(Due(m) \ {p}) /\ Cardinality(Due(m) \ {p}) = Cardinality(Due(m)) - 1
      BY <2>2, <3>1, FS_RemoveElement
    <3> QED BY <3>1, <3>2, FS_Subset
  <2>7. /\ Cardinality(Waiting(m)) \in Nat
        /\ Cardinality(Where(Append(urq, k), m)) <= Cardinality(Waiting(m)) + (IF k = m THEN 1 ELSE 0)
    BY <1>t, WhereFinite, WhereAppend DEF Waiting
  <2>8. Append(urq, k) \in Seq(Msg) BY <1>t
  <2>9. Cardinality(Where(Append(urq, k), m)) \in Nat BY <2>8, WhereFinite
  <2>10. Waiting(m)' = Waiting(m) \/ Waiting(m)' = Where(Append(urq, k), m)
    BY <1>1, <1>2 DEF Waiting
  <2>11. got'[m] = got[m] /\ got[m] \in Nat BY <1>1, <1>t
  <2> QED BY <2>1, <2>2, <2>4, <2>5, <2>6, <2>7, <2>9, <2>10, <2>11
<1> QED BY <1>6, <1>7, <1>10 DEF SurveyInv

LEMMA TakeStep == ASSUME TypeOK, SurveyInv, NEW t \in Thread, RecvTake(t) PROVE SurveyInv'
<1> USE DEF recvVars, netVars, thrVars
<1>t. urq \in Seq(Msg) /\ got \in [Msg -> Nat] BY DEF TypeOK
<1>1. /\ urq # <<>> /\ urq' = Tail(urq)
      /\ got' = [got EXCEPT ![Head(urq)] = @ + 1] \/ got' = got
      /\ \A u \in Thread : tpc'[u] = "enq" <=> tpc[u] = "enq"
      /\ UNCHANGED <<survey, uwq, tm, q, out, atPeer, rcv>>
  BY DEF RecvTake, TypeOK
<1>2. PICK k \in Msg : k = Head(urq) BY <1>t, <1>1, QueueType
<1>3. \A m \in Msg : (Early(m)' <=> Early(m)) /\ \A p \in Peer : AtPeer(p, m)' <=> AtPeer(p, m)
  BY <1>1 DEF Early, InHand, AtPeer
<1>4. EarlyInv' BY <1>1, <1>3 DEF SurveyInv, EarlyInv
<1>5. PeerInv' BY <1>1 DEF SurveyInv, PeerInv
<1>6. CountInv'
  <2> SUFFICES ASSUME NEW m \in Msg
               PROVE  got'[m] + Cardinality(Waiting(m)') + Cardinality(Due(m)') <= Cardinality(Peer)
    BY DEF CountInv
  <2>1. got[m] + Cardinality(Waiting(m)) + Cardinality(Due(m)) <= Cardinality(Peer)
    BY DEF SurveyInv, CountInv
  <2>2. Due(m)' = Due(m) /\ Cardinality(Due(m)) \in Nat /\ Cardinality(Peer) \in Nat
    BY <1>3, DueFinite DEF Due
  <2>3. Waiting(m)' = Where(Tail(urq), m) /\ Tail(urq) \in Seq(Msg) BY <1>t, <1>1 DEF Waiting
  <2>4. /\ Cardinality(Waiting(m)) \in Nat /\ Cardinality(Waiting(m)') \in Nat
        /\ Cardinality(Waiting(m)') + (IF k = m THEN 1 ELSE 0) <= Cardinality(Waiting(m))
    BY <1>t, <1>1, <1>2, <2>3, WhereFinite, WhereTail DEF Waiting
  <2>5. got[m] \in Nat /\ got'[m] \in Nat /\ got'[m] <= got[m] + (IF k = m THEN 1 ELSE 0)
    BY <1>t, <1>1, <1>2
  <2> QED BY <2>1, <2>2, <2>4, <2>5
<1> QED BY <1>4, <1>5, <1>6 DEF SurveyInv

LEMMA SurveyInit == Init => SurveyInv
<1> SUFFICES ASSUME Init PROVE SurveyInv OBVIOUS
<1>1. Elems(<<>>) = {} /\ Solo(<<>>) BY DEF Elems, Solo
<1>2. \A m \in Msg : \A p \in Peer : ~AtPeer(p, m) BY <1>1 DEF Init, AtPeer, Msg
<1>3. EarlyInv BY <1>1, <1>2 DEF Init, EarlyInv
<1>4. PeerInv BY <1>1 DEF Init, PeerInv
<1>5. CountInv
  <2> SUFFICES ASSUME NEW m \in Msg
               PROVE  got[m] + Cardinality(Waiting(m)) + Cardinality(Due(m)) <= Cardinality(Peer)
    BY DEF CountInv
  <2>1. Waiting(m) = {} BY DEF Init, Waiting, Where
  <2>2. Cardinality(Waiting(m)) = 0 BY <2>1, FS_EmptySet
  <2>3. got[m] = 0 BY DEF Init
  <2> QED BY <2>2, <2>3, DueFinite
<1> QED BY <1>3, <1>4, <1>5 DEF SurveyInv

LEMMA SurveyStep == TypeOK /\ EnqInv /\ SurveyInv /\ [Next]_vars => SurveyInv'
<1> SUFFICES ASSUME TypeOK, EnqInv, SurveyInv, [Next]_vars PROVE SurveyInv' OBVIOUS
<1> USE DEF recvVars, netVars, thrVars
<1>1. CASE UNCHANGED vars BY <1>1, Quiet DEF vars
<1>2. ASSUME NEW t \in Thread, SendCall(t) PROVE SurveyInv' BY <1>2, CallStep
<1>3. ASSUME NEW t \in Thread, SendEnd(t) PROVE SurveyInv' BY <1>3, SendStep
<1>4. ASSUME NEW t \in Thread, RecvTake(t) PROVE SurveyInv' BY <1>4, TakeStep
<1>5. ASSUME NEW t \in Thread, RecvCall(t) \/ RecvTop(t) \/ RecvPark(t) \/ RecvAbort(t)
      PROVE  SurveyInv'
  <2>1. UNCHANGED <<survey, got, uwq, urq, q, out, atPeer, rcv, tm>>
    BY <1>5 DEF RecvCall, RecvTop, RecvPark, RecvAbort
  <2>2. \A u \in Thread : tpc'[u] = "enq" <=> tpc[u] = "enq"
    BY <1>5 DEF RecvCall, RecvTop, RecvPark, RecvAbort, TypeOK
  <2> QED BY <2>1, <2>2, Quiet
<1>6. ASSUME NEW m \in Msg, Callback(m) PROVE SurveyInv'
  <2>1. UNCHANGED <<survey, got, uwq, urq, q, out, atPeer, rcv, tm>> BY <1>6 DEF Callback
  <2>2. tpc \in [Thread -> PCs] /\ tpc' \in Wake(tpc) BY <1>6 DEF Callback, TypeOK, PCs
  <2>3. \A u \in Thread : tpc'[u] = "enq" <=> tpc[u] = "enq" BY <2>2, WakeIs
  <2> QED BY <2>1, <2>3, Quiet
<1>7. CASE TimerFire \/ SetSurveyTime \/ SenderExit \/ Close \/ Shutdown
  <2>1. UNCHANGED <<survey, got, uwq, urq, q, out, atPeer, rcv, tm, tpc>>
    BY <1>7 DEF TimerFire, SetSurveyTime, SenderExit, Close, Shutdown
  <2> QED BY <2>1, Quiet
<1>8. CASE Broadcast BY <1>8, BroadcastStep
<1>9. ASSUME NEW p \in Peer, AddEndpoint(p) PROVE SurveyInv' BY <1>9, Quiet DEF AddEndpoint
<1>10. ASSUME NEW p \in Peer, PipeDown(p) \/ PeerTake(p) \/ PeerSend(p) PROVE SurveyInv'
  BY <1>10, ConnStep
<1>11. ASSUME NEW p \in Peer, NEW m \in Msg, Respond(p, m) PROVE SurveyInv' BY <1>11, ConnStep
<1>12. ASSUME NEW p \in Peer, RcvPush(p) PROVE SurveyInv' BY <1>12, PushStep
<1> QED
  BY <1>1, <1>2, <1>3, <1>4, <1>5, <1>6, <1>7, <1>8, <1>9, <1>10, <1>11, <1>12
  DEF Next, RecvStep, PeerStep

(* No respondent's answer is counted twice: a survey is on its way to each *)
(* peer once, and goes from the peer to the application at most once, so   *)
(* that the answers handed over, those in the read queue and those that    *)
(* may still come are never more than the respondents.                     *)
THEOREM NoSecondResponse == SafeSpec => []OneResponseEach
<1>1. TypeOK /\ SurveyInv => OneResponseEach
  <2> SUFFICES ASSUME TypeOK, SurveyInv, NEW m \in Msg PROVE got[m] <= Cardinality(Peer)
    BY DEF OneResponseEach
  <2>1. got[m] + Cardinality(Waiting(m)) + Cardinality(Due(m)) <= Cardinality(Peer)
    BY DEF SurveyInv, CountInv
  <2>2. got[m] \in Nat /\ Cardinality(Waiting(m)) \in Nat BY WhereFinite DEF TypeOK, Waiting
  <2>3. Cardinality(Due(m)) \in Nat /\ Cardinality(Peer) \in Nat BY DueFinite
  <2> QED BY <2>1, <2>2, <2>3
<1> QED BY <1>1, SurveyInit, SurveyStep, TypeCorrect, PTL DEF SafeSpec

=============================================================================
