------------------------------ MODULE Surveyor ------------------------------
(***************************************************************************)
(* A SURVEYOR socket in cooked mode (protocol/surveyor/surveyor.go with    *)
(* SendMsg, RecvMsg and SetRecvError of core.go): application threads, the *)
(* survey timer, whose callback runs in a goroutine of its own, the        *)
(* broadcasting sender, and a sender and a receiver per peer.              *)
(*                                                                         *)
(* A message is the serial number of its survey; 0 stands for nil.  The    *)
(* RESPONDENT peers are external: each answers what reached it, or not.    *)
(***************************************************************************)
EXTENDS Integers, Sequences, FiniteSets

CONSTANTS
  Thread,        \* application threads
  Peer,          \* connected respondents
  MaxSurvey,     \* bound: surveys started
  IdSpace,       \* survey ids are taken modulo IdSpace (2^31 in the code)
  UwqLen, UrqLen, PeerQLen, \* capacities of sock.uwq, sock.urq and peer.q (1)
  RecvDeadline,  \* OptionRecvDeadline is set
  TimeMoves      \* bound: the application may change OptionSurveyTime

ASSUME BoundAssumption ==
  /\ MaxSurvey \in Nat /\ IdSpace \in Nat /\ 0 < MaxSurvey /\ MaxSurvey < IdSpace
  /\ UwqLen \in Nat /\ UrqLen \in Nat /\ PeerQLen \in Nat /\ TimeMoves \in BOOLEAN
  /\ RecvDeadline \in BOOLEAN /\ IsFiniteSet(Peer)

VARIABLES
  survey,        \* surveys started; x.surveyID is the id of the latest
  got,           \* got[m]: responses to survey m handed to the application
  timer,         \* survey for which x.timer is running, 0 when it is not
  firing,        \* surveys whose expired timer's callback has yet to run
  finite, timed, \* x.duration > 0; it was when the latest survey began
  recverr,       \* sock.recverr is ErrProtoState
  uwq, urq,      \* the upper queues
  peers, up,     \* x.peers; state of each connection
  q, out,        \* q[p]: peer.q; out[p]: what peer.sender holds
  atPeer, rcv,   \* surveys a respondent may answer; what peer.receiver holds
  tpc, tm,       \* threads: program counter and message to send
  ended,         \* goroutines that returned: "sender", or a peer's receiver
  closed         \* sock.closeq is closed

recvVars == <<survey, got, timer, firing, finite, timed, recverr>>
netVars  == <<peers, up, q, out, atPeer, rcv, ended>>
thrVars  == <<tpc, tm>>
vars == <<recvVars, netVars, thrVars, uwq, urq, closed>>

Msg == 1 .. MaxSurvey

Init ==
  /\ survey = 0 /\ got = [m \in Msg |-> 0]
  /\ timer = 0 /\ firing = {} /\ finite = TRUE /\ timed = FALSE
  /\ recverr = TRUE
  /\ uwq = <<>> /\ urq = <<>>
  /\ peers = {} /\ up = [p \in Peer |-> "none"] /\ ended = {}
  /\ q = [p \in Peer |-> <<>>] /\ out = [p \in Peer |-> 0]
  /\ atPeer = [p \in Peer |-> {}] /\ rcv = [p \in Peer |-> 0]
  /\ tpc = [t \in Thread |-> "idle"] /\ tm = [t \in Thread |-> 0]
  /\ closed = FALSE

-----------------------------------------------------------------------------
(* SetRecvError's non-blocking send on the unbuffered recverrq: it wakes   *)
(* one thread that is blocked in RecvMsg's select.  A thread for which a   *)
(* message is there has left the select already.                           *)
Wake(pc) ==
  LET parked == {t \in Thread : pc[t] = "rsel"} IN
  IF parked = {} THEN {pc}
  ELSE {[pc EXCEPT ![t] = "rtop"] : t \in parked} \union (IF urq = <<>> THEN {} ELSE {pc})

ResetNever(d) == timer            \* mutant: SendHook does not start the timer

(* SendHook resets the timer only for a finite survey time, and leaves it  *)
(* as it is otherwise.                                                     *)
ResetTimer(d) == IF d THEN survey + 1 ELSE timer

SendCall(t) ==
  /\ tpc[t] = "idle" /\ survey < MaxSurvey
  /\ survey' = survey + 1
  /\ recverr' = FALSE
  /\ timer' = ResetTimer(finite)
  /\ timed' = finite
  /\ tpc' \in Wake([tpc EXCEPT ![t] = "enq"])
  /\ tm' = [tm EXCEPT ![t] = survey + 1]
  /\ UNCHANGED <<got, firing, finite, netVars, uwq, urq, closed>>

SendEnd(t) ==
  /\ tpc[t] = "enq"
  /\ \/ Len(uwq) < UwqLen /\ uwq' = Append(uwq, tm[t])
     \/ closed /\ UNCHANGED uwq
  /\ tpc' = [tpc EXCEPT ![t] = "idle"]
  /\ tm' = [tm EXCEPT ![t] = 0]
  /\ UNCHANGED <<recvVars, netVars, urq, closed>>

RecvCall(t) ==
  /\ tpc[t] = "idle"
  /\ tpc' = [tpc EXCEPT ![t] = "rtop"]
  /\ UNCHANGED <<recvVars, netVars, tm, uwq, urq, closed>>

(* The check under the lock; then, without it, the select.                 *)
RecvTop(t) ==
  /\ tpc[t] = "rtop"
  /\ tpc' = [tpc EXCEPT ![t] = IF recverr THEN "idle" ELSE "rgap"]
  /\ UNCHANGED <<recvVars, netVars, tm, uwq, urq, closed>>

RecvPark(t) ==
  /\ tpc[t] = "rgap"
  /\ tpc' = [tpc EXCEPT ![t] = "rsel"]
  /\ UNCHANGED <<recvVars, netVars, tm, uwq, urq, closed>>

Id(m) == m % IdSpace

AcceptsAny(m) == TRUE             \* mutant: RecvHook does not compare ids

Accepts(m) == Id(m) = Id(survey)

RecvTake(t) ==
  /\ tpc[t] = "rsel" /\ urq # <<>>
  /\ urq' = Tail(urq)
  /\ \/ /\ Accepts(Head(urq))
        /\ got' = [got EXCEPT ![Head(urq)] = @ + 1]
        /\ tpc' = [tpc EXCEPT ![t] = "idle"]
     \/ /\ ~Accepts(Head(urq))
        /\ tpc' = [tpc EXCEPT ![t] = "rtop"]
        /\ UNCHANGED got
  /\ UNCHANGED <<survey, timer, firing, finite, timed, recverr, netVars, tm, uwq, closed>>

RecvAbort(t) ==
  /\ tpc[t] = "rsel" /\ (closed \/ RecvDeadline)
  /\ tpc' = [tpc EXCEPT ![t] = "idle"]
  /\ UNCHANGED <<recvVars, netVars, tm, uwq, urq, closed>>

-----------------------------------------------------------------------------
(* The survey time is up: the runtime starts the callback in a goroutine,  *)
(* which takes the socket lock some time later.                            *)

TimerFire ==
  /\ timer # 0
  /\ timer' = 0
  /\ firing' = firing \union {timer}
  /\ UNCHANGED <<survey, got, finite, timed, recverr, netVars, thrVars, uwq, urq, closed>>

Callback(m) ==
  /\ m \in firing
  /\ firing' = firing \ {m}
  /\ recverr' = TRUE
  /\ tpc' \in Wake(tpc)
  /\ UNCHANGED <<survey, got, timer, finite, timed, netVars, tm, uwq, urq, closed>>

SetSurveyTime ==
  /\ TimeMoves
  /\ finite' = ~finite
  /\ UNCHANGED <<survey, got, timer, firing, timed, recverr, netVars, thrVars, uwq, urq, closed>>

-----------------------------------------------------------------------------
(* Endpoints.  RemoveEndpoint and Shutdown close peer.q; what is queued is *)
(* still taken from it.                                                    *)

AddEndpoint(p) ==
  /\ up[p] = "none" /\ ~closed
  /\ up' = [up EXCEPT ![p] = "up"]
  /\ peers' = peers \union {p}
  /\ UNCHANGED <<recvVars, q, out, atPeer, rcv, ended, thrVars, uwq, urq, closed>>

PipeDown(p) ==
  /\ up[p] = "up"
  /\ up' = [up EXCEPT ![p] = "down"]
  /\ peers' = peers \ {p}
  /\ atPeer' = [atPeer EXCEPT ![p] = {}]
  /\ UNCHANGED <<recvVars, q, out, rcv, ended, thrVars, uwq, urq, closed>>

Shutdown ==
  /\ closed /\ peers # {}
  /\ peers' = {}
  /\ UNCHANGED <<recvVars, up, q, out, atPeer, rcv, ended, thrVars, uwq, urq, closed>>

(* surveyor.sender: a survey goes to every peer whose queue has room.      *)
Broadcast ==
  /\ uwq # <<>> /\ "sender" \notin ended
  /\ uwq' = Tail(uwq)
  /\ q' = [p \in Peer |->
             IF p \in peers /\ Len(q[p]) < PeerQLen THEN Append(q[p], Head(uwq)) ELSE q[p]]
  /\ UNCHANGED <<recvVars, peers, up, out, atPeer, rcv, ended, thrVars, urq, closed>>

SenderExit ==
  /\ closed /\ "sender" \notin ended
  /\ ended' = ended \union {"sender"}
  /\ UNCHANGED <<recvVars, peers, up, q, out, atPeer, rcv, thrVars, uwq, urq, closed>>

PeerTake(p) ==
  /\ out[p] = 0 /\ q[p] # <<>>
  /\ out' = [out EXCEPT ![p] = Head(q[p])]
  /\ q' = [q EXCEPT ![p] = Tail(@)]
  /\ UNCHANGED <<recvVars, peers, up, atPeer, rcv, ended, thrVars, uwq, urq, closed>>

(* On a connection that is down SendMsg fails and the goroutine returns:   *)
(* it takes no other message.                                              *)
PeerSend(p) ==
  /\ out[p] # 0 /\ up[p] = "up"
  /\ atPeer' = [atPeer EXCEPT ![p] = @ \union {out[p]}]
  /\ out' = [out EXCEPT ![p] = 0]
  /\ UNCHANGED <<recvVars, peers, up, q, rcv, ended, thrVars, uwq, urq, closed>>

(* The respondent answers m, and the receiver reads the response.          *)
Respond(p, m) ==
  /\ up[p] = "up" /\ rcv[p] = 0 /\ m \in atPeer[p] /\ p \notin ended
  /\ rcv' = [rcv EXCEPT ![p] = m]
  /\ atPeer' = [atPeer EXCEPT ![p] = @ \ {m}]
  /\ UNCHANGED <<recvVars, peers, up, q, out, ended, thrVars, uwq, urq, closed>>

RcvReady(p) == rcv[p] # 0

RcvKeep(p) == rcv                 \* mutant: a response is passed up twice

RcvDone(p) == [rcv EXCEPT ![p] = 0]

RcvPush(p) ==
  /\ RcvReady(p)
  /\ \/ Len(urq) < UrqLen /\ urq' = Append(urq, rcv[p]) /\ UNCHANGED ended
     \/ closed /\ ended' = ended \union {p} /\ UNCHANGED urq
  /\ rcv' = RcvDone(p)
  /\ UNCHANGED <<recvVars, peers, up, q, out, atPeer, thrVars, uwq, closed>>

Close ==
  /\ ~closed /\ closed' = TRUE
  /\ UNCHANGED <<recvVars, netVars, thrVars, uwq, urq>>

-----------------------------------------------------------------------------
(* A call in progress goes on; calling again is the application's choice.  *)
RecvStep(t) == RecvTop(t) \/ RecvPark(t) \/ RecvTake(t) \/ RecvAbort(t)
PeerStep(p) == PeerTake(p) \/ PeerSend(p) \/ RcvPush(p)

Next ==
  \/ \E t \in Thread : SendCall(t) \/ SendEnd(t) \/ RecvCall(t) \/ RecvStep(t)
  \/ TimerFire \/ SetSurveyTime \/ Broadcast \/ SenderExit \/ Close \/ Shutdown
  \/ \E m \in Msg : Callback(m)
  \/ \E p \in Peer : AddEndpoint(p) \/ PipeDown(p) \/ PeerStep(p)
  \/ \E p \in Peer, m \in Msg : Respond(p, m)

SafeSpec == Init /\ [][Next]_vars

(* Goroutines, timers and their callbacks run; the respondents need not.   *)
Fairness ==
  /\ \A t \in Thread : WF_vars(SendEnd(t) \/ RecvStep(t))
  /\ WF_vars(TimerFire) /\ WF_vars(Broadcast \/ SenderExit)
  /\ \A m \in Msg : WF_vars(Callback(m))
  /\ \A p \in Peer : WF_vars(PeerStep(p))

Spec == SafeSpec /\ Fairness

-----------------------------------------------------------------------------
(* Properties.                                                             *)

(* Every variable of the SURVEYOR socket has its type.                     *)
TypeOK ==
  /\ survey \in 0 .. MaxSurvey /\ timer \in 0 .. MaxSurvey
  /\ got \in [Msg -> Nat]
  /\ firing \subseteq Msg
  /\ finite \in BOOLEAN /\ timed \in BOOLEAN /\ recverr \in BOOLEAN /\ closed \in BOOLEAN
  /\ peers \subseteq Peer /\ up \in [Peer -> {"none", "up", "down"}]
  /\ ended \subseteq Peer \union {"sender"}
  /\ uwq \in Seq(Msg) /\ urq \in Seq(Msg)
  /\ q \in [Peer -> Seq(Msg)] /\ out \in [Peer -> 0 .. MaxSurvey]
  /\ atPeer \in [Peer -> SUBSET Msg] /\ rcv \in [Peer -> 0 .. MaxSurvey]
  /\ tpc \in [Thread -> {"idle", "enq", "rtop", "rgap", "rsel"}]
  /\ tm \in [Thread -> 0 .. MaxSurvey]

(* A response that RecvMsg hands over belongs to the latest survey;        *)
(* responses to earlier surveys are discarded (RecvHook).                  *)
ResponseToLatest == [][\A m \in Msg : got'[m] # got[m] => m = survey]_vars

(* A respondent's answer is counted once: there are never more responses   *)
(* to a survey than respondents.                                           *)
OneResponseEach == \A m \in Msg : got[m] <= Cardinality(Peer)

(* A survey begun with a survey time comes to its end, whatever happens to *)
(* that option meanwhile: RecvMsg then reports ErrProtoState, unless a new *)
(* survey has begun (SendHook, Init).                                      *)
SurveyEnds ==
  \A m \in Msg : (survey = m /\ timed) ~> (recverr \/ survey # m)

=============================================================================
