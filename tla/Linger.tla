------------------------------- MODULE Linger -------------------------------
(***************************************************************************)
(* The way out of a broadcasting socket, and Close with its linger time:   *)
(* SendMsg, SetOption(OptionWriteQLen) and Close of core.go, the sender    *)
(* goroutines and Shutdown of PUB (protocol/pub/pub.go; BUS and STAR have  *)
(* the same), DrainChannel (util.go) and Waiter (waiter.go).               *)
(*                                                                         *)
(* Messages are numbered as SendMsg accepts them; 0 stands for nil.  A     *)
(* message that the transport discards as expired counts as sent.  Copies  *)
(* share one message, with a reference count (message.go).                 *)
(***************************************************************************)
EXTENDS Integers, Sequences, FiniteSets

CONSTANTS
  Thread,       \* threads in SendMsg
  Pipe,
  MaxMsg,       \* bound: messages accepted
  MaxLoad,      \* bound: messages accepted and connections made, together
  MaxGen,       \* bound: queues that OptionWriteQLen makes
  UwqLen, QLen  \* capacities of sock.uwq and of an endpoint's queue

ASSUME LingerAssumption ==
  /\ MaxMsg \in Nat /\ MaxLoad \in Nat /\ MaxGen \in Nat \ {0} /\ UwqLen \in Nat /\ QLen \in Nat
  /\ IsFiniteSet(Pipe)

VARIABLES
  active,       \* sock.active: Dial or Listen was called
  gen,          \* sock.uwq is the gen-th queue; earlier ones are closed
  uwq,          \* uwq[g]: what the g-th queue holds
  thr,          \* thr[t]: the queue of the select that t is in, 0 if none
  nmsg, acc,    \* messages accepted; acc[m]: in which queue, 0 if after Close began
  refs,         \* refs[m]: m.refcnt; at 0 the message is back in its pool
  crashed,      \* a send on a closed channel: the process is dead
  spc, sq, sm,  \* the sender: program counter, its queue, the message it has
  cast,         \* messages that the sender has offered to the endpoints
  cnt,          \* p.w.cnt
  up,           \* up[p]: state of the connection, "none", "up" or "closed"
  eps,          \* p.eps
  q, qclosed,   \* q[p]: the queue of p's endpoint, and whether it is closed
  hand, ended,  \* hand[p]: what p's peerSender has in hand; those that returned
  owed, sent,   \* owed[p], sent[p]: messages put on q[p], and sent over p
  cpc, cgen,    \* Close: program counter, the queue that it drains
  expired,      \* fin has passed
  left          \* endpoints, then pipes, that Close has yet to deal with

sockVars == <<active, gen, uwq>>
thrVars  == <<thr, nmsg, acc, crashed>>
sndVars  == <<spc, sq, sm, cast, cnt>>
peerVars == <<q, qclosed, hand, ended, owed, sent>>
clsVars  == <<cpc, cgen, expired, left>>
vars == <<sockVars, thrVars, refs, sndVars, up, eps, peerVars, clsVars>>

Msg == 1 .. MaxMsg
Gen == 1 .. MaxGen

Init ==
  /\ active = FALSE /\ gen = 1 /\ uwq = [g \in Gen |-> <<>>]
  /\ thr = [t \in Thread |-> 0] /\ nmsg = 0 /\ acc = [m \in Msg |-> 0]
  /\ crashed = FALSE /\ refs = [m \in Msg |-> 0]
  /\ spc = "sel" /\ sq = 1 /\ sm = 0 /\ cast = {} /\ cnt = 1
  /\ up = [p \in Pipe |-> "none"] /\ eps = {}
  /\ q = [p \in Pipe |-> <<>>] /\ qclosed = [p \in Pipe |-> FALSE]
  /\ hand = [p \in Pipe |-> 0] /\ ended = {}
  /\ owed = [p \in Pipe |-> {}] /\ sent = [p \in Pipe |-> {}]
  /\ cpc = "idle" /\ cgen = 1 /\ expired = FALSE /\ left = {}

WithinLoad == nmsg + Cardinality({p \in Pipe : up[p] # "none"}) < MaxLoad

closed == cpc \notin {"idle", "drain1"}      \* sock.closeq is closed

-----------------------------------------------------------------------------
(* SendMsg and OptionWriteQLen.                                            *)

(* The select names sock.uwq as it is now.                                 *)
SendEnter(t) ==
  /\ thr[t] = 0
  /\ thr' = [thr EXCEPT ![t] = gen]
  /\ UNCHANGED <<refs, sockVars, nmsg, acc, crashed, sndVars, up, eps, peerVars, clsVars>>

SendLeave(t) == thr' = [thr EXCEPT ![t] = 0]

NewMessage(m) == [refs EXCEPT ![m] = 1]

SendOk(t) ==
  /\ thr[t] = gen /\ Len(uwq[gen]) < UwqLen /\ nmsg < MaxMsg /\ WithinLoad
  /\ SendLeave(t)
  /\ nmsg' = nmsg + 1 /\ refs' = NewMessage(nmsg + 1)
  /\ uwq' = [uwq EXCEPT ![gen] = Append(@, nmsg + 1)]
  /\ acc' = [acc EXCEPT ![nmsg + 1] = IF cpc = "idle" THEN gen ELSE 0]
  /\ UNCHANGED <<active, gen, crashed, sndVars, up, eps, peerVars, clsVars>>

(* The queue in the select was closed meanwhile.                           *)
SendPanic(t) ==
  /\ thr[t] \in 1 .. gen - 1
  /\ SendLeave(t) /\ crashed' = TRUE
  /\ UNCHANGED <<refs, sockVars, nmsg, acc, sndVars, up, eps, peerVars, clsVars>>

(* ErrSendTimeout, ErrClosed, or with OptionBestEffort a full queue.       *)
SendFail(t) ==
  /\ thr[t] # 0
  /\ SendLeave(t)
  /\ UNCHANGED <<refs, sockVars, nmsg, acc, crashed, sndVars, up, eps, peerVars, clsVars>>

SetWriteQLen ==
  /\ ~active /\ gen < MaxGen
  /\ gen' = gen + 1
  /\ UNCHANGED <<refs, active, uwq, thrVars, sndVars, up, eps, peerVars, clsVars>>

-----------------------------------------------------------------------------
(* Endpoints.  (SocketCore has AddEndpoint after Close.)                   *)

Dial ==
  /\ ~active /\ active' = TRUE
  /\ UNCHANGED <<refs, gen, uwq, thrVars, sndVars, up, eps, peerVars, clsVars>>

AddEndpoint(p) ==
  /\ active /\ up[p] = "none" /\ ~closed /\ WithinLoad
  /\ up' = [up EXCEPT ![p] = "up"]
  /\ eps' = eps \union {p}
  /\ UNCHANGED <<refs, sockVars, thrVars, sndVars, peerVars, clsVars>>

PipeDown(p) ==
  /\ up[p] = "up"
  /\ up' = [up EXCEPT ![p] = "closed"]
  /\ UNCHANGED <<refs, sockVars, thrVars, sndVars, eps, peerVars, clsVars>>

RemoveEndpoint(p) ==
  /\ up[p] = "closed" /\ p \in eps
  /\ eps' = eps \ {p}
  /\ qclosed' = [qclosed EXCEPT ![p] = TRUE]
  /\ UNCHANGED <<refs, sockVars, thrVars, sndVars, up, q, hand, ended, owed, sent, clsVars>>

-----------------------------------------------------------------------------
(* The sender.                                                             *)

SndTake ==
  /\ spc = "sel" /\ uwq[sq] # <<>>
  /\ spc' = "cast" /\ sm' = Head(uwq[sq])
  /\ uwq' = [uwq EXCEPT ![sq] = Tail(@)]
  /\ UNCHANGED <<refs, active, gen, thrVars, sq, cast, cnt, up, eps, peerVars, clsVars>>

SameChannel == sq                            \* mutant: SendChannel is not called again

SendChannel == gen

(* A nil message: the queue was replaced.                                  *)
SndNil ==
  /\ spc = "sel" /\ uwq[sq] = <<>> /\ sq < gen
  /\ sq' = SendChannel
  /\ UNCHANGED <<refs, sockVars, thrVars, spc, sm, cast, cnt, up, eps, peerVars, clsVars>>

HasRoom(p) == Len(q[p]) < QLen

NoDup(f, m, n) == f                          \* mutant: the copies are not counted

Dup(f, m, n) == [f EXCEPT ![m] = @ + n]

Free(f, m) == [f EXCEPT ![m] = @ - 1]

(* One copy for each endpoint; where the queue is full it is freed again,  *)
(* and the sender's own one in the end.                                    *)
SndCast ==
  LET to == {p \in eps : HasRoom(p)} IN
  /\ spc = "cast"
  /\ spc' = "sel" /\ sm' = 0
  /\ cast' = cast \union {sm}
  /\ refs' = Free(Dup(refs, sm, Cardinality(to)), sm)
  /\ q' = [p \in Pipe |-> IF p \in to THEN Append(q[p], sm) ELSE q[p]]
  /\ owed' = [p \in Pipe |-> IF p \in to THEN owed[p] \union {sm} ELSE owed[p]]
  /\ UNCHANGED <<sockVars, thrVars, sq, cnt, up, eps, qclosed, hand, ended, sent, clsVars>>

Done == cnt' = cnt - 1

SndExit ==
  /\ spc = "sel" /\ closed
  /\ spc' = "exit" /\ Done
  /\ UNCHANGED <<refs, sockVars, thrVars, sq, sm, cast, up, eps, peerVars, clsVars>>

(* The sender of an endpoint.                                              *)
PeerTake(p) ==
  /\ p \notin ended /\ hand[p] = 0 /\ q[p] # <<>>
  /\ hand' = [hand EXCEPT ![p] = Head(q[p])]
  /\ q' = [q EXCEPT ![p] = Tail(@)]
  /\ UNCHANGED <<refs, sockVars, thrVars, sndVars, up, eps, qclosed, ended, owed, sent, clsVars>>

PeerNil(p) ==
  /\ p \notin ended /\ hand[p] = 0 /\ q[p] = <<>> /\ qclosed[p]
  /\ ended' = ended \union {p}
  /\ UNCHANGED <<refs, sockVars, thrVars, sndVars, up, eps, q, qclosed, hand, owed, sent, clsVars>>

(* The transport frees what it has sent.                                   *)
PeerSend(p) ==
  /\ hand[p] # 0 /\ up[p] = "up"
  /\ sent' = [sent EXCEPT ![p] = @ \union {hand[p]}]
  /\ refs' = Free(refs, hand[p])
  /\ hand' = [hand EXCEPT ![p] = 0]
  /\ UNCHANGED <<sockVars, thrVars, sndVars, up, eps, q, qclosed, ended, owed, clsVars>>

PeerFail(p) ==
  /\ hand[p] # 0 /\ up[p] = "closed"
  /\ refs' = Free(refs, hand[p])
  /\ ended' = ended \union {p}
  /\ hand' = [hand EXCEPT ![p] = 0]
  /\ UNCHANGED <<sockVars, thrVars, sndVars, up, eps, q, qclosed, owed, sent, clsVars>>

-----------------------------------------------------------------------------
(* Close.  (A second Close waits for the queue to drain and returns        *)
(* ErrClosed.)                                                             *)

CloseCall ==
  /\ cpc = "idle"
  /\ cpc' = "drain1" /\ cgen' = gen
  /\ UNCHANGED <<refs, sockVars, thrVars, sndVars, up, eps, peerVars, expired, left>>

Expire ==
  /\ cpc # "idle" /\ ~expired /\ expired' = TRUE
  /\ UNCHANGED <<refs, sockVars, thrVars, sndVars, up, eps, peerVars, cpc, cgen, left>>

DrainChannel(s) == s = <<>> \/ expired

CloseMark ==
  /\ cpc = "drain1" /\ DrainChannel(uwq[cgen])
  /\ cpc' = "drain2" /\ cgen' = gen
  /\ UNCHANGED <<refs, sockVars, thrVars, sndVars, up, eps, peerVars, expired, left>>

CloseDrained ==
  /\ cpc = "drain2" /\ DrainChannel(uwq[cgen])
  /\ cpc' = "wait"
  /\ UNCHANGED <<refs, sockVars, thrVars, sndVars, up, eps, peerVars, cgen, expired, left>>

WaitAbsTimeout == cnt = 0 \/ expired

(* Shutdown takes the table, then drains and closes the queues in turn.    *)
ShutdownTake ==
  /\ cpc = "wait" /\ WaitAbsTimeout
  /\ cpc' = "shutdown"
  /\ eps' = {} /\ left' = eps
  /\ UNCHANGED <<refs, sockVars, thrVars, sndVars, up, peerVars, cgen, expired>>

QueueGone(s) == TRUE                         \* mutant: Shutdown does not drain

QueueDrained(s) == DrainChannel(s)

CloseLost(p) == qclosed                      \* mutant: Shutdown does not close

CloseQueue(p) == [qclosed EXCEPT ![p] = TRUE]

ShutdownPeer(p) ==
  /\ cpc = "shutdown" /\ p \in left /\ QueueDrained(q[p])
  /\ qclosed' = CloseQueue(p)
  /\ left' = left \ {p}
  /\ UNCHANGED <<refs, sockVars, thrVars, sndVars, up, eps, q, hand, ended, owed, sent,
                 cpc, cgen, expired>>

CloseSweep ==
  /\ cpc = "shutdown" /\ left = {}
  /\ cpc' = "sweep" /\ left' = {p \in Pipe : up[p] = "up"}
  /\ UNCHANGED <<refs, sockVars, thrVars, sndVars, up, eps, peerVars, cgen, expired>>

SweepPipe(p) ==
  /\ cpc = "sweep" /\ p \in left
  /\ up' = [up EXCEPT ![p] = "closed"]
  /\ left' = left \ {p}
  /\ UNCHANGED <<refs, sockVars, thrVars, sndVars, eps, peerVars, cpc, cgen, expired>>

CloseReturn ==
  /\ cpc = "sweep" /\ left = {}
  /\ cpc' = "done"
  /\ UNCHANGED <<refs, sockVars, thrVars, sndVars, up, eps, peerVars, cgen, expired, left>>

-----------------------------------------------------------------------------
SndStep == SndTake \/ SndNil \/ SndCast
PeerStep(p) == PeerTake(p) \/ PeerNil(p) \/ PeerFail(p)
CloseStep ==
  \/ CloseMark \/ CloseDrained \/ ShutdownTake \/ CloseSweep \/ CloseReturn
  \/ \E p \in Pipe : ShutdownPeer(p) \/ SweepPipe(p)

Next ==
  /\ ~crashed
  /\ \/ \E t \in Thread : SendEnter(t) \/ SendOk(t) \/ SendPanic(t) \/ SendFail(t)
     \/ \E p \in Pipe : \/ AddEndpoint(p) \/ PipeDown(p) \/ RemoveEndpoint(p)
                        \/ PeerStep(p) \/ PeerSend(p)
     \/ SetWriteQLen \/ Dial \/ SndStep \/ SndExit \/ CloseCall \/ Expire \/ CloseStep

(* The goroutines run, the select of the sender is fair to both of its     *)
(* cases, and the linger time passes; a peer need not take what it is sent.*)
Fairness ==
  /\ WF_vars(SndStep /\ ~crashed) /\ SF_vars(SndExit /\ ~crashed)
  /\ \A p \in Pipe : WF_vars(PeerStep(p) /\ ~crashed)
  /\ WF_vars(Expire /\ ~crashed) /\ WF_vars(CloseStep /\ ~crashed)

SafeSpec == Init /\ [][Next]_vars
Spec == SafeSpec /\ Fairness

-----------------------------------------------------------------------------
(* Properties.                                                             *)

(* Every variable has its type, and no queue is longer than its capacity.  *)
TypeOK ==
  /\ active \in BOOLEAN /\ gen \in Gen
  /\ uwq \in [Gen -> Seq(Msg)] /\ \A g \in Gen : Len(uwq[g]) <= UwqLen
  /\ thr \in [Thread -> 0 .. MaxGen] /\ nmsg \in 0 .. MaxMsg
  /\ acc \in [Msg -> 0 .. MaxGen] /\ refs \in [Msg -> Nat] /\ crashed \in BOOLEAN
  /\ spc \in {"sel", "cast", "exit"} /\ sq \in Gen /\ sm \in 0 .. MaxMsg
  /\ cast \subseteq Msg /\ cnt \in {0, 1}
  /\ up \in [Pipe -> {"none", "up", "closed"}] /\ eps \subseteq Pipe
  /\ q \in [Pipe -> Seq(Msg)] /\ \A p \in Pipe : Len(q[p]) <= QLen
  /\ qclosed \in [Pipe -> BOOLEAN] /\ hand \in [Pipe -> 0 .. MaxMsg]
  /\ ended \subseteq Pipe
  /\ owed \in [Pipe -> SUBSET Msg] /\ sent \in [Pipe -> SUBSET Msg]
  /\ cpc \in {"idle", "drain1", "drain2", "wait", "shutdown", "sweep", "done"}
  /\ cgen \in Gen /\ expired \in BOOLEAN /\ left \subseteq Pipe

(* Close within its linger time gives the messages in the socket's queue   *)
(* to the endpoints, and leaves at most one of them unsent to a peer that  *)
(* is connected: the one that its peerSender had in hand (Close,           *)
(* DrainChannel, Shutdown).                                                *)
LingerDelivers ==
  cpc \in {"sweep", "done"} /\ ~expired =>
    LET early == {m \in Msg : acc[m] = gen} IN
    /\ early \subseteq cast
    /\ \A p \in Pipe : up[p] = "up" => Cardinality((owed[p] \intersect early) \ sent[p]) <= 1

(* A message that SendMsg has accepted reaches the sender, also when       *)
(* OptionWriteQLen replaces the queue it is in, unless the socket is       *)
(* closed (SetOption, sender).                                             *)
AcceptedCast == \A m \in Msg : m <= nmsg ~> (m \in cast \/ cpc # "idle" \/ crashed)

(* Close returns, even if a peer takes nothing, and then every goroutine   *)
(* of the protocol returns, too (DrainChannel, Waiter, Shutdown).          *)
GoroutinesEnd ==
  cpc # "idle" ~> \/ crashed
                  \/ /\ cpc = "done" /\ spc = "exit"
                     /\ {p \in Pipe : up[p] # "none"} \subseteq ended

(* The reference count of a message is the number of places that hold it:  *)
(* nobody holds a message that is back in its pool, to be given out again, *)
(* and a message that nobody holds is in the pool (Dup, Free, the senders).*)
RefsHeld ==
  LET Queued(f, m) ==
        Cardinality(UNION {{<<x, i>> : i \in {k \in 1 .. Len(f[x]) : f[x][k] = m}} : x \in DOMAIN f})
  IN \A m \in Msg :
       refs[m] = Queued(uwq, m) + Queued(q, m) + Cardinality({p \in Pipe : hand[p] = m})
                 + (IF sm = m THEN 1 ELSE 0)

=============================================================================
