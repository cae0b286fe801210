------------------------------- MODULE Inproc -------------------------------
(***************************************************************************)
(* The inproc transport (transport/inproc/inproc.go): listeners at one     *)
(* address, a goroutine accepting for each (serve in core.go), Dial with   *)
(* its wait on the condition variable, and the two ends of a connection.   *)
(*                                                                         *)
(* Every Dial makes its own client end and every Accept its own server     *)
(* end; the ends are numbered as they are made.  The lock listeners.mx is  *)
(* held across one action, except by a Dial that returns ErrBadProto: it   *)
(* never releases it.                                                      *)
(*                                                                         *)
(* What another transport has as well carries the name of this one, so     *)
(* that TransportProofs can extend them all.                               *)
(***************************************************************************)
EXTENDS Integers, Sequences, FiniteSets, SequencesExt

CONSTANTS
  Listener, Dialer,
  NoOne,
  Misfit,       \* dialers whose protocol does not fit that of the listeners
  MaxListen,    \* bound: calls of Listen
  MaxEnd        \* bound: ends made

ASSUME InprocAssumption ==
  /\ NoOne \notin Listener \union Dialer
  /\ Misfit \subseteq Dialer /\ MaxListen \in Nat /\ MaxEnd \in Nat

VARIABLES
  byAddr,       \* listeners.byAddr for the address
  accepters,    \* accepters[l]: server ends that wait, the latest last
  stuck,        \* listeners.mx is never released again
  nlisten,      \* calls of Listen
  lstate,       \* lstate[l]: "new", "open", "closed", or "ended": serve has returned
  serving,      \* serving[l]: the end whose Accept has not returned, 0 if none
  dpc, dend,    \* dialers: "idle", "try", "wait", "up", "refused", "bad"; their end
  nend,         \* ends made
  peer,         \* peer[e]: the other end, 0 if not connected
  ready,        \* ready[e]: how often e.readyq was closed
  shut,         \* ends whose closeq is closed
  io            \* io[e]: what e's user waits for: "none", "send" or "recv"

tabVars  == <<byAddr, accepters, stuck>>
lstVars  == <<nlisten, lstate, serving>>
dialVars == <<dpc, dend>>
endVars  == <<peer, ready, shut, io>>
inprocVars == <<tabVars, lstVars, dialVars, nend, endVars>>

InprocEnd == 1 .. MaxEnd

InprocInit ==
  /\ byAddr = NoOne /\ accepters = [l \in Listener |-> <<>>] /\ stuck = FALSE
  /\ nlisten = 0 /\ lstate = [l \in Listener |-> "new"] /\ serving = [l \in Listener |-> 0]
  /\ dpc = [d \in Dialer |-> "idle"] /\ dend = [d \in Dialer |-> 0]
  /\ nend = 0
  /\ peer = [e \in InprocEnd |-> 0] /\ ready = [e \in InprocEnd |-> 0] /\ shut = {}
  /\ io = [e \in InprocEnd |-> "none"]

Connected(e) == peer[e] # 0

NewEnd == nend + 1

(* Wakes every Dial that waits.                                            *)
Broadcast == [d \in Dialer |-> IF dpc[d] = "wait" THEN "try" ELSE dpc[d]]

-----------------------------------------------------------------------------
(* Listeners; each listens once, and is closed once.                       *)

InprocListen(l) ==
  /\ ~stuck /\ lstate[l] = "new" /\ nlisten < MaxListen
  /\ nlisten' = nlisten + 1
  /\ \/ /\ byAddr = NoOne
        /\ byAddr' = l /\ lstate' = [lstate EXCEPT ![l] = "open"]
        /\ dpc' = Broadcast
     \/ byAddr # NoOne /\ UNCHANGED <<byAddr, lstate, dpc>>          \* ErrAddrInUse
  /\ UNCHANGED <<accepters, stuck, serving, dend, nend, endVars>>

(* serve calls Accept again as long as it does not fail, on a listener     *)
(* that is closed, too.                                                    *)
AcceptCall(l) ==
  /\ ~stuck /\ lstate[l] \in {"open", "closed"} /\ serving[l] = 0 /\ nend < MaxEnd
  /\ nend' = NewEnd
  /\ serving' = [serving EXCEPT ![l] = NewEnd]
  /\ accepters' = [accepters EXCEPT ![l] = Append(@, NewEnd)]
  /\ dpc' = Broadcast
  /\ UNCHANGED <<byAddr, stuck, nlisten, lstate, dend, endVars>>

AcceptReady(l) ==
  /\ serving[l] # 0 /\ ready[serving[l]] > 0
  /\ serving' = [serving EXCEPT ![l] = 0]
  /\ UNCHANGED <<tabVars, nlisten, lstate, dialVars, nend, endVars>>

(* ErrClosed, on which serve ends.                                         *)
AcceptClosed(l) ==
  /\ serving[l] # 0 /\ serving[l] \in shut /\ ~Connected(serving[l])
  /\ serving' = [serving EXCEPT ![l] = 0]
  /\ lstate' = [lstate EXCEPT ![l] = "ended"]
  /\ UNCHANGED <<tabVars, nlisten, dialVars, nend, endVars>>

StillListed(l) == byAddr                     \* mutant: the address is not freed

Unlist(l) == IF byAddr = l THEN NoOne ELSE byAddr

(* Closes the ends that wait for a connection.                             *)
InprocClose(l) ==
  /\ ~stuck /\ lstate[l] = "open"
  /\ lstate' = [lstate EXCEPT ![l] = "closed"]
  /\ byAddr' = Unlist(l)
  /\ accepters' = [accepters EXCEPT ![l] = <<>>]
  /\ shut' = shut \union ToSet(accepters[l])
  /\ dpc' = Broadcast
  /\ UNCHANGED <<stuck, nlisten, serving, dend, nend, peer, ready, io>>

-----------------------------------------------------------------------------
(* Dial, once or again after it was refused or the connection closed.      *)

DialCall(d) ==
  /\ ~stuck /\ nend < MaxEnd
  /\ dpc[d] \in {"idle", "refused"} \/ (dpc[d] = "up" /\ dend[d] \in shut)
  /\ nend' = NewEnd
  /\ dend' = [dend EXCEPT ![d] = NewEnd]
  /\ dpc' = [dpc EXCEPT ![d] = "try"]
  /\ UNCHANGED <<tabVars, lstVars, endVars>>

DialRefused(d) ==
  /\ ~stuck /\ dpc[d] = "try" /\ byAddr = NoOne
  /\ dpc' = [dpc EXCEPT ![d] = "refused"]
  /\ UNCHANGED <<tabVars, lstVars, dend, nend, endVars>>

(* ErrBadProto, without unlocking.                                         *)
DialBad(d) ==
  /\ ~stuck /\ dpc[d] = "try" /\ byAddr # NoOne /\ d \in Misfit
  /\ dpc' = [dpc EXCEPT ![d] = "bad"]
  /\ stuck' = TRUE
  /\ UNCHANGED <<byAddr, accepters, lstVars, dend, nend, endVars>>

Keep(s) == s                                 \* mutant: the end stays in the list

Shorten(s) == Front(s)

DialOk(d) ==
  LET s == Last(accepters[byAddr])  c == dend[d] IN
  /\ ~stuck /\ dpc[d] = "try" /\ d \notin Misfit
  /\ byAddr # NoOne /\ accepters[byAddr] # <<>>
  /\ accepters' = [accepters EXCEPT ![byAddr] = Shorten(@)]
  /\ peer' = [peer EXCEPT ![c] = s, ![s] = c]
  /\ ready' = [ready EXCEPT ![c] = @ + 1, ![s] = @ + 1]
  /\ dpc' = [dpc EXCEPT ![d] = "up"]
  /\ UNCHANGED <<byAddr, stuck, lstVars, dend, nend, shut, io>>

DialWait(d) ==
  /\ ~stuck /\ dpc[d] = "try" /\ d \notin Misfit
  /\ byAddr # NoOne /\ accepters[byAddr] = <<>>
  /\ dpc' = [dpc EXCEPT ![d] = "wait"]
  /\ UNCHANGED <<tabVars, lstVars, dend, nend, endVars>>

-----------------------------------------------------------------------------
(* The ends of a connection.  Send and Recv meet on an unbuffered channel. *)

IoCall(e, what) ==
  /\ Connected(e) /\ io[e] = "none"
  /\ io' = [io EXCEPT ![e] = what]
  /\ UNCHANGED <<tabVars, lstVars, dialVars, nend, peer, ready, shut>>

Transfer(e) ==
  /\ Connected(e) /\ io[e] = "send" /\ io[peer[e]] = "recv"
  /\ io' = [io EXCEPT ![e] = "none", ![peer[e]] = "none"]
  /\ UNCHANGED <<tabVars, lstVars, dialVars, nend, peer, ready, shut>>

OwnClosed(e) == e \in shut                   \* mutant: the peer's closeq is not watched

EitherClosed(e) == e \in shut \/ peer[e] \in shut

IoClosed(e) ==
  /\ io[e] # "none" /\ EitherClosed(e)
  /\ io' = [io EXCEPT ![e] = "none"]
  /\ UNCHANGED <<tabVars, lstVars, dialVars, nend, peer, ready, shut>>

CloseEnd(e) ==
  /\ Connected(e) /\ e \notin shut
  /\ shut' = shut \union {e}
  /\ UNCHANGED <<tabVars, lstVars, dialVars, nend, peer, ready, io>>

-----------------------------------------------------------------------------
AcceptStep(l) == AcceptCall(l) \/ AcceptReady(l) \/ AcceptClosed(l)
DialStep(d) == DialRefused(d) \/ DialBad(d) \/ DialOk(d) \/ DialWait(d)
IoStep(e) == Transfer(e) \/ IoClosed(e)

InprocNext ==
  \/ \E l \in Listener : InprocListen(l) \/ InprocClose(l) \/ AcceptStep(l)
  \/ \E d \in Dialer : DialCall(d) \/ DialStep(d)
  \/ \E e \in InprocEnd : IoStep(e) \/ CloseEnd(e) \/ \E w \in {"send", "recv"} : IoCall(e, w)

InprocSafeSpec == InprocInit /\ [][InprocNext]_inprocVars

(* Goroutines run.                                                         *)
InprocFairness ==
  /\ \A l \in Listener : WF_inprocVars(AcceptStep(l))
  /\ \A d \in Dialer : WF_inprocVars(DialStep(d))
  /\ \A e \in InprocEnd : WF_inprocVars(IoStep(e))

InprocSpec == InprocSafeSpec /\ InprocFairness

-----------------------------------------------------------------------------
(* Properties.                                                             *)

(* Every variable has its type.                                            *)
InprocTypeOK ==
  /\ byAddr \in Listener \union {NoOne} /\ accepters \in [Listener -> Seq(InprocEnd)]
  /\ stuck \in BOOLEAN /\ nlisten \in 0 .. MaxListen
  /\ lstate \in [Listener -> {"new", "open", "closed", "ended"}]
  /\ serving \in [Listener -> 0 .. MaxEnd]
  /\ dpc \in [Dialer -> {"idle", "try", "wait", "up", "refused", "bad"}]
  /\ dend \in [Dialer -> 0 .. MaxEnd] /\ nend \in 0 .. MaxEnd
  /\ peer \in [InprocEnd -> 0 .. MaxEnd] /\ ready \in [InprocEnd -> 0 .. 1] /\ shut \subseteq InprocEnd
  /\ io \in [InprocEnd -> {"none", "send", "recv"}]

(* A connection has two ends that know each other, and no server end is    *)
(* given to two dialers, however Dial, Accept and Close interleave; an     *)
(* Accept that returned ErrClosed left no half of a connection behind.     *)
OnePeer ==
  /\ \A e \in InprocEnd : peer[e] # 0 => peer[peer[e]] = e
  /\ \A l \in Listener : \A i \in DOMAIN accepters[l] :
       ~Connected(accepters[l][i]) /\ accepters[l][i] \notin shut

(* Every Dial comes back, whether the listener accepts or is closed while  *)
(* it waits, as long as ends may be made and the lock is not lost.         *)
DialReturns ==
  \A d \in Dialer : dpc[d] = "wait" ~> (dpc[d] # "wait" \/ stuck \/ nend = MaxEnd)

(* Send and Recv return when either end is closed.                         *)
CloseUnblocks ==
  \A e \in InprocEnd : (io[e] # "none" /\ {e, peer[e]} \intersect shut # {}) ~> io[e] = "none"

=============================================================================
