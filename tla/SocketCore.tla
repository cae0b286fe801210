----------------------------- MODULE SocketCore -----------------------------
(***************************************************************************)
(* The connection life cycle of one mangos socket (core.go, pipe.go): the  *)
(* dialer and listener goroutines that obtain transport connections,       *)
(* addPipe with its port hook, pipe.Close with its several callers, the    *)
(* process-wide table of pipe ids, the protocol's table of endpoints, and  *)
(* socket.Close.  Each action is one critical section, or one call that    *)
(* runs outside any lock, of one goroutine.                                *)
(*                                                                         *)
(* A member of Pipe is one transport connection together with the core's   *)
(* pipe that wraps it; every connection gets a pipe of its own.            *)
(***************************************************************************)
EXTENDS Integers, FiniteSets

CONSTANTS
  Pipe,             \* transport connections, each used at most once
  Dialer, Listener, \* the socket's dialers and listeners
  IdSpace,          \* ids are taken modulo IdSpace (2^31 in the code)
  ClearsEps,        \* protocol.Shutdown empties its endpoint table itself
                    \* (REP, PUB, BUS, STAR, SURVEYOR, RESPONDENT; not REQ, PUSH)
  AcceptErrClosed,  \* Accept on a closed PipeListener says ErrClosed
                    \* (inproc and ws; the net.Listener transports do not)
  HookMoves,        \* bound: the application may set and clear the port hook
                    \* at any time, else it does so only before the first pipe
  NoPipe

ASSUME IdSpaceAssumption == IdSpace \in Nat /\ IdSpace > 1
ASSUME FlagAssumption ==
  ClearsEps \in BOOLEAN /\ AcceptErrClosed \in BOOLEAN /\ HookMoves \in BOOLEAN
ASSUME NoPipeAssumption == NoPipe \notin Pipe
ASSUME OwnerAssumption == Dialer \intersect Listener = {}

VARIABLES
  nextid, byid,     \* pipes.nextid & 0x7fffffff, pipes.byid
  pid,              \* pid[p]: p.id
  stage, by,        \* stage[p]: how far addPipe is with p; by[p]: its caller
  cls,              \* cls[p]: how far pipe.Close is with p
  hadSock, capHook, \* what pipe.Close captured: p.sock # nil, and a hook
  tp,               \* tp[p]: the transport connection itself
  hook,             \* sock.porthook is set
  told, gone,       \* the application's view: answer to Add, Remove seen
  members, closing, \* sock.pipes (nil once closing), sock.closing and closeq
  spc, doomed, sweep, \* socket.Close: program counter, pipes left, current one
  eps, qshut,       \* protocol table id -> endpoint; how often its q was closed
  dpc, dclosed, dcq, dp, \* dialer goroutine, d.closed, d.closeq closed, p
  lpc, lopen        \* listener goroutine, transport listener open

idVars   == <<nextid, byid, pid>>
addVars  == <<stage, by, told>>
clsVars  == <<cls, hadSock, capHook, gone>>
sockVars == <<members, closing, spc, doomed, sweep>>
epVars   == <<eps, qshut>>
dVars    == <<dpc, dclosed, dcq, dp>>
lVars    == <<lpc, lopen>>
vars == <<idVars, addVars, clsVars, sockVars, epVars, dVars, lVars, tp, hook>>

Ids == 0 .. IdSpace - 1
Owner == Dialer \union Listener

Init ==
  /\ nextid \in Ids                     \* seeded from the clock
  /\ byid = [i \in Ids |-> NoPipe]
  /\ pid = [p \in Pipe |-> 0]
  /\ stage = [p \in Pipe |-> "none"]
  /\ by = [p \in Pipe |-> NoPipe]
  /\ cls = [p \in Pipe |-> "open"]
  /\ hadSock = [p \in Pipe |-> FALSE]
  /\ capHook = [p \in Pipe |-> FALSE]
  /\ tp = [p \in Pipe |-> "none"]
  /\ hook \in BOOLEAN
  /\ told = [p \in Pipe |-> "none"]
  /\ gone = [p \in Pipe |-> FALSE]
  /\ members = {} /\ closing = FALSE
  /\ spc = "open" /\ doomed = {} /\ sweep = NoPipe
  /\ eps = [i \in Ids |-> NoPipe]
  /\ qshut = [p \in Pipe |-> 0]
  /\ dpc = [d \in Dialer |-> "off"]
  /\ dclosed = [d \in Dialer |-> FALSE]
  /\ dcq = [d \in Dialer |-> FALSE]
  /\ dp = [d \in Dialer |-> NoPipe]
  /\ lpc = [l \in Listener |-> "new"]
  /\ lopen = [l \in Listener |-> FALSE]

(* p.sock is assigned by addPipe under the socket lock and never cleared.  *)
HasSock(p) == stage[p] \in {"joined", "attached"}

-----------------------------------------------------------------------------
(* pipe.Close.  Whoever calls it first does the work; every other caller   *)
(* returns at once, so only the first is recorded.                         *)

CloseCaptureEarly(p) ==           \* mutant: the hook is captured without a socket
  /\ hadSock' = [hadSock EXCEPT ![p] = HasSock(p)]
  /\ capHook' = [capHook EXCEPT ![p] = hook]

CloseCapture(p) ==
  /\ hadSock' = [hadSock EXCEPT ![p] = HasSock(p)]
  /\ capHook' = [capHook EXCEPT ![p] = HasSock(p) /\ hook]

BeginClose(p) ==
  /\ cls[p] = "open"
  /\ cls' = [cls EXCEPT ![p] = "marked"]
  /\ CloseCapture(p)
  /\ UNCHANGED gone

(* sock.remPipe, first half: the protocol forgets the endpoint and closes  *)
(* the queue of the entry it found under the pipe's id.                    *)
RemoveEndpoint(p) ==
  LET q == eps[pid[p]] IN
  /\ eps' = [eps EXCEPT ![pid[p]] = NoPipe]
  /\ qshut' = IF q = NoPipe THEN qshut ELSE [qshut EXCEPT ![q] = @ + 1]

CloseDetach(p) ==
  /\ cls[p] = "marked"
  /\ \/ /\ hadSock[p]
        /\ RemoveEndpoint(p)
        /\ cls' = [cls EXCEPT ![p] = "detached"]
     \/ /\ ~hadSock[p]
        /\ cls' = [cls EXCEPT ![p] = "unlinked"]
        /\ UNCHANGED epVars
  /\ UNCHANGED <<idVars, addVars, hadSock, capHook, gone, sockVars, dVars, lVars, tp, hook>>

(* remPipe, second half: deleting from sock.pipes, a no-op on the nil map. *)
CloseUnlink(p) ==
  /\ cls[p] = "detached"
  /\ cls' = [cls EXCEPT ![p] = "unlinked"]
  /\ members' = members \ {p}
  /\ UNCHANGED <<idVars, addVars, hadSock, capHook, gone, closing, spc, doomed, sweep,
                 epVars, dVars, lVars, tp, hook>>

CloseTransport(p) ==
  /\ cls[p] = "unlinked"
  /\ cls' = [cls EXCEPT ![p] = "shut"]
  /\ tp' = [tp EXCEPT ![p] = "shut"]
  /\ UNCHANGED <<idVars, addVars, hadSock, capHook, gone, sockVars, epVars, dVars, lVars, hook>>

CloseFreeId(p) ==
  /\ cls[p] = "shut"
  /\ cls' = [cls EXCEPT ![p] = "freed"]
  /\ byid' = [byid EXCEPT ![pid[p]] = NoPipe]
  /\ UNCHANGED <<nextid, pid, addVars, hadSock, capHook, gone, sockVars, epVars, dVars,
                 lVars, tp, hook>>

CloseHook(p) ==
  /\ cls[p] = "freed"
  /\ cls' = [cls EXCEPT ![p] = "closed"]
  /\ gone' = [gone EXCEPT ![p] = capHook[p]]
  /\ UNCHANGED <<idVars, addVars, hadSock, capHook, sockVars, epVars, dVars, lVars, tp, hook>>

CloseStep(p) ==
  \/ CloseDetach(p) \/ CloseUnlink(p) \/ CloseTransport(p) \/ CloseFreeId(p) \/ CloseHook(p)

-----------------------------------------------------------------------------
(* addPipe and newPipe, run by the goroutine by[p].                        *)

IdFreeUnchecked(i) == i # 0       \* mutant: an id in use is taken again

IdFree(i) == i # 0 /\ byid[i] = NoPipe

NextId(i) == (i + 1) % IdSpace

(* One turn of newPipe's loop.                                             *)
NewPipe(p) ==
  /\ stage[p] = "newid"
  /\ nextid' = NextId(nextid)
  /\ \/ /\ IdFree(nextid)
        /\ byid' = [byid EXCEPT ![nextid] = p]
        /\ pid' = [pid EXCEPT ![p] = nextid]
        /\ stage' = [stage EXCEPT ![p] = "entry"]
     \/ /\ ~IdFree(nextid)
        /\ UNCHANGED <<byid, pid, stage>>
  /\ UNCHANGED <<by, told, clsVars, sockVars, epVars, dVars, lVars, tp, hook>>

(* Still under the lock: sock.pipes is nil, or the pipe becomes a member.  *)
JoinLate(p) ==                    \* mutant: sock.pipes is not tested for nil
  stage' = [stage EXCEPT ![p] = "joined"] /\ members' = members \union {p}

Join(p) ==
  IF closing
  THEN stage' = [stage EXCEPT ![p] = "refused"] /\ UNCHANGED members
  ELSE stage' = [stage EXCEPT ![p] = "joined"] /\ members' = members \union {p}

AddEnter(p) ==
  /\ stage[p] = "entry"
  /\ \/ hook /\ stage' = [stage EXCEPT ![p] = "asked"] /\ UNCHANGED members
     \/ ~hook /\ Join(p)
  /\ UNCHANGED <<idVars, by, told, clsVars, closing, spc, doomed, sweep, epVars, dVars,
                 lVars, tp, hook>>

(* The hook returns; it runs without the socket lock.                      *)
HookAdd(p, ok) ==
  /\ stage[p] = "asked"
  /\ told' = [told EXCEPT ![p] = IF ok THEN "yes" ELSE "no"]
  /\ stage' = [stage EXCEPT ![p] = IF ok THEN "relock" ELSE "refused"]
  /\ UNCHANGED <<idVars, by, clsVars, sockVars, epVars, dVars, lVars, tp, hook>>

AddRelock(p) ==
  /\ stage[p] = "relock"
  /\ Join(p)
  /\ UNCHANGED <<idVars, by, told, clsVars, closing, spc, doomed, sweep, epVars, dVars,
                 lVars, tp, hook>>

(* After the unlock: proto.AddEndpoint, and addPipe returns p.             *)
EpsAddFirst(p) ==                 \* mutant: a second endpoint is silently ignored
  IF \E i \in Ids : eps[i] # NoPipe THEN eps ELSE [eps EXCEPT ![pid[p]] = p]

EpsAdd(p) == [eps EXCEPT ![pid[p]] = p]

AddEndpoint(p) ==
  /\ stage[p] = "joined"
  /\ stage' = [stage EXCEPT ![p] = "attached"]
  /\ eps' = EpsAdd(p)
  /\ UNCHANGED <<idVars, by, told, clsVars, sockVars, qshut, dVars, lVars, tp, hook>>

(* The refused pipe is closed, unless the application did that before.     *)
AddRefuse(p) ==
  /\ stage[p] = "refused"
  /\ \/ BeginClose(p) /\ stage' = [stage EXCEPT ![p] = "refusing"]
     \/ cls[p] # "open" /\ stage' = [stage EXCEPT ![p] = "nil"] /\ UNCHANGED clsVars
  /\ UNCHANGED <<idVars, by, told, sockVars, epVars, dVars, lVars, tp, hook>>

AddReturnNil(p) ==
  /\ stage[p] = "refusing" /\ cls[p] = "closed"
  /\ stage' = [stage EXCEPT ![p] = "nil"]
  /\ UNCHANGED <<idVars, by, told, clsVars, sockVars, epVars, dVars, lVars, tp, hook>>

AddStep(p) ==
  \/ NewPipe(p) \/ AddEnter(p) \/ AddRelock(p) \/ AddEndpoint(p)
  \/ AddRefuse(p) \/ AddReturnNil(p)
  \/ \E ok \in BOOLEAN : HookAdd(p, ok)

AddDone(p) == stage[p] \in {"attached", "nil"}

-----------------------------------------------------------------------------
(* Dialers.  Dial always makes a fresh closeq, and looks only at d.active. *)

Active(d) == dpc[d] # "off"

Dial(d) ==
  /\ ~Active(d)
  /\ dpc' = [dpc EXCEPT ![d] = "dialing"]
  /\ dcq' = [dcq EXCEPT ![d] = FALSE]
  /\ UNCHANGED <<idVars, addVars, clsVars, sockVars, epVars, dclosed, dp, lVars, tp, hook>>

DialerClose(d) ==
  /\ ~dclosed[d]
  /\ dclosed' = [dclosed EXCEPT ![d] = TRUE]
  /\ dcq' = [dcq EXCEPT ![d] = TRUE]
  /\ UNCHANGED <<idVars, addVars, clsVars, sockVars, epVars, dpc, dp, lVars, tp, hook>>

(* The transport connected.  A dialer closed meanwhile closes the raw      *)
(* connection and ends; otherwise the connection goes to addPipe.          *)
DialOk(d, p) ==
  /\ dpc[d] = "dialing" /\ stage[p] = "none" /\ tp[p] = "none"
  /\ \/ /\ dclosed[d]
        /\ tp' = [tp EXCEPT ![p] = "shut"]
        /\ dpc' = [dpc EXCEPT ![d] = "exited"]
        /\ UNCHANGED <<stage, by, dp>>
     \/ /\ ~dclosed[d]
        /\ tp' = [tp EXCEPT ![p] = "up"]
        /\ stage' = [stage EXCEPT ![p] = "newid"]
        /\ by' = [by EXCEPT ![p] = d]
        /\ dpc' = [dpc EXCEPT ![d] = "adding"]
        /\ dp' = [dp EXCEPT ![d] = p]
  /\ UNCHANGED <<idVars, told, clsVars, sockVars, epVars, dclosed, dcq, lVars, hook>>

DialFail(d) ==
  /\ dpc[d] = "dialing"
  /\ dpc' = [dpc EXCEPT ![d] = "backoff"]
  /\ dp' = [dp EXCEPT ![d] = NoPipe]
  /\ UNCHANGED <<idVars, addVars, clsVars, sockVars, epVars, dclosed, dcq, lVars, tp, hook>>

DialAdded(d) ==
  /\ dpc[d] = "adding" /\ AddDone(dp[d])
  /\ dpc' = [dpc EXCEPT ![d] = IF stage[dp[d]] = "attached" THEN "waiting" ELSE "backoff"]
  /\ UNCHANGED <<idVars, addVars, clsVars, sockVars, epVars, dclosed, dcq, dp, lVars, tp, hook>>

(* Socket closed, disconnect, or dialer closed.                            *)
WakeReadyDeaf(d) == closing \/ dcq[d] \* mutant: the disconnect is not waited for

WakeReady(d) == closing \/ cls[dp[d]] # "open" \/ dcq[d]

DialWake(d) ==
  /\ dpc[d] = "waiting"
  /\ WakeReady(d)
  /\ dpc' = [dpc EXCEPT ![d] = "backoff"]
  /\ UNCHANGED <<idVars, addVars, clsVars, sockVars, epVars, dclosed, dcq, dp, lVars, tp, hook>>

(* The last connection, if there is one, is closed under the core's pipe.  *)
RawClose(d) ==
  tp' = [p \in Pipe |-> IF p = dp[d] THEN "shut" ELSE tp[p]]

ExitReadySocket(d) == closing     \* mutant: the redial loop ignores d.closeq

ExitReady(d) == dcq[d] \/ closing

DialExit(d) ==
  /\ dpc[d] = "backoff"
  /\ ExitReady(d)
  /\ dpc' = [dpc EXCEPT ![d] = "exited"]
  /\ RawClose(d)
  /\ UNCHANGED <<idVars, addVars, clsVars, sockVars, epVars, dclosed, dcq, dp, lVars, hook>>

(* The reconnect timer fired.                                              *)
DialRetry(d) ==
  /\ dpc[d] = "backoff"
  /\ dpc' = [dpc EXCEPT ![d] = "dialing"]
  /\ UNCHANGED <<idVars, addVars, clsVars, sockVars, epVars, dclosed, dcq, dp, lVars, tp, hook>>

-----------------------------------------------------------------------------
(* Listeners.  The transport starts listening before the socket lists the  *)
(* listener among those that socket.Close will close.                      *)

ListenBind(l) ==
  /\ lpc[l] = "new"
  /\ lpc' = [lpc EXCEPT ![l] = "bound"]
  /\ lopen' = [lopen EXCEPT ![l] = TRUE]
  /\ UNCHANGED <<idVars, addVars, clsVars, sockVars, epVars, dVars, tp, hook>>

Listed(l) == lpc[l] \notin {"new", "bound"}

ListenList(l) ==
  /\ lpc[l] = "bound"
  /\ lpc' = [lpc EXCEPT ![l] = "top"]
  /\ UNCHANGED <<idVars, addVars, clsVars, sockVars, epVars, dVars, lopen, tp, hook>>

ServeTop(l) ==
  /\ lpc[l] = "top"
  /\ lpc' = [lpc EXCEPT ![l] = IF closing THEN "exited" ELSE "accept"]
  /\ UNCHANGED <<idVars, addVars, clsVars, sockVars, epVars, dVars, lopen, tp, hook>>

AcceptOk(l, p) ==
  /\ lpc[l] = "accept" /\ lopen[l] /\ stage[p] = "none" /\ tp[p] = "none"
  /\ lpc' = [lpc EXCEPT ![l] = "adding"]
  /\ tp' = [tp EXCEPT ![p] = "up"]
  /\ stage' = [stage EXCEPT ![p] = "newid"]
  /\ by' = [by EXCEPT ![p] = l]
  /\ UNCHANGED <<idVars, told, clsVars, sockVars, epVars, dVars, lopen, hook>>

(* Accept fails: a bad handshake, or the transport listener is closed.     *)
AcceptErr(l) ==
  /\ lpc[l] = "accept"
  /\ \/ lpc' = [lpc EXCEPT ![l] = "top"] /\ (lopen[l] \/ ~AcceptErrClosed)
     \/ lpc' = [lpc EXCEPT ![l] = "exited"] /\ ~lopen[l] /\ AcceptErrClosed
  /\ UNCHANGED <<idVars, addVars, clsVars, sockVars, epVars, dVars, lopen, tp, hook>>

ServeAdded(l) ==
  /\ lpc[l] = "adding"
  /\ \A p \in Pipe : by[p] = l => AddDone(p)
  /\ lpc' = [lpc EXCEPT ![l] = "top"]
  /\ UNCHANGED <<idVars, addVars, clsVars, sockVars, epVars, dVars, lopen, tp, hook>>

ListenerClose(l) ==
  /\ lopen[l]
  /\ lopen' = [lopen EXCEPT ![l] = FALSE]
  /\ UNCHANGED <<idVars, addVars, clsVars, sockVars, epVars, dVars, lpc, tp, hook>>

-----------------------------------------------------------------------------
(* socket.Close: the locked section, protocol.Shutdown, then the sweep     *)
(* over the pipes that were members.                                       *)

SurvivesCloseAll(l) == lopen[l]   \* mutant: Close forgets the listeners

SurvivesClose(l) == lopen[l] /\ ~Listed(l)

Close ==
  /\ ~closing
  /\ closing' = TRUE
  /\ spc' = "shutdown"
  /\ lopen' = [l \in Listener |-> SurvivesClose(l)]
  /\ doomed' = members
  /\ members' = {}
  /\ UNCHANGED <<idVars, addVars, clsVars, sweep, epVars, dVars, lpc, tp, hook>>

InTable(p) == \E i \in Ids : eps[i] = p

ShutdownTableKeep ==              \* mutant: queues are closed, entries stay
  /\ UNCHANGED eps
  /\ qshut' = [p \in Pipe |-> IF InTable(p) THEN qshut[p] + 1 ELSE qshut[p]]

ShutdownTable ==
  IF ClearsEps
  THEN /\ eps' = [i \in Ids |-> NoPipe]
       /\ qshut' = [p \in Pipe |-> IF InTable(p) THEN qshut[p] + 1 ELSE qshut[p]]
  ELSE UNCHANGED epVars

Shutdown ==
  /\ spc = "shutdown"
  /\ spc' = "sweep"
  /\ ShutdownTable
  /\ UNCHANGED <<idVars, addVars, clsVars, members, closing, doomed, sweep, dVars, lVars, tp, hook>>

SweepStart(p) ==
  /\ spc = "sweep" /\ sweep = NoPipe /\ p \in doomed
  /\ doomed' = doomed \ {p}
  /\ \/ BeginClose(p) /\ sweep' = p
     \/ cls[p] # "open" /\ UNCHANGED <<clsVars, sweep>>
  /\ UNCHANGED <<idVars, addVars, members, closing, spc, epVars, dVars, lVars, tp, hook>>

SweepNext ==
  /\ sweep \in Pipe /\ cls[sweep] = "closed"
  /\ sweep' = NoPipe
  /\ UNCHANGED <<idVars, addVars, clsVars, members, closing, spc, doomed, epVars, dVars,
                 lVars, tp, hook>>

CloseReturn ==
  /\ spc = "sweep" /\ sweep = NoPipe /\ doomed = {}
  /\ spc' = "closed"
  /\ UNCHANGED <<idVars, addVars, clsVars, members, closing, doomed, sweep, epVars, dVars,
                 lVars, tp, hook>>

-----------------------------------------------------------------------------
(* The environment: the application and the network.                       *)

SetPortHook ==
  /\ HookMoves
  /\ hook' = ~hook
  /\ UNCHANGED <<idVars, addVars, clsVars, sockVars, epVars, dVars, lVars, tp>>

(* Port.Close by an application that got the port from the hook, or from a *)
(* message (msg.Port).                                                     *)
PortClose(p) ==
  /\ stage[p] \in {"asked", "attached"} \/ told[p] # "none"
  /\ BeginClose(p)
  /\ UNCHANGED <<idVars, addVars, sockVars, epVars, dVars, lVars, tp, hook>>

Disconnect(p) ==
  /\ tp[p] = "up"
  /\ tp' = [tp EXCEPT ![p] = "broken"]
  /\ UNCHANGED <<idVars, addVars, clsVars, sockVars, epVars, dVars, lVars, hook>>

(* pipe.SendMsg or pipe.RecvMsg, called by the endpoint's goroutines,      *)
(* meets the dead connection.                                              *)
IoError(p) ==
  /\ stage[p] = "attached" /\ tp[p] \in {"broken", "shut"}
  /\ BeginClose(p)
  /\ UNCHANGED <<idVars, addVars, sockVars, epVars, dVars, lVars, tp, hook>>

-----------------------------------------------------------------------------
DialStep(d) ==
  \/ DialFail(d) \/ DialAdded(d) \/ DialWake(d) \/ DialExit(d) \/ DialRetry(d)
  \/ \E p \in Pipe : DialOk(d, p)

ServeStep(l) ==
  \/ ListenList(l) \/ ServeTop(l) \/ AcceptErr(l) \/ ServeAdded(l)
  \/ \E p \in Pipe : AcceptOk(l, p)

SockStep == Shutdown \/ SweepNext \/ CloseReturn \/ \E p \in Pipe : SweepStart(p)

Next ==
  \/ \E p \in Pipe : AddStep(p) \/ CloseStep(p) \/ PortClose(p) \/ Disconnect(p) \/ IoError(p)
  \/ \E d \in Dialer : Dial(d) \/ DialerClose(d) \/ DialStep(d)
  \/ \E l \in Listener : ListenBind(l) \/ ListenerClose(l) \/ ServeStep(l)
  \/ Close \/ SockStep
  \/ SetPortHook

(* Goroutines run: every enabled step of one is eventually taken.  A       *)
(* select with several ready cases picks one at random, so the exit of the *)
(* redial loop, ready on every turn, is picked in the end.                 *)
Fairness ==
  /\ \A p \in Pipe : WF_vars(AddStep(p)) /\ WF_vars(CloseStep(p)) /\ WF_vars(IoError(p))
  /\ \A d \in Dialer : WF_vars(DialStep(d)) /\ SF_vars(DialExit(d))
  /\ \A l \in Listener : WF_vars(ListenList(l) \/ ServeTop(l) \/ ServeAdded(l))
  /\ \A l \in Listener : WF_vars(~lopen[l] /\ AcceptErr(l))
  /\ WF_vars(SockStep)

Spec == Init /\ [][Next]_vars /\ Fairness

-----------------------------------------------------------------------------
(* Properties.                                                             *)

Stages == {"none", "newid", "entry", "asked", "relock", "joined", "attached",
           "refused", "refusing", "nil"}
CloseStages == {"open", "marked", "detached", "unlinked", "shut", "freed", "closed"}

(* Every variable of the core, the pipes and the goroutines has its type.  *)
TypeOK ==
  /\ nextid \in Ids
  /\ byid \in [Ids -> Pipe \union {NoPipe}]
  /\ pid \in [Pipe -> Ids]
  /\ stage \in [Pipe -> Stages]
  /\ by \in [Pipe -> Owner \union {NoPipe}]
  /\ cls \in [Pipe -> CloseStages]
  /\ hadSock \in [Pipe -> BOOLEAN]
  /\ capHook \in [Pipe -> BOOLEAN]
  /\ tp \in [Pipe -> {"none", "up", "broken", "shut"}]
  /\ hook \in BOOLEAN
  /\ told \in [Pipe -> {"none", "yes", "no"}]
  /\ gone \in [Pipe -> BOOLEAN]
  /\ members \subseteq Pipe
  /\ closing \in BOOLEAN
  /\ spc \in {"open", "shutdown", "sweep", "closed"}
  /\ doomed \subseteq Pipe
  /\ sweep \in Pipe \union {NoPipe}
  /\ eps \in [Ids -> Pipe \union {NoPipe}]
  /\ qshut \in [Pipe -> Nat]
  /\ dpc \in [Dialer -> {"off", "dialing", "adding", "waiting", "backoff", "exited"}]
  /\ dclosed \in [Dialer -> BOOLEAN]
  /\ dcq \in [Dialer -> BOOLEAN]
  /\ dp \in [Dialer -> Pipe \union {NoPipe}]
  /\ lpc \in [Listener -> {"new", "bound", "top", "accept", "adding", "exited"}]
  /\ lopen \in [Listener -> BOOLEAN]

HoldsId(p) == stage[p] \notin {"none", "newid"} /\ cls[p] \notin {"freed", "closed"}

(* A pipe owns its id, never zero, from newPipe until the last step of     *)
(* Close releases it: no other pipe is found under it, even after nextid   *)
(* has wrapped (pipe.go newPipe and Close; the protocols key on GetID).    *)
IdsUnique ==
  \A p \in Pipe : HoldsId(p) => pid[p] # 0 /\ byid[pid[p]] = p

(* The queue of an endpoint is closed at most once, although Shutdown and  *)
(* RemoveEndpoint both close queues: a second close of a Go channel would  *)
(* panic (AddEndpoint, RemoveEndpoint and Shutdown of the protocols).      *)
QueueClosedOnce == \A p \in Pipe : qshut[p] <= 1

(* When socket.Close has returned, Close has begun on every pipe that ever *)
(* became a member, and none joins any more, although addPipe runs without *)
(* the lock while it calls the port hook.                                  *)
CloseSweeps ==
  spc = "closed" => \A p \in Pipe : HasSock(p) => cls[p] # "open"

(* The hook sees PortActionRemove only for a port that joined the socket,  *)
(* never for one it vetoed or one the closing socket turned away.          *)
RemoveOnlyJoined == \A p \in Pipe : gone[p] => HasSock(p) /\ told[p] # "no"

(* A pipe that is still usable is in the protocol's table under its own id *)
(* until Shutdown, so that replies routed by id reach it.  With one serve  *)
(* goroutine that holds even when ids are reused; a late AddEndpoint of    *)
(* another goroutine could take a reused id over (see the README).         *)
LiveReachable ==
  spc \in {"open", "shutdown"} =>
    \A p \in Pipe : stage[p] = "attached" /\ cls[p] = "open" => eps[pid[p]] = p

Quiet ==
  /\ spc = "closed"
  /\ \A p \in Pipe : tp[p] \in {"none", "shut"}
  /\ \A d \in Dialer : dpc[d] \in {"off", "exited"}
  /\ \A l \in Listener : lpc[l] \in {"new", "exited"}

(* After socket.Close everything winds down: the close returns, every      *)
(* dialer and serve goroutine ends, and no connection stays open.          *)
CloseQuiesces == closing ~> Quiet

(* A dialer closed while its goroutine runs stops it.                      *)
DialerStops == \A d \in Dialer : (Active(d) /\ dcq[d]) ~> (dpc[d] = "exited")

(* After a disconnect the dialer dials again, unless it has been stopped.  *)
Redials ==
  \A d \in Dialer :
    (dpc[d] = "waiting" /\ tp[dp[d]] = "broken") ~> (dpc[d] \in {"dialing", "exited"})

=============================================================================
