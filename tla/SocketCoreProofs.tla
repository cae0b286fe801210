-------------------------- MODULE SocketCoreProofs --------------------------
(***************************************************************************)
(* Proofs about SocketCore, for any sets of pipes, dialers and listeners,  *)
(* any id space, any protocol and either kind of transport.                *)
(***************************************************************************)
EXTENDS SocketCore, TLAPS

(* The steps of the program, one disjunct per kind of actor, so that each  *)
(* proof below can split on them.                                          *)
LEMMA NextCases ==
  ASSUME Next
  PROVE  \/ \E p \in Pipe : AddStep(p) \/ CloseStep(p)
         \/ \E p \in Pipe : PortClose(p) \/ Disconnect(p) \/ IoError(p) \/ SweepStart(p)
         \/ \E d \in Dialer : Dial(d) \/ DialerClose(d) \/ DialStep(d)
         \/ \E l \in Listener : ListenBind(l) \/ ListenerClose(l) \/ ServeStep(l)
         \/ Close \/ Shutdown \/ SweepNext \/ CloseReturn \/ SetPortHook
  BY DEF Next, SockStep

(* Type correctness of the initial states.                                 *)
LEMMA TypeInit == Init => TypeOK
<1>1. 0 \in Ids BY IdSpaceAssumption DEF Ids
<1>2. Init => /\ nextid \in Ids /\ byid \in [Ids -> Pipe \union {NoPipe}]
              /\ pid \in [Pipe -> Ids] /\ stage \in [Pipe -> Stages]
              /\ by \in [Pipe -> Owner \union {NoPipe}] /\ cls \in [Pipe -> CloseStages]
  BY <1>1 DEF Init, Stages, CloseStages
<1>3. Init => /\ dpc \in [Dialer -> {"off", "dialing", "adding", "waiting", "backoff", "exited"}]
              /\ dclosed \in [Dialer -> BOOLEAN] /\ dcq \in [Dialer -> BOOLEAN]
              /\ dp \in [Dialer -> Pipe \union {NoPipe}]
              /\ lpc \in [Listener -> {"new", "bound", "top", "accept", "adding", "exited"}]
              /\ lopen \in [Listener -> BOOLEAN]
  BY DEF Init
<1>4. Init => /\ eps \in [Ids -> Pipe \union {NoPipe}] /\ qshut \in [Pipe -> Nat]
              /\ hadSock \in [Pipe -> BOOLEAN] /\ capHook \in [Pipe -> BOOLEAN]
              /\ gone \in [Pipe -> BOOLEAN] /\ told \in [Pipe -> {"none", "yes", "no"}]
              /\ tp \in [Pipe -> {"none", "up", "broken", "shut"}]
  BY DEF Init
<1>5. Init => /\ members \subseteq Pipe /\ doomed \subseteq Pipe
              /\ spc \in {"open", "shutdown", "sweep", "closed"}
              /\ closing \in BOOLEAN /\ sweep \in Pipe \union {NoPipe} /\ hook \in BOOLEAN
  BY DEF Init
<1> QED BY <1>2, <1>3, <1>4, <1>5 DEF TypeOK

(* Every step keeps the types.                                             *)
LEMMA TypeStep == TypeOK /\ [Next]_vars => TypeOK'
<1> SUFFICES ASSUME TypeOK, [Next]_vars PROVE TypeOK'
  OBVIOUS
<1> USE IdSpaceAssumption, FlagAssumption, NoPipeAssumption
    DEF TypeOK, Stages, CloseStages,
        idVars, addVars, clsVars, sockVars, epVars, dVars, lVars
<1>1. CASE UNCHANGED vars
  BY <1>1 DEF vars
<1>a. ASSUME NEW p \in Pipe, BeginClose(p)
      PROVE  /\ cls' \in [Pipe -> CloseStages] /\ hadSock' \in [Pipe -> BOOLEAN]
             /\ capHook' \in [Pipe -> BOOLEAN] /\ gone' \in [Pipe -> BOOLEAN]
  BY <1>a DEF BeginClose, CloseCapture, HasSock
<1>2. ASSUME NEW p \in Pipe, AddStep(p) PROVE TypeOK'
  <2>1. CASE NewPipe(p) 
    <3>1. NextId(nextid) \in Ids BY DEF NextId, Ids
    <3>2. CASE IdFree(nextid) BY <2>1, <3>1, <3>2 DEF NewPipe
    <3>3. CASE ~IdFree(nextid) BY <2>1, <3>1, <3>3 DEF NewPipe
    <3> QED BY <3>2, <3>3
  <2>a. Join(p) => stage' \in [Pipe -> Stages] /\ members' \subseteq Pipe BY DEF Join
  <2>2. CASE AddEnter(p) BY <2>a, <2>2 DEF AddEnter
  <2>3. CASE AddRelock(p) BY <2>a, <2>3 DEF AddRelock
  <2>4. CASE AddEndpoint(p) BY <2>4 DEF AddEndpoint, EpsAdd
  <2>5. CASE AddRefuse(p) BY <2>5, <1>a DEF AddRefuse
  <2>6. CASE AddReturnNil(p) BY <2>6 DEF AddReturnNil
  <2>7. ASSUME NEW ok \in BOOLEAN, HookAdd(p, ok) PROVE TypeOK' BY <2>7 DEF HookAdd
  <2> QED BY <1>2, <2>1, <2>2, <2>3, <2>4, <2>5, <2>6, <2>7 DEF AddStep
<1>3. ASSUME NEW p \in Pipe, CloseStep(p) PROVE TypeOK'
  <2>1. CASE CloseDetach(p) 
    <3>1. RemoveEndpoint(p) =>
            eps' \in [Ids -> Pipe \union {NoPipe}] /\ qshut' \in [Pipe -> Nat]
      BY DEF RemoveEndpoint
    <3> QED BY <2>1, <3>1 DEF CloseDetach
  <2>2. CASE CloseUnlink(p) BY <2>2 DEF CloseUnlink
  <2>3. CASE CloseTransport(p) BY <2>3 DEF CloseTransport
  <2>4. CASE CloseFreeId(p) BY <2>4 DEF CloseFreeId
  <2>5. CASE CloseHook(p) BY <2>5 DEF CloseHook
  <2> QED BY <1>3, <2>1, <2>2, <2>3, <2>4, <2>5 DEF CloseStep
<1>4. ASSUME NEW p \in Pipe,
             PortClose(p) \/ Disconnect(p) \/ IoError(p) \/ SweepStart(p)
      PROVE TypeOK'
  <2>1. CASE PortClose(p) BY <2>1, <1>a DEF PortClose
  <2>2. CASE Disconnect(p) BY <2>2 DEF Disconnect
  <2>3. CASE IoError(p) BY <2>3, <1>a DEF IoError
  <2>4. CASE SweepStart(p) BY <2>4, <1>a DEF SweepStart
  <2> QED BY <1>4, <2>1, <2>2, <2>3, <2>4
<1>5. ASSUME NEW d \in Dialer, Dial(d) \/ DialerClose(d) \/ DialStep(d)
      PROVE TypeOK'
  <2>1. CASE Dial(d) BY <2>1 DEF Dial
  <2>2. CASE DialerClose(d) BY <2>2 DEF DialerClose
  <2>3. CASE DialFail(d) BY <2>3 DEF DialFail
  <2>4. CASE DialAdded(d) BY <2>4 DEF DialAdded
  <2>5. CASE DialWake(d) BY <2>5 DEF DialWake
  <2>6. CASE DialExit(d) BY <2>6 DEF DialExit, RawClose
  <2>7. CASE DialRetry(d) BY <2>7 DEF DialRetry
  <2>8. ASSUME NEW p \in Pipe, DialOk(d, p) PROVE TypeOK'
    <3>1. CASE dclosed[d] BY <2>8, <3>1, SMTT(30) DEF DialOk
    <3>2. CASE ~dclosed[d] BY <2>8, <3>2 DEF DialOk, Owner
    <3> QED BY <3>1, <3>2
  <2> QED BY <1>5, <2>1, <2>2, <2>3, <2>4, <2>5, <2>6, <2>7, <2>8 DEF DialStep
<1>6. ASSUME NEW l \in Listener, ListenBind(l) \/ ListenerClose(l) \/ ServeStep(l)
      PROVE TypeOK'
  <2>1. CASE ListenBind(l) BY <2>1 DEF ListenBind
  <2>2. CASE ListenerClose(l) BY <2>2 DEF ListenerClose
  <2>3. CASE ListenList(l) BY <2>3 DEF ListenList
  <2>4. CASE ServeTop(l) BY <2>4 DEF ServeTop
  <2>5. CASE AcceptErr(l) BY <2>5 DEF AcceptErr
  <2>6. CASE ServeAdded(l) BY <2>6 DEF ServeAdded
  <2>7. ASSUME NEW p \in Pipe, AcceptOk(l, p) PROVE TypeOK' BY <2>7 DEF AcceptOk, Owner
  <2> QED BY <1>6, <2>1, <2>2, <2>3, <2>4, <2>5, <2>6, <2>7 DEF ServeStep
<1>7. CASE Close BY <1>7 DEF Close, SurvivesClose
<1>8. CASE Shutdown
  <2>1. ShutdownTable => eps' \in [Ids -> Pipe \union {NoPipe}] /\ qshut' \in [Pipe -> Nat]
    BY DEF ShutdownTable
  <2> QED BY <1>8, <2>1 DEF Shutdown
<1>9. CASE SweepNext BY <1>9 DEF SweepNext
<1>10. CASE CloseReturn BY <1>10 DEF CloseReturn
<1>11. CASE SetPortHook BY <1>11 DEF SetPortHook
<1> QED
  BY NextCases, <1>1, <1>2, <1>3, <1>4, <1>5, <1>6, <1>7, <1>8, <1>9, <1>10, <1>11

(* In every reachable state every variable has its type.                   *)
THEOREM TypeCorrect == Spec => []TypeOK
  BY TypeInit, TypeStep, PTL DEF Spec

-----------------------------------------------------------------------------
(* The part of the state the safety invariants speak about.                *)
core == <<idVars, stage, told, clsVars, sockVars, epVars>>

(* What DialOk and AcceptOk do to that part.                               *)
Connect(p) ==
  /\ stage[p] = "none"
  /\ stage' = [stage EXCEPT ![p] = "newid"]
  /\ UNCHANGED <<idVars, told, clsVars, sockVars, epVars>>

(* Seen from the core, a step of a dialer, of a listener or of the network *)
(* either hands over a new connection or changes nothing.                  *)
LEMMA CoreSteps ==
  ASSUME [Next]_vars
  PROVE  \/ UNCHANGED core
         \/ \E p \in Pipe : Connect(p) \/ AddStep(p)
         \/ \E p \in Pipe : CloseStep(p)
         \/ \E p \in Pipe : PortClose(p) \/ IoError(p) \/ SweepStart(p)
         \/ Close \/ Shutdown \/ SweepNext \/ CloseReturn
<1> USE DEF core, idVars, addVars, clsVars, sockVars, epVars
<1>1. CASE UNCHANGED vars BY <1>1 DEF vars
<1>2. ASSUME NEW d \in Dialer, Dial(d) \/ DialerClose(d) \/ DialStep(d)
      PROVE  UNCHANGED core \/ \E p \in Pipe : Connect(p)
  <2>1. ASSUME NEW p \in Pipe, DialOk(d, p) PROVE UNCHANGED core \/ Connect(p)
    BY <2>1 DEF DialOk, Connect
  <2>2. CASE Dial(d) \/ DialerClose(d) BY <2>2 DEF Dial, DialerClose
  <2>3. CASE DialFail(d) \/ DialAdded(d) \/ DialWake(d) \/ DialExit(d) \/ DialRetry(d)
    BY <2>3 DEF DialFail, DialAdded, DialWake, DialExit, DialRetry
  <2> QED BY <1>2, <2>1, <2>2, <2>3 DEF DialStep
<1>3. ASSUME NEW l \in Listener, ListenBind(l) \/ ListenerClose(l) \/ ServeStep(l)
      PROVE  UNCHANGED core \/ \E p \in Pipe : Connect(p)
  <2>1. ASSUME NEW p \in Pipe, AcceptOk(l, p) PROVE Connect(p)
    BY <2>1 DEF AcceptOk, Connect
  <2>2. CASE ListenBind(l) \/ ListenerClose(l) BY <2>2 DEF ListenBind, ListenerClose
  <2>3. CASE ListenList(l) \/ ServeTop(l) \/ AcceptErr(l) \/ ServeAdded(l)
    BY <2>3 DEF ListenList, ServeTop, AcceptErr, ServeAdded
  <2> QED BY <1>3, <2>1, <2>2, <2>3 DEF ServeStep
<1>4. ASSUME NEW p \in Pipe, Disconnect(p) PROVE UNCHANGED core
  BY <1>4 DEF Disconnect
<1>5. CASE SetPortHook BY <1>5 DEF SetPortHook
<1> QED BY NextCases, <1>1, <1>2, <1>3, <1>4, <1>5

-----------------------------------------------------------------------------
(* Where a pipe may be: untouched before the hook is asked, a member only  *)
(* once p.sock is set.                                                     *)
StageInv ==
  /\ \A p \in Pipe : stage[p] \in {"none", "newid", "entry"} =>
                       cls[p] = "open" /\ told[p] = "none"
  /\ members \subseteq {p \in Pipe : HasSock(p)}
  /\ doomed \subseteq {p \in Pipe : HasSock(p)}

(* What the hook has been told fits how far the pipe got.                  *)
HookInv ==
  \A p \in Pipe :
    /\ stage[p] = "asked" => told[p] = "none"
    /\ told[p] = "no" => ~HasSock(p) /\ stage[p] # "relock"
    /\ capHook[p] => HasSock(p)
    /\ gone[p] => capHook[p] /\ cls[p] = "closed"

(* A member on which Close has not begun is in the set the sweep covers.   *)
SweepInv ==
  /\ closing <=> spc # "open"
  /\ spc = "closed" => doomed = {}
  /\ \A p \in Pipe : HasSock(p) /\ cls[p] = "open" =>
                       IF closing THEN p \in doomed ELSE p \in members

(* An endpoint is in the table at most once, under its own id, with its    *)
(* queue open, and only after AddEndpoint.                                 *)
QueueInv ==
  /\ \A p \in Pipe : stage[p] # "attached" => qshut[p] = 0
  /\ \A p \in Pipe : qshut[p] <= 1
  /\ \A i \in Ids : \A p \in Pipe :
       eps[i] = p => stage[p] = "attached" /\ i = pid[p] /\ qshut[p] = 0

CoreInv == StageInv /\ HookInv /\ IdsUnique /\ SweepInv /\ QueueInv

(* Every step keeps a pipe's stage and its memberships in step.             *)
LEMMA StageStep == TypeOK /\ StageInv /\ [Next]_vars => StageInv'
<1> SUFFICES ASSUME TypeOK, StageInv, [Next]_vars PROVE StageInv'
  OBVIOUS
<1> USE IdSpaceAssumption, NoPipeAssumption
    DEF TypeOK, StageInv, Stages, HasSock, idVars, addVars, clsVars, sockVars, epVars
<1>1. CASE UNCHANGED core BY <1>1 DEF core
<1>2. ASSUME NEW p \in Pipe, Connect(p) PROVE StageInv' BY <1>2 DEF Connect
<1>3. ASSUME NEW p \in Pipe, AddStep(p) PROVE StageInv'
  <2>1. CASE NewPipe(p) BY <2>1 DEF NewPipe, IdFree
  <2>2. CASE AddEnter(p) BY <2>2 DEF AddEnter, Join
  <2>3. CASE AddRelock(p) BY <2>3 DEF AddRelock, Join
  <2>4. CASE AddEndpoint(p) BY <2>4 DEF AddEndpoint, EpsAdd
  <2>5. CASE AddRefuse(p) BY <2>5 DEF AddRefuse, BeginClose, CloseCapture
  <2>6. CASE AddReturnNil(p) BY <2>6 DEF AddReturnNil
  <2>7. ASSUME NEW ok \in BOOLEAN, HookAdd(p, ok) PROVE StageInv' BY <2>7 DEF HookAdd
  <2> QED BY <1>3, <2>1, <2>2, <2>3, <2>4, <2>5, <2>6, <2>7 DEF AddStep
<1>4. ASSUME NEW p \in Pipe, CloseStep(p) PROVE StageInv'
  <2>1. CASE CloseDetach(p) BY <2>1 DEF CloseDetach, RemoveEndpoint
  <2>2. CASE CloseUnlink(p) BY <2>2 DEF CloseUnlink
  <2>3. CASE CloseTransport(p) BY <2>3 DEF CloseTransport
  <2>4. CASE CloseFreeId(p) BY <2>4 DEF CloseFreeId
  <2>5. CASE CloseHook(p) BY <2>5 DEF CloseHook
  <2> QED BY <1>4, <2>1, <2>2, <2>3, <2>4, <2>5 DEF CloseStep
<1>5. ASSUME NEW p \in Pipe, PortClose(p) \/ IoError(p) \/ SweepStart(p) PROVE StageInv'
  <2>1. CASE PortClose(p) BY <2>1 DEF PortClose, BeginClose, CloseCapture
  <2>2. CASE IoError(p) BY <2>2 DEF IoError, BeginClose, CloseCapture
  <2>3. CASE SweepStart(p) BY <2>3 DEF SweepStart, BeginClose, CloseCapture
  <2> QED BY <1>5, <2>1, <2>2, <2>3
<1>6. CASE Close BY <1>6 DEF Close
<1>7. CASE Shutdown BY <1>7 DEF Shutdown, ShutdownTable, InTable
<1>8. CASE SweepNext BY <1>8 DEF SweepNext
<1>9. CASE CloseReturn BY <1>9 DEF CloseReturn
<1> QED BY CoreSteps, <1>1, <1>2, <1>3, <1>4, <1>5, <1>6, <1>7, <1>8, <1>9

(* Every step keeps the hook's view right.                                 *)
LEMMA HookStep == TypeOK /\ StageInv /\ HookInv /\ [Next]_vars => HookInv'
<1> SUFFICES ASSUME TypeOK, StageInv, HookInv, [Next]_vars PROVE HookInv'
  OBVIOUS
<1> USE IdSpaceAssumption, NoPipeAssumption
    DEF TypeOK, HookInv, StageInv, Stages, HasSock, idVars, addVars, clsVars, sockVars, epVars
<1>a. ASSUME NEW p \in Pipe, BeginClose(p)
      PROVE  /\ gone' = gone /\ cls[p] = "open"
             /\ capHook'[p] => HasSock(p)
             /\ \A q \in Pipe \ {p} : cls'[q] = cls[q] /\ capHook'[q] = capHook[q]
  <2>1. \A q \in Pipe \ {p} : cls'[q] = cls[q] /\ capHook'[q] = capHook[q]
    BY <1>a DEF BeginClose, CloseCapture
  <2>2. capHook'[p] => HasSock(p) BY <1>a DEF BeginClose, CloseCapture
  <2>3. gone' = gone /\ cls[p] = "open" BY <1>a DEF BeginClose
  <2> QED BY <2>1, <2>2, <2>3
<1>b. ASSUME NEW p \in Pipe, BeginClose(p) \/ UNCHANGED clsVars, stage' = stage, told' = told
      PROVE  HookInv'
  <2>1. CASE UNCHANGED clsVars BY <1>b, <2>1
  <2>2. CASE BeginClose(p) BY <1>a, <1>b, <2>2
  <2> QED BY <1>b, <2>1, <2>2
<1>1. CASE UNCHANGED core BY <1>1 DEF core
<1>2. ASSUME NEW p \in Pipe, Connect(p) PROVE HookInv' BY <1>2 DEF Connect
<1>3. ASSUME NEW p \in Pipe, AddStep(p) PROVE HookInv'
  <2>1. CASE NewPipe(p) BY <2>1 DEF NewPipe, IdFree
  <2>2. CASE AddEnter(p) BY <2>2 DEF AddEnter, Join
  <2>3. CASE AddRelock(p) BY <2>3 DEF AddRelock, Join
  <2>4. CASE AddEndpoint(p) BY <2>4 DEF AddEndpoint, EpsAdd
  <2>5. CASE AddRefuse(p)
    <3>1. BeginClose(p) \/ UNCHANGED clsVars BY <2>5 DEF AddRefuse
    <3>2. /\ told' = told /\ ~HasSock(p) /\ stage'[p] \in {"refusing", "nil"}
          /\ \A q \in Pipe \ {p} : stage'[q] = stage[q]
      BY <2>5 DEF AddRefuse
    <3> QED BY <3>1, <3>2, <1>a
  <2>6. CASE AddReturnNil(p) BY <2>6 DEF AddReturnNil
  <2>7. ASSUME NEW ok \in BOOLEAN, HookAdd(p, ok) PROVE HookInv' BY <2>7 DEF HookAdd
  <2> QED BY <1>3, <2>1, <2>2, <2>3, <2>4, <2>5, <2>6, <2>7 DEF AddStep
<1>4. ASSUME NEW p \in Pipe, CloseStep(p) PROVE HookInv'
  <2>1. CASE CloseDetach(p) BY <2>1 DEF CloseDetach, RemoveEndpoint
  <2>2. CASE CloseUnlink(p) BY <2>2 DEF CloseUnlink
  <2>3. CASE CloseTransport(p) BY <2>3 DEF CloseTransport
  <2>4. CASE CloseFreeId(p) BY <2>4 DEF CloseFreeId
  <2>5. CASE CloseHook(p) BY <2>5 DEF CloseHook
  <2> QED BY <1>4, <2>1, <2>2, <2>3, <2>4, <2>5 DEF CloseStep
<1>5. ASSUME NEW p \in Pipe, PortClose(p) \/ IoError(p) \/ SweepStart(p) PROVE HookInv'
  <2>1. CASE PortClose(p)
    <3>1. BeginClose(p) \/ UNCHANGED clsVars BY <2>1 DEF PortClose
    <3>2. stage' = stage /\ told' = told BY <2>1 DEF PortClose
    <3> QED BY <3>1, <3>2, <1>b
  <2>2. CASE IoError(p)
    <3>1. BeginClose(p) \/ UNCHANGED clsVars BY <2>2 DEF IoError
    <3>2. stage' = stage /\ told' = told BY <2>2 DEF IoError
    <3> QED BY <3>1, <3>2, <1>b
  <2>3. CASE SweepStart(p)
    <3>1. BeginClose(p) \/ UNCHANGED clsVars BY <2>3 DEF SweepStart
    <3>2. stage' = stage /\ told' = told BY <2>3 DEF SweepStart
    <3> QED BY <3>1, <3>2, <1>b
  <2> QED BY <1>5, <2>1, <2>2, <2>3
<1>6. CASE Close BY <1>6 DEF Close
<1>7. CASE Shutdown BY <1>7 DEF Shutdown, ShutdownTable, InTable
<1>8. CASE SweepNext BY <1>8 DEF SweepNext
<1>9. CASE CloseReturn BY <1>9 DEF CloseReturn
<1> QED BY CoreSteps, <1>1, <1>2, <1>3, <1>4, <1>5, <1>6, <1>7, <1>8, <1>9

(* Every step keeps ids unique.                                            *)
LEMMA IdStep == TypeOK /\ StageInv /\ IdsUnique /\ [Next]_vars => IdsUnique'
<1> SUFFICES ASSUME TypeOK, StageInv, IdsUnique, [Next]_vars PROVE IdsUnique'
  OBVIOUS
<1> USE IdSpaceAssumption, NoPipeAssumption
    DEF TypeOK, IdsUnique, StageInv, HoldsId, HasSock, idVars, addVars, clsVars, sockVars, epVars
<1>1. CASE UNCHANGED core BY <1>1 DEF core
<1>2. ASSUME NEW p \in Pipe, Connect(p) PROVE IdsUnique' BY <1>2 DEF Connect
<1>3. ASSUME NEW p \in Pipe, AddStep(p) PROVE IdsUnique'
  <2>1. CASE NewPipe(p) BY <2>1 DEF NewPipe, IdFree
  <2>2. CASE AddEnter(p) BY <2>2 DEF AddEnter, Join
  <2>3. CASE AddRelock(p) BY <2>3 DEF AddRelock, Join
  <2>4. CASE AddEndpoint(p) BY <2>4 DEF AddEndpoint, EpsAdd
  <2>5. CASE AddRefuse(p) BY <2>5 DEF AddRefuse, BeginClose, CloseCapture
  <2>6. CASE AddReturnNil(p) BY <2>6 DEF AddReturnNil
  <2>7. ASSUME NEW ok \in BOOLEAN, HookAdd(p, ok) PROVE IdsUnique' BY <2>7 DEF HookAdd
  <2> QED BY <1>3, <2>1, <2>2, <2>3, <2>4, <2>5, <2>6, <2>7 DEF AddStep
<1>4. ASSUME NEW p \in Pipe, CloseStep(p) PROVE IdsUnique'
  <2>1. CASE CloseDetach(p) BY <2>1 DEF CloseDetach, RemoveEndpoint
  <2>2. CASE CloseUnlink(p) BY <2>2 DEF CloseUnlink
  <2>3. CASE CloseTransport(p) BY <2>3 DEF CloseTransport
  <2>4. CASE CloseFreeId(p) BY <2>4 DEF CloseFreeId
  <2>5. CASE CloseHook(p) BY <2>5 DEF CloseHook
  <2> QED BY <1>4, <2>1, <2>2, <2>3, <2>4, <2>5 DEF CloseStep
<1>5. ASSUME NEW p \in Pipe, PortClose(p) \/ IoError(p) \/ SweepStart(p) PROVE IdsUnique'
  <2>1. CASE PortClose(p) BY <2>1 DEF PortClose, BeginClose, CloseCapture
  <2>2. CASE IoError(p) BY <2>2 DEF IoError, BeginClose, CloseCapture
  <2>3. CASE SweepStart(p) BY <2>3 DEF SweepStart, BeginClose, CloseCapture
  <2> QED BY <1>5, <2>1, <2>2, <2>3
<1>6. CASE Close BY <1>6 DEF Close
<1>7. CASE Shutdown BY <1>7 DEF Shutdown, ShutdownTable, InTable
<1>8. CASE SweepNext BY <1>8 DEF SweepNext
<1>9. CASE CloseReturn BY <1>9 DEF CloseReturn
<1> QED BY CoreSteps, <1>1, <1>2, <1>3, <1>4, <1>5, <1>6, <1>7, <1>8, <1>9

(* Every step keeps the open members covered.                              *)
LEMMA SweepStep == TypeOK /\ SweepInv /\ [Next]_vars => SweepInv'
<1> SUFFICES ASSUME TypeOK, SweepInv, [Next]_vars PROVE SweepInv'
  OBVIOUS
<1> USE IdSpaceAssumption, NoPipeAssumption
    DEF TypeOK, SweepInv, HasSock, idVars, addVars, clsVars, sockVars, epVars
<1>1. CASE UNCHANGED core BY <1>1 DEF core
<1>2. ASSUME NEW p \in Pipe, Connect(p) PROVE SweepInv' BY <1>2 DEF Connect
<1>3. ASSUME NEW p \in Pipe, AddStep(p) PROVE SweepInv'
  <2>1. CASE NewPipe(p) BY <2>1 DEF NewPipe, IdFree
  <2>2. CASE AddEnter(p) BY <2>2 DEF AddEnter, Join
  <2>3. CASE AddRelock(p) BY <2>3 DEF AddRelock, Join
  <2>4. CASE AddEndpoint(p) BY <2>4 DEF AddEndpoint, EpsAdd
  <2>5. CASE AddRefuse(p) BY <2>5 DEF AddRefuse, BeginClose, CloseCapture
  <2>6. CASE AddReturnNil(p) BY <2>6 DEF AddReturnNil
  <2>7. ASSUME NEW ok \in BOOLEAN, HookAdd(p, ok) PROVE SweepInv' BY <2>7 DEF HookAdd
  <2> QED BY <1>3, <2>1, <2>2, <2>3, <2>4, <2>5, <2>6, <2>7 DEF AddStep
<1>4. ASSUME NEW p \in Pipe, CloseStep(p) PROVE SweepInv'
  <2>1. CASE CloseDetach(p) BY <2>1 DEF CloseDetach, RemoveEndpoint
  <2>2. CASE CloseUnlink(p) BY <2>2 DEF CloseUnlink
  <2>3. CASE CloseTransport(p) BY <2>3 DEF CloseTransport
  <2>4. CASE CloseFreeId(p) BY <2>4 DEF CloseFreeId
  <2>5. CASE CloseHook(p) BY <2>5 DEF CloseHook
  <2> QED BY <1>4, <2>1, <2>2, <2>3, <2>4, <2>5 DEF CloseStep
<1>5. ASSUME NEW p \in Pipe, PortClose(p) \/ IoError(p) \/ SweepStart(p) PROVE SweepInv'
  <2>1. CASE PortClose(p) BY <2>1 DEF PortClose, BeginClose, CloseCapture
  <2>2. CASE IoError(p) BY <2>2 DEF IoError, BeginClose, CloseCapture
  <2>3. CASE SweepStart(p) BY <2>3 DEF SweepStart, BeginClose, CloseCapture
  <2> QED BY <1>5, <2>1, <2>2, <2>3
<1>6. CASE Close BY <1>6 DEF Close
<1>7. CASE Shutdown BY <1>7 DEF Shutdown, ShutdownTable, InTable
<1>8. CASE SweepNext BY <1>8 DEF SweepNext
<1>9. CASE CloseReturn BY <1>9 DEF CloseReturn
<1> QED BY CoreSteps, <1>1, <1>2, <1>3, <1>4, <1>5, <1>6, <1>7, <1>8, <1>9

(* Every step keeps the endpoint table and the queues consistent.          *)
LEMMA QueueStep == TypeOK /\ QueueInv /\ [Next]_vars => QueueInv'
<1> SUFFICES ASSUME TypeOK, QueueInv, [Next]_vars PROVE QueueInv'
  OBVIOUS
<1> USE IdSpaceAssumption, NoPipeAssumption
    DEF TypeOK, QueueInv, HasSock, idVars, addVars, clsVars, sockVars, epVars
<1>1. CASE UNCHANGED core BY <1>1 DEF core
<1>2. ASSUME NEW p \in Pipe, Connect(p) PROVE QueueInv' BY <1>2 DEF Connect
<1>3. ASSUME NEW p \in Pipe, AddStep(p) PROVE QueueInv'
  <2>1. CASE NewPipe(p) BY <2>1 DEF NewPipe, IdFree
  <2>2. CASE AddEnter(p) BY <2>2 DEF AddEnter, Join
  <2>3. CASE AddRelock(p) BY <2>3 DEF AddRelock, Join
  <2>4. CASE AddEndpoint(p) BY <2>4 DEF AddEndpoint, EpsAdd
  <2>5. CASE AddRefuse(p) BY <2>5 DEF AddRefuse, BeginClose, CloseCapture
  <2>6. CASE AddReturnNil(p) BY <2>6 DEF AddReturnNil
  <2>7. ASSUME NEW ok \in BOOLEAN, HookAdd(p, ok) PROVE QueueInv' BY <2>7 DEF HookAdd
  <2> QED BY <1>3, <2>1, <2>2, <2>3, <2>4, <2>5, <2>6, <2>7 DEF AddStep
<1>4. ASSUME NEW p \in Pipe, CloseStep(p) PROVE QueueInv'
  <2>1. CASE CloseDetach(p)
    <3>1. CASE eps[pid[p]] = NoPipe BY <2>1, <3>1 DEF CloseDetach, RemoveEndpoint
    <3>2. CASE eps[pid[p]] # NoPipe
      <4>1. PICK q \in Pipe : eps[pid[p]] = q BY <3>2
      <4>2. CASE hadSock[p]
        <5>1. /\ eps' = [eps EXCEPT ![pid[p]] = NoPipe]
              /\ qshut' = [qshut EXCEPT ![q] = @ + 1]
          BY <2>1, <3>2, <4>1, <4>2 DEF CloseDetach, RemoveEndpoint
        <5>2. stage' = stage /\ pid' = pid BY <2>1 DEF CloseDetach
        <5>3. stage[q] = "attached" /\ pid[q] = pid[p] /\ qshut[q] = 0 BY <4>1
        <5> QED BY <4>1, <5>1, <5>2, <5>3
      <4>3. CASE ~hadSock[p] BY <2>1, <4>3 DEF CloseDetach
      <4> QED BY <4>2, <4>3
    <3> QED BY <3>1, <3>2
  <2>2. CASE CloseUnlink(p) BY <2>2 DEF CloseUnlink
  <2>3. CASE CloseTransport(p) BY <2>3 DEF CloseTransport
  <2>4. CASE CloseFreeId(p) BY <2>4 DEF CloseFreeId
  <2>5. CASE CloseHook(p) BY <2>5 DEF CloseHook
  <2> QED BY <1>4, <2>1, <2>2, <2>3, <2>4, <2>5 DEF CloseStep
<1>5. ASSUME NEW p \in Pipe, PortClose(p) \/ IoError(p) \/ SweepStart(p) PROVE QueueInv'
  <2>1. CASE PortClose(p) BY <2>1 DEF PortClose, BeginClose, CloseCapture
  <2>2. CASE IoError(p) BY <2>2 DEF IoError, BeginClose, CloseCapture
  <2>3. CASE SweepStart(p) BY <2>3 DEF SweepStart, BeginClose, CloseCapture
  <2> QED BY <1>5, <2>1, <2>2, <2>3
<1>6. CASE Close BY <1>6 DEF Close
<1>7. CASE Shutdown BY <1>7, SMTT(30) DEF Shutdown, ShutdownTable, InTable
<1>8. CASE SweepNext BY <1>8 DEF SweepNext
<1>9. CASE CloseReturn BY <1>9 DEF CloseReturn
<1> QED BY CoreSteps, <1>1, <1>2, <1>3, <1>4, <1>5, <1>6, <1>7, <1>8, <1>9

-----------------------------------------------------------------------------
(* The inductive invariant: it holds initially, and CoreStep keeps it.     *)
LEMMA CoreInit == Init => CoreInv
<1> SUFFICES ASSUME Init PROVE CoreInv OBVIOUS
<1>1. StageInv /\ HookInv BY DEF Init, StageInv, HookInv, HasSock
<1>2. IdsUnique BY DEF Init, IdsUnique, HoldsId
<1>3. SweepInv BY DEF Init, SweepInv, HasSock
<1>4. QueueInv BY NoPipeAssumption DEF Init, QueueInv
<1> QED BY <1>1, <1>2, <1>3, <1>4 DEF CoreInv

(* CoreInv, with the types, is inductive, and so an invariant.             *)
THEOREM CoreInvariant == Spec => []CoreInv
<1>1. TypeOK /\ CoreInv /\ [Next]_vars => CoreInv'
  BY StageStep, HookStep, IdStep, SweepStep, QueueStep DEF CoreInv
<1> QED BY <1>1, CoreInit, TypeCorrect, PTL DEF Spec

(* No two pipes are ever found under the same id, for any size of the id   *)
(* space and any number of pipes that come and go (pipe.go newPipe/Close). *)
THEOREM IdsAreUnique == Spec => []IdsUnique
<1>1. CoreInv => IdsUnique BY DEF CoreInv
<1> QED BY <1>1, CoreInvariant, PTL

(* No endpoint queue is closed twice, whichever of Shutdown and            *)
(* RemoveEndpoint comes first.                                             *)
THEOREM QueuesCloseOnce == Spec => []QueueClosedOnce
<1>1. CoreInv => QueueClosedOnce 
  <2>1. CoreInv => QueueInv BY DEF CoreInv
  <2>2. QueueInv => QueueClosedOnce BY DEF QueueInv, QueueClosedOnce
  <2> QED BY <2>1, <2>2
<1> QED BY <1>1, CoreInvariant, PTL

(* No member survives socket.Close, whatever addPipe was doing meanwhile.  *)
THEOREM CloseSweepsAll == Spec => []CloseSweeps
<1>1. CoreInv => CloseSweeps BY DEF CoreInv, SweepInv, CloseSweeps
<1> QED BY <1>1, CoreInvariant, PTL

(* PortActionRemove is reported only for ports that joined the socket.     *)
THEOREM RemoveOnlyForJoined == Spec => []RemoveOnlyJoined
<1>1. CoreInv => RemoveOnlyJoined BY DEF CoreInv, HookInv, RemoveOnlyJoined
<1> QED BY <1>1, CoreInvariant, PTL

-----------------------------------------------------------------------------
(* A dialer or serve goroutine runs addPipe for one pipe at a time.        *)
Adding(p) == stage[p] \notin {"none", "attached", "nil"}

OneAtATime ==
  /\ \A p \in Pipe : Adding(p) =>
       \/ by[p] \in Dialer /\ dpc[by[p]] = "adding" /\ dp[by[p]] = p
       \/ by[p] \in Listener /\ lpc[by[p]] = "adding"
  /\ \A p, r \in Pipe : Adding(p) /\ Adding(r) /\ by[p] = by[r] => p = r

LEMMA OneInit == Init => OneAtATime
  BY DEF Init, OneAtATime, Adding

LEMMA OneStep == TypeOK /\ OneAtATime /\ [Next]_vars => OneAtATime'
<1> SUFFICES ASSUME TypeOK, OneAtATime, [Next]_vars PROVE OneAtATime'
  OBVIOUS
<1> USE OwnerAssumption, NoPipeAssumption
    DEF OneAtATime, Adding, idVars, addVars, clsVars, sockVars, epVars, dVars, lVars
<1>t. /\ stage \in [Pipe -> Stages] /\ by \in [Pipe -> Owner \union {NoPipe}]
      /\ dpc \in [Dialer -> {"off", "dialing", "adding", "waiting", "backoff", "exited"}]
      /\ dp \in [Dialer -> Pipe \union {NoPipe}]
      /\ lpc \in [Listener -> {"new", "bound", "top", "accept", "adding", "exited"}]
  BY DEF TypeOK
<1>1. CASE UNCHANGED <<stage, by, dpc, dp, lpc>> BY <1>1
<1>2. ASSUME NEW p \in Pipe, AddStep(p) PROVE OneAtATime'
  <2>1. UNCHANGED <<by, dpc, dp, lpc>> /\ Adding(p)
    BY <1>2 DEF AddStep, NewPipe, AddEnter, AddRelock, AddEndpoint, AddRefuse, AddReturnNil, HookAdd
  <2>2. \A r \in Pipe : r # p => stage'[r] = stage[r]
    BY <1>t, <1>2 DEF AddStep, NewPipe, AddEnter, AddRelock, AddEndpoint, AddRefuse, AddReturnNil,
                      HookAdd, Join
  <2> QED BY <2>1, <2>2
<1>3. ASSUME NEW d \in Dialer, Dial(d) \/ DialStep(d) PROVE OneAtATime'
  <2>1. CASE Dial(d) BY <1>t, <2>1 DEF Dial, Active
  <2>2. CASE DialFail(d) BY <1>t, <2>2 DEF DialFail
  <2>3. CASE DialAdded(d) BY <1>t, <2>3 DEF DialAdded, AddDone
  <2>4. CASE DialWake(d) BY <1>t, <2>4 DEF DialWake
  <2>5. CASE DialExit(d) BY <1>t, <2>5 DEF DialExit
  <2>6. CASE DialRetry(d) BY <1>t, <2>6 DEF DialRetry
  <2>7. ASSUME NEW p \in Pipe, DialOk(d, p) PROVE OneAtATime'
    <3>1. CASE dclosed[d] BY <1>t, <2>7, <3>1 DEF DialOk
    <3>2. CASE ~dclosed[d]
      <4>1. /\ stage' = [stage EXCEPT ![p] = "newid"] /\ by' = [by EXCEPT ![p] = d]
            /\ dpc' = [dpc EXCEPT ![d] = "adding"] /\ dp' = [dp EXCEPT ![d] = p]
            /\ UNCHANGED lpc /\ stage[p] = "none" /\ dpc[d] = "dialing"
        BY <2>7, <3>2 DEF DialOk
      <4>2. \A r \in Pipe : Adding(r) => by[r] # d /\ r # p BY <4>1
      <4> QED BY <1>t, <4>1, <4>2
    <3> QED BY <3>1, <3>2
  <2> QED BY <1>3, <2>1, <2>2, <2>3, <2>4, <2>5, <2>6, <2>7 DEF DialStep
<1>4. ASSUME NEW l \in Listener, ListenBind(l) \/ ServeStep(l) PROVE OneAtATime'
  <2>1. CASE ListenBind(l) BY <1>t, <2>1 DEF ListenBind
  <2>2. CASE ListenList(l) BY <1>t, <2>2 DEF ListenList
  <2>3. CASE ServeTop(l) BY <1>t, <2>3 DEF ServeTop
  <2>4. CASE AcceptErr(l) BY <1>t, <2>4 DEF AcceptErr
  <2>5. CASE ServeAdded(l) BY <1>t, <2>5 DEF ServeAdded, AddDone
  <2>6. ASSUME NEW p \in Pipe, AcceptOk(l, p) PROVE OneAtATime'
    <3>1. /\ stage' = [stage EXCEPT ![p] = "newid"] /\ by' = [by EXCEPT ![p] = l]
          /\ lpc' = [lpc EXCEPT ![l] = "adding"] /\ UNCHANGED <<dpc, dp>>
          /\ stage[p] = "none" /\ lpc[l] = "accept"
      BY <2>6 DEF AcceptOk
    <3>2. \A r \in Pipe : Adding(r) => by[r] # l /\ r # p BY <3>1
    <3> QED BY <1>t, <3>1, <3>2
  <2> QED BY <1>4, <2>1, <2>2, <2>3, <2>4, <2>5, <2>6 DEF ServeStep
<1> QED
  BY NextCases, <1>1, <1>2, <1>3, <1>4
  DEF vars, CloseStep, CloseDetach, CloseUnlink, CloseTransport, CloseFreeId, CloseHook, PortClose,
      Disconnect, IoError, SweepStart, DialerClose, ListenerClose, Close, Shutdown, SweepNext,
      CloseReturn, SetPortHook

(* With one such goroutine, no pipe that is being added shares its id with *)
(* one in use: the latter had its id before, and keeps it while it is in   *)
(* use.                                                                    *)
OneOwner == \A a, b \in Owner : a = b

InUse(p) == stage[p] = "attached" /\ cls[p] = "open"

ReachInv ==
  /\ \A p, r \in Pipe : Adding(p) /\ stage[p] # "newid" /\ InUse(r) => pid[p] # pid[r]
  /\ LiveReachable

LEMMA ReachStep ==
  ASSUME OneOwner, TypeOK, StageInv, IdsUnique, SweepInv, OneAtATime, ReachInv, [Next]_vars
  PROVE  ReachInv'
<1> USE IdSpaceAssumption, NoPipeAssumption
    DEF ReachInv, LiveReachable, InUse, Adding, idVars, addVars, clsVars, sockVars, epVars
<1>t. /\ stage \in [Pipe -> Stages] /\ cls \in [Pipe -> CloseStages] /\ pid \in [Pipe -> Ids]
      /\ eps \in [Ids -> Pipe \union {NoPipe}]
  BY DEF TypeOK
<1>o. \A p, r \in Pipe : Adding(p) /\ Adding(r) => p = r
  BY DEF OneOwner, OneAtATime, Owner
<1>i. \A p, r \in Pipe : HoldsId(p) /\ HoldsId(r) /\ pid[p] = pid[r] => p = r BY DEF IdsUnique
<1>h. \A r \in Pipe : InUse(r) => HoldsId(r) BY DEF HoldsId
<1>1. CASE UNCHANGED core BY <1>1 DEF core
<1>2. ASSUME NEW p \in Pipe, Connect(p) PROVE ReachInv' BY <1>t, <1>2 DEF Connect
<1>3. ASSUME NEW p \in Pipe, AddStep(p) PROVE ReachInv'
  <2>1. CASE NewPipe(p)
    <3>1. CASE ~IdFree(nextid) BY <2>1, <3>1 DEF NewPipe
    <3>2. CASE IdFree(nextid)
      <4>1. /\ pid' = [pid EXCEPT ![p] = nextid] /\ stage' = [stage EXCEPT ![p] = "entry"]
            /\ UNCHANGED <<clsVars, sockVars, epVars>> /\ stage[p] = "newid"
        BY <2>1, <3>2 DEF NewPipe, IdFree
      <4>2. \A r \in Pipe : InUse(r) => pid[r] # nextid
        BY <1>h, <3>2 DEF IdFree, IdsUnique
      <4>3. \A r \in Pipe : r # p => ~Adding(r) BY <1>o, <4>1
      <4> QED BY <1>t, <4>1, <4>2, <4>3
    <3> QED BY <3>1, <3>2
  <2>2. CASE AddEnter(p) BY <1>t, <2>2 DEF AddEnter, Join
  <2>3. CASE AddRelock(p) BY <1>t, <2>3 DEF AddRelock, Join
  <2>4. CASE AddEndpoint(p)
    <3>1. /\ stage[p] = "joined" /\ stage' = [stage EXCEPT ![p] = "attached"]
          /\ eps' = [eps EXCEPT ![pid[p]] = p] /\ UNCHANGED <<pid, clsVars, sockVars>>
      BY <2>4 DEF AddEndpoint, EpsAdd
    <3>2. \A r \in Pipe : r # p => ~Adding(r) BY <1>o, <3>1
    <3>3. \A r \in Pipe : InUse(r) => pid[r] # pid[p] BY <3>1
    <3> QED BY <1>t, <3>1, <3>2, <3>3
  <2>5. CASE AddRefuse(p) BY <1>t, <2>5 DEF AddRefuse, BeginClose, CloseCapture
  <2>6. CASE AddReturnNil(p) BY <1>t, <2>6 DEF AddReturnNil
  <2>7. ASSUME NEW ok \in BOOLEAN, HookAdd(p, ok) PROVE ReachInv' BY <1>t, <2>7 DEF HookAdd
  <2> QED BY <1>3, <2>1, <2>2, <2>3, <2>4, <2>5, <2>6, <2>7 DEF AddStep
<1>4. ASSUME NEW p \in Pipe, CloseStep(p) PROVE ReachInv'
  <2>1. CASE CloseDetach(p)
    <3>1. /\ cls[p] = "marked" /\ UNCHANGED <<stage, pid, spc>>
          /\ \A r \in Pipe : r # p => cls'[r] = cls[r]
          /\ cls'[p] # "open"
          /\ eps' = eps \/ eps' = [eps EXCEPT ![pid[p]] = NoPipe]
      BY <1>t, <2>1 DEF CloseDetach, RemoveEndpoint
    <3>2. HoldsId(p) BY <3>1 DEF HoldsId, StageInv
    <3>3. \A r \in Pipe : InUse(r) => pid[r] # pid[p] BY <1>h, <1>i, <3>1, <3>2
    <3> QED BY <1>t, <3>1, <3>3
  <2>2. CASE CloseUnlink(p) BY <1>t, <2>2 DEF CloseUnlink
  <2>3. CASE CloseTransport(p) BY <1>t, <2>3 DEF CloseTransport
  <2>4. CASE CloseFreeId(p) BY <1>t, <2>4 DEF CloseFreeId
  <2>5. CASE CloseHook(p) BY <1>t, <2>5 DEF CloseHook
  <2> QED BY <1>4, <2>1, <2>2, <2>3, <2>4, <2>5 DEF CloseStep
<1>5. ASSUME NEW p \in Pipe, PortClose(p) \/ IoError(p) \/ SweepStart(p) PROVE ReachInv'
  <2>1. CASE PortClose(p) BY <1>t, <2>1 DEF PortClose, BeginClose, CloseCapture
  <2>2. CASE IoError(p) BY <1>t, <2>2 DEF IoError, BeginClose, CloseCapture
  <2>3. CASE SweepStart(p) BY <1>t, <2>3 DEF SweepStart, BeginClose, CloseCapture
  <2> QED BY <1>5, <2>1, <2>2, <2>3
<1>6. CASE Close
  <2>1. UNCHANGED <<stage, cls, pid, eps>> BY <1>6 DEF Close
  <2>2. spc = "open" BY <1>6 DEF Close, SweepInv
  <2> QED BY <2>1, <2>2
<1>7. CASE Shutdown BY <1>7 DEF Shutdown
<1>8. CASE SweepNext BY <1>8 DEF SweepNext
<1>9. CASE CloseReturn BY <1>9 DEF CloseReturn
<1> QED BY CoreSteps, <1>1, <1>2, <1>3, <1>4, <1>5, <1>6, <1>7, <1>8, <1>9

(* With a single dialer or listener, for any id space however small and    *)
(* any number of connections, the protocol finds a usable pipe under its   *)
(* id, although AddEndpoint comes after addPipe's unlock and the id table  *)
(* is process-wide.  (With two, LiveReachable does not hold.)              *)
THEOREM UsableIsReachable == OneOwner /\ Spec => []LiveReachable
<1>1. OneOwner /\ TypeOK /\ CoreInv /\ OneAtATime /\ ReachInv /\ [Next]_vars => ReachInv'
  BY ReachStep DEF CoreInv
<1>2. Init => ReachInv BY DEF Init, ReachInv, LiveReachable, InUse, Adding
<1>3. Spec => []OneAtATime BY OneInit, OneStep, TypeCorrect, PTL DEF Spec
<1>4. ReachInv => LiveReachable BY DEF ReachInv
<1>5. ASSUME OneOwner PROVE Spec => []LiveReachable
  <2>1. TypeOK /\ CoreInv /\ OneAtATime /\ ReachInv /\ [Next]_vars => ReachInv'
    BY <1>1, <1>5
  <2> QED BY <1>2, <1>3, <1>4, <2>1, TypeCorrect, CoreInvariant, PTL DEF Spec
<1> QED BY <1>5

=============================================================================
