------------------------------ MODULE WebSocket -----------------------------
(***************************************************************************)
(* The WebSocket transports (transport/ws/ws.go, which wss uses as well).  *)
(* An HTTP server, the listener's own or the application's, runs a handler *)
(* goroutine for every connection; the handler puts a pipe in the list     *)
(* `pending' for Accept and returns when that pipe is closed.  serve of    *)
(* core.go calls Accept over and over.                                     *)
(*                                                                         *)
(* A dialer names its peer's protocol as the subprotocol; only the         *)
(* listener's side compares it, after the dialer's Dial has succeeded.     *)
(*                                                                         *)
(* What another transport has as well carries the name of this one, so     *)
(* that TransportProofs can extend them all.                               *)
(***************************************************************************)
EXTENDS Integers, Sequences, FiniteSets, SequencesExt

CONSTANTS
  iswss,      \* whether the URL is wss://...; a ws:// listener is as one with certificates
  WsConn,     \* connections; each is dialed once
  Misfits,    \* sets of connections whose dialer has another protocol
  WsSizes, MaxRecvSize,
  WsMaxMsg,   \* bound: messages sent
  WsMaxListen \* bound: calls of Listen

ASSUME WebSocketAssumption ==
  /\ iswss \in BOOLEAN
  /\ Misfits \subseteq SUBSET WsConn /\ WsSizes \subseteq Nat /\ MaxRecvSize \in Nat
  /\ WsMaxMsg \in Nat /\ WsMaxListen \in Nat

VARIABLES
  misfit,   \* one of Misfits
  wcfg,     \* the listener's OptionTLSConfig
  running, noserve, pending,  \* fields of the listener
  netl,     \* l.listener is open
  lpc, nl,  \* Listen: program counter, calls that have returned
  wacc,     \* wacc[k]: the serve goroutine of the k-th Listen
  hd,       \* hd[c]: the handler of c
  pipe,     \* pipe[e]: the wsPipe of an end, "none", "open" or "closed"
  dialing,  \* connections whose Dial has yet to return
  taken,    \* taken[c]: how often Accept has returned c
  winb,     \* winb[e]: sizes of the messages on their way to e
  wsent     \* messages sent

wsLVars == <<running, noserve, pending, netl, lpc, nl>>
msgVars == <<winb, wsent>>
wsVars == <<misfit, wcfg, wsLVars, wacc, hd, pipe, dialing, taken, msgVars>>

WsEnd == WsConn \X {"dial", "accept"}
WsOther(e) == <<e[1], IF e[2] = "dial" THEN "accept" ELSE "dial">>
Client(c) == <<c, "dial">>
Server(c) == <<c, "accept">>
Serve == 1 .. WsMaxListen

WsInit ==
  /\ misfit \in Misfits /\ wcfg = "none"
  /\ running = FALSE /\ noserve = FALSE /\ pending = <<>> /\ netl = FALSE
  /\ lpc = "idle" /\ nl = 0 /\ wacc = [k \in Serve |-> "none"]
  /\ hd = [c \in WsConn |-> "none"] /\ pipe = [e \in WsEnd |-> "none"]
  /\ dialing = {} /\ taken = [c \in WsConn |-> 0]
  /\ winb = [e \in WsEnd |-> <<>>] /\ wsent = 0

-----------------------------------------------------------------------------
(* The listener.  Neither Listen nor GetOption takes the lock.             *)

(* GetOption(OptionWebSocketHandler): the application serves.  (It does    *)
(* not call this while it is in Listen.)                                   *)
GetHandler ==
  /\ lpc = "idle"
  /\ running' = TRUE /\ noserve' = TRUE
  /\ UNCHANGED <<misfit, wcfg, pending, netl, lpc, nl, wacc, hd, pipe, dialing, taken, msgVars>>

(* OptionTLSConfig, with certificates or without.  (It is set before the   *)
(* first Listen.)                                                          *)
WsSetTLSConfig ==
  /\ iswss /\ nl = 0 /\ lpc = "idle" /\ wcfg' \in {"nocert", "cert"}
  /\ UNCHANGED <<misfit, wsLVars, wacc, hd, pipe, dialing, taken, msgVars>>

(* ErrTLSNoConfig, ErrTLSNoCert; net.ListenTCP fails while the address is  *)
(* in use.                                                                 *)
ListenBind ==
  /\ lpc = "idle" /\ nl < WsMaxListen /\ ~noserve
  /\ iswss => wcfg = "cert"
  /\ ~netl
  /\ netl' = TRUE /\ lpc' = "bound"
  /\ UNCHANGED <<misfit, wcfg, running, noserve, pending, nl, wacc, hd, pipe, dialing, taken,
                 msgVars>>

(* Listen returns, and listener.Listen of core.go starts serve.            *)
Listened ==
  /\ lpc' = "idle" /\ nl' = nl + 1
  /\ wacc' = [wacc EXCEPT ![nl + 1] = "call"]
  /\ UNCHANGED <<misfit, wcfg, noserve, netl, hd, pipe, dialing, taken, msgVars>>

ListenRun == lpc = "bound" /\ pending' = <<>> /\ running' = TRUE /\ Listened

ListenFake ==
  lpc = "idle" /\ nl < WsMaxListen /\ noserve /\ UNCHANGED <<pending, running>> /\ Listened

NoBroadcast == wacc                          \* mutant: l.cv is not signalled

WsBroadcast == [k \in Serve |-> IF wacc[k] = "wait" THEN "call" ELSE wacc[k]]

PopTwice == pending                          \* mutant: the pipe stays in the list

Pop == Front(pending)

WsAccept(k) ==
  /\ wacc[k] = "call"
  /\ \/ /\ ~running
        /\ wacc' = [wacc EXCEPT ![k] = "exit"]
        /\ UNCHANGED <<pending, taken>>
     \/ /\ running /\ pending = <<>>
        /\ wacc' = [wacc EXCEPT ![k] = "wait"]
        /\ UNCHANGED <<pending, taken>>
     \/ /\ running /\ pending # <<>>
        /\ taken' = [taken EXCEPT ![Last(pending)] = @ + 1]
        /\ pending' = Pop
        /\ UNCHANGED wacc
  /\ UNCHANGED <<misfit, wcfg, running, noserve, netl, lpc, nl, hd, pipe, dialing, msgVars>>

ClosePipes(s) == [e \in WsEnd |-> IF e \in s THEN "closed" ELSE pipe[e]]

CloseNone == pipe                            \* mutant: pending pipes stay open

ClosePending == ClosePipes({Server(c) : c \in ToSet(pending)})

WsClose ==
  /\ running
  /\ running' = FALSE /\ netl' = FALSE /\ pending' = <<>>
  /\ wacc' = WsBroadcast /\ pipe' = ClosePending
  /\ UNCHANGED <<misfit, wcfg, noserve, lpc, nl, hd, dialing, taken, msgVars>>

-----------------------------------------------------------------------------
(* Dial and the handler.                                                   *)

WsDial(c) ==
  /\ pipe[Client(c)] = "none" /\ c \notin dialing
  /\ netl \/ noserve
  /\ dialing' = dialing \union {c}
  /\ UNCHANGED <<misfit, wcfg, wsLVars, wacc, hd, pipe, taken, msgVars>>

(* Refused, by the network or by the HTTP server.                          *)
WsDialErr(c) ==
  /\ c \in dialing /\ hd[c] = "none"
  /\ dialing' = dialing \ {c}
  /\ pipe' = ClosePipes({Client(c)})
  /\ UNCHANGED <<misfit, wcfg, wsLVars, wacc, hd, taken, msgVars>>

ServeHTTP(c) ==
  /\ c \in dialing /\ hd[c] = "none"
  /\ hd' = [hd EXCEPT ![c] = "up"]
  /\ UNCHANGED <<misfit, wcfg, wsLVars, wacc, pipe, dialing, taken, msgVars>>

WsDialOk(c) ==
  /\ c \in dialing /\ hd[c] # "none"
  /\ dialing' = dialing \ {c}
  /\ pipe' = [pipe EXCEPT ![Client(c)] = "open"]
  /\ UNCHANGED <<misfit, wcfg, wsLVars, wacc, hd, taken, msgVars>>

(* The listener is closed, or the subprotocol is not its own.              *)
HandlerReject(c) ==
  /\ hd[c] = "up" /\ (~running \/ c \in misfit)
  /\ hd' = [hd EXCEPT ![c] = "done"] /\ pipe' = ClosePipes({Server(c)})
  /\ UNCHANGED <<misfit, wcfg, wsLVars, wacc, dialing, taken, msgVars>>

HandlerPend(c) ==
  /\ hd[c] = "up" /\ running /\ c \notin misfit
  /\ hd' = [hd EXCEPT ![c] = "wait"]
  /\ pipe' = [pipe EXCEPT ![Server(c)] = "open"]
  /\ pending' = Append(pending, c) /\ wacc' = WsBroadcast
  /\ UNCHANGED <<misfit, wcfg, running, noserve, netl, lpc, nl, dialing, taken, msgVars>>

(* w.wg.Wait.                                                              *)
HandlerReturn(c) ==
  /\ hd[c] = "wait" /\ pipe[Server(c)] = "closed"
  /\ hd' = [hd EXCEPT ![c] = "done"]
  /\ UNCHANGED <<misfit, wcfg, wsLVars, wacc, pipe, dialing, taken, msgVars>>

-----------------------------------------------------------------------------
(* The pipes, once Dial or Accept has returned them.                       *)

InUse(e) == pipe[e] = "open" /\ (e = Server(e[1]) => taken[e[1]] > 0)

PipeClose(e) ==
  /\ InUse(e)
  /\ pipe' = ClosePipes({e}) /\ winb' = [winb EXCEPT ![e] = <<>>]
  /\ UNCHANGED <<misfit, wcfg, wsLVars, wacc, hd, dialing, taken, wsent>>

(* An expired message is dropped, and so is one for a closed end.          *)
Send(e) ==
  /\ InUse(e) /\ wsent < WsMaxMsg
  /\ wsent' = wsent + 1
  /\ \/ UNCHANGED winb
     \/ /\ pipe[WsOther(e)] # "closed"
        /\ \E n \in WsSizes : winb' = [winb EXCEPT ![WsOther(e)] = Append(@, n)]
  /\ UNCHANGED <<misfit, wcfg, wsLVars, wacc, hd, pipe, dialing, taken>>

Recv(e) ==
  /\ InUse(e) /\ winb[e] # <<>> /\ (MaxRecvSize = 0 \/ Head(winb[e]) <= MaxRecvSize)
  /\ winb' = [winb EXCEPT ![e] = Tail(@)]
  /\ UNCHANGED <<misfit, wcfg, wsLVars, wacc, hd, pipe, dialing, taken, wsent>>

(* ReadMessage fails: too long, or the peer has closed; WriteMessage does  *)
(* so as well in the second case.  pipe.RecvMsg and SendMsg close the pipe.*)
IOErr(e) ==
  /\ InUse(e)
  /\ \/ pipe[WsOther(e)] = "closed"
     \/ winb[e] # <<>> /\ MaxRecvSize > 0 /\ Head(winb[e]) > MaxRecvSize
  /\ pipe' = ClosePipes({e}) /\ winb' = [winb EXCEPT ![e] = <<>>]
  /\ UNCHANGED <<misfit, wcfg, wsLVars, wacc, hd, dialing, taken, wsent>>

-----------------------------------------------------------------------------
HandlerStep(c) == HandlerReject(c) \/ HandlerPend(c) \/ HandlerReturn(c)

WsNext ==
  \/ GetHandler \/ WsSetTLSConfig \/ ListenBind \/ ListenRun \/ ListenFake \/ WsClose
  \/ \E k \in Serve : WsAccept(k)
  \/ \E c \in WsConn : WsDial(c) \/ WsDialErr(c) \/ ServeHTTP(c) \/ WsDialOk(c) \/ HandlerStep(c)
  \/ \E e \in WsEnd : PipeClose(e) \/ Send(e) \/ Recv(e) \/ IOErr(e)

(* Goroutines run: serve, the handlers, and the receivers on both sides.   *)
WsFairness ==
  /\ \A k \in Serve : WF_wsVars(WsAccept(k))
  /\ \A c \in WsConn : WF_wsVars(HandlerStep(c)) /\ WF_wsVars(WsDialOk(c))
  /\ \A e \in WsEnd : WF_wsVars(Recv(e) \/ IOErr(e))

WsSafeSpec == WsInit /\ [][WsNext]_wsVars
WsSpec == WsSafeSpec /\ WsFairness

-----------------------------------------------------------------------------
(* Properties.                                                             *)

(* Every variable has its type.                                            *)
WsTypeOK ==
  /\ misfit \in Misfits /\ wcfg \in {"none", "nocert", "cert"}
  /\ running \in BOOLEAN /\ noserve \in BOOLEAN /\ netl \in BOOLEAN
  /\ pending \in Seq(WsConn) /\ lpc \in {"idle", "bound"} /\ nl \in 0 .. WsMaxListen
  /\ wacc \in [Serve -> {"none", "call", "wait", "exit"}]
  /\ hd \in [WsConn -> {"none", "up", "wait", "done"}]
  /\ pipe \in [WsEnd -> {"none", "open", "closed"}]
  /\ dialing \subseteq WsConn /\ taken \in [WsConn -> Nat]
  /\ winb \in [WsEnd -> Seq(WsSizes)] /\ wsent \in 0 .. WsMaxMsg

(* A pipe of the listener's side that is open is in pending, or Accept has *)
(* returned it, but never both and never twice; Accept returns no pipe     *)
(* that Close of the listener has closed; and a listener that is not       *)
(* running keeps no pipe (Accept, Close and handler of the listener).      *)
PipesAccounted ==
  /\ \A c \in WsConn :
       LET waiting == Cardinality({i \in DOMAIN pending : pending[i] = c}) IN
       /\ taken[c] + waiting <= 1
       /\ pipe[Server(c)] = "open" => taken[c] + waiting = 1
       /\ waiting = 1 => pipe[Server(c)] = "open"
  /\ pending # <<>> => running

(* Dial succeeds before the listener has looked at the connection.  Even   *)
(* so its pipe is then returned by Accept or closed, once callers cease to *)
(* overtake it (Accept takes the newest), as long as some thread calls     *)
(* Accept (Dial, handler, Accept).                                         *)
DialedHeard ==
  \A c \in WsConn :
    (pipe[Client(c)] = "open") ~>
      \/ taken[c] > 0 \/ pipe[Client(c)] = "closed"
      \/ \A k \in Serve : wacc[k] \in {"none", "exit"}

(* Unless the listener is started again, Close ends every Accept and every *)
(* handler whose pipe Accept has not returned (Close of the listener).     *)
CloseEnds ==
  (nl > 0 /\ ~running) ~>
    \/ running
    \/ /\ \A k \in Serve : wacc[k] \in {"none", "exit"}
       /\ \A c \in WsConn : taken[c] = 0 => hd[c] \in {"none", "done"}

=============================================================================
