------------------------------- MODULE Stream -------------------------------
(***************************************************************************)
(* The transports over a stream of bytes, from Dial and Accept to the last *)
(* message: TCP (transport/tcp/tcp.go), TLS (transport/tlstcp/tlstcp.go),  *)
(* IPC over Unix sockets and over named pipes (transport/ipc), with the    *)
(* handshake and the framing they share (conn.go, connipc_posix.go,        *)
(* connipc_windows.go) and pipe.SendMsg and RecvMsg, which close the       *)
(* connection on an error (pipe.go).                                       *)
(*                                                                         *)
(* One listener accepts connections, each with two ends.  Its callers are  *)
(* dialers of this library, with the matching protocol or not, and         *)
(* strangers that may say anything in the handshake, or nothing.  A        *)
(* connection carries tokens: a TLS hello, an SP header, and per message a *)
(* marker (IPC only), a size and one token per byte.                       *)
(***************************************************************************)
EXTENDS Integers, Sequences, SequencesExt

CONSTANTS
  Conn,         \* connections; each is dialed once
  NoConn,
  Setups,       \* the circumstances, see Setup
  Sizes,        \* sizes of messages
  MaxMsg,       \* bound: messages sent on each connection
  MaxTalk,      \* bound: tokens that a stranger sends
  WireCap       \* tokens that a connection holds in each direction

End == Conn \X {"dial", "accept"}
Caller == {"good", "misfit", "stranger", "nobody"}

(* A transport; OptionMaxRecvSize of the sockets of the two sides, where 0 *)
(* means no limit; who calls; and as bounds, the ends that send, those     *)
(* that receive, and the connections that the network may cut.             *)
Setup ==
  [kind : {"tcp", "tls", "ipc", "npipe"}, maxrx : [{"dial", "accept"} -> Nat],
   who : [Conn -> Caller], talks : SUBSET End, hears : SUBSET End, frail : SUBSET Conn]

ASSUME StreamAssumption ==
  /\ \A s \in Setups : s \in Setup
  /\ NoConn \notin Conn
  /\ Sizes \subseteq Nat
  /\ MaxMsg \in Nat /\ MaxTalk \in Nat /\ WireCap \in Nat \ {0}

VARIABLES
  setup,        \* one of Setups
  lst, lcfg,    \* state of the listener, its OptionTLSConfig
  backlog, acc, \* connections to accept; the one that Accept is busy with
  st,           \* st[e]: state of an end, see States
  broken,       \* connections that the network has cut
  inb,          \* inb[e]: tokens on their way to e
  out,          \* out[e]: what Send has yet to write
  reading, rd,  \* reading[e]: a thread is in Recv; rd[e]: what it has read
  count,        \* count[c]: messages sent on c, or tokens of a stranger
  sent, rcvd    \* sent[e], rcvd[e]: bodies of the messages sent and received

lVars == <<lst, lcfg, backlog>>
ioVars == <<out, reading, rd, sent, rcvd>>
vars == <<setup, lVars, acc, st, broken, inb, count, ioVars>>

kind == setup.kind
who == setup.who
Other(e) == <<e[1], IF e[2] = "dial" THEN "accept" ELSE "dial">>

(* "tls", "write" and "read" are the steps of the handshake, "open" is     *)
(* p.open; an end in "lost" was given up without being closed.             *)
States == {"none", "tls", "write", "read", "open", "closed", "lost", "stranger"}
Busy == {"tls", "write", "read"}

(* p.maxrx, which handshake takes from the socket.                         *)
maxrx(e) == setup.maxrx[e[2]]

TokenSet == [t : {"hello", "sp", "one", "size", "byte"}, m : Nat, n : Nat]
Token(t, m, n) == [t |-> t, m |-> m, n |-> n]
Hello == Token("hello", 0, 0)

(* Numbers of the protocols at the two ends: 1 and 2 are peers, 3 and 4    *)
(* are, too.                                                               *)
Number(e) ==
  IF e[2] = "accept" THEN 1 ELSE IF who[e[1]] = "misfit" THEN 3 ELSE 2
PeerNumber(e) ==
  IF e[2] = "accept" THEN 2 ELSE IF who[e[1]] = "misfit" THEN 4 ELSE 1

(* The header's m is 0, unless its magic, its version or its reserved      *)
(* field are wrong.                                                        *)
connHeader(e) == Token("sp", 0, Number(e))

Init ==
  /\ setup \in Setups
  /\ lst = "new" /\ lcfg = "none" /\ backlog = <<>> /\ acc = NoConn
  /\ st = [e \in End |-> "none"] /\ broken = {}
  /\ inb = [e \in End |-> <<>>]
  /\ out = [e \in End |-> <<>>]
  /\ reading = [e \in End |-> FALSE] /\ rd = [e \in End |-> <<>>]
  /\ count = [c \in Conn |-> 0]
  /\ sent = [e \in End |-> <<>>] /\ rcvd = [e \in End |-> <<>>]

-----------------------------------------------------------------------------
(* The listener.  (A second Listen of the same listener is left out.)      *)

SetTLSConfig ==
  /\ kind = "tls" /\ lst = "new"
  /\ lcfg' \in {"none", "nocert", "cert"}
  /\ UNCHANGED <<setup, lst, backlog, acc, st, broken, inb, count, ioVars>>

Listen ==
  /\ lst = "new" /\ lst' = "open"
  /\ UNCHANGED <<setup, lcfg, backlog, acc, st, broken, inb, count, ioVars>>

TcpListen == kind = "tcp" /\ Listen
TlsListen == kind = "tls" /\ lcfg = "cert" /\ Listen
IpcListen == kind = "ipc" /\ Listen
WinListen == kind = "npipe" /\ Listen

(* Whatever has not been accepted is cut; an Accept that is busy with a    *)
(* handshake goes on.                                                      *)
CloseListener ==
  /\ lst = "open" /\ lst' = "closed"
  /\ backlog' = <<>> /\ broken' = broken \union ToSet(backlog)
  /\ UNCHANGED <<setup, lcfg, acc, st, inb, count, ioVars>>

TcpClose == kind = "tcp" /\ CloseListener
TlsClose == kind = "tls" /\ CloseListener
IpcClose == kind = "ipc" /\ CloseListener
WinClose == kind = "npipe" /\ CloseListener

-----------------------------------------------------------------------------
(* Dial and Accept up to the handshake.  tls.Client and tls.Server start   *)
(* with a hello.                                                           *)

Enter(e, s) ==
  /\ st' = [st EXCEPT ![e] = s]
  /\ inb' = IF s = "tls" THEN [inb EXCEPT ![Other(e)] = Append(@, Hello)] ELSE inb

Connect(c, s) ==
  /\ st[<<c, "dial">>] = "none" /\ lst = "open" /\ who[c] \in {"good", "misfit"}
  /\ backlog' = Append(backlog, c)
  /\ Enter(<<c, "dial">>, s)
  /\ UNCHANGED <<setup, lst, lcfg, acc, broken, count, ioVars>>

(* net.DialTCP, net.DialUnix or winio.DialPipe failed.                     *)
DialErr(c) ==
  /\ st[<<c, "dial">>] = "none" /\ who[c] \in {"good", "misfit"}
  /\ st' = [st EXCEPT ![<<c, "dial">>] = "closed"]
  /\ UNCHANGED <<setup, lVars, acc, broken, inb, count, ioVars>>

(* configTCP of the transport may fail, and the connection is closed then. *)
configTCP(s) == {s, "closed"}
configTLS(s) == {s, "closed"}

TcpDial(c) == kind = "tcp" /\ \E s \in configTCP("write") : Connect(c, s)
TlsDial(c) == kind = "tls" /\ \E s \in configTLS("tls") : Connect(c, s)
IpcDial(c) == kind = "ipc" /\ Connect(c, "write")
WinDial(c) == kind = "npipe" /\ Connect(c, "write")

Take(s) ==
  /\ acc = NoConn /\ lst = "open" /\ backlog # <<>>
  /\ backlog' = Tail(backlog)
  /\ acc' = IF s = "closed" THEN NoConn ELSE Head(backlog)
  /\ Enter(<<Head(backlog), "accept">>, s)
  /\ UNCHANGED <<setup, lst, lcfg, broken, count, ioVars>>

TcpAccept == kind = "tcp" /\ \E s \in configTCP("write") : Take(s)
TlsAccept == kind = "tls" /\ \E s \in configTLS("tls") : Take(s)
IpcAccept == kind = "ipc" /\ Take("write")
WinAccept == kind = "npipe" /\ Take("write")

-----------------------------------------------------------------------------
(* The handshakes.                                                         *)

(* The peer, or the network, has ended the connection.                     *)
Cut(e) == e[1] \in broken \/ st[Other(e)] = "closed"

(* e writes t; what is written to a connection that is cut is lost.  e     *)
(* reads a token.  e is closed, and with it what it has not read.          *)
Write(e, t) == IF Cut(e) THEN inb ELSE [inb EXCEPT ![Other(e)] = Append(@, t)]
Read(e) == [inb EXCEPT ![e] = Tail(@)]
Drop(e) == [inb EXCEPT ![e] = <<>>]

(* The handshake of e goes on to s, or is over, and so is the Accept.      *)
Handshake(e, s) ==
  /\ st' = [st EXCEPT ![e] = s]
  /\ acc' = IF s \notin Busy /\ e = <<acc, "accept">> THEN NoConn ELSE acc
  /\ UNCHANGED <<setup, lVars, broken, count, ioVars>>

Forget(e) == Handshake(e, "lost") /\ inb' = Drop(e)  \* mutant: no Close

(* The errors of conn.Handshake and of handshake after its Write.          *)
Reject(e) == Handshake(e, "closed") /\ inb' = Drop(e)

(* The hello is good, or it is not, or its certificate is refused.         *)
TlsDone(e) ==
  /\ st[e] = "tls" /\ inb[e] # <<>>
  /\ \/ Head(inb[e]) = Hello /\ Handshake(e, "write") /\ inb' = Read(e)
     \/ Reject(e)

TlsErr(e) == st[e] = "tls" /\ Cut(e) /\ Reject(e)

(* A Write to a connection that is cut may still succeed.                  *)
HandshakeWrite(e) ==
  /\ st[e] = "write"
  /\ Handshake(e, "read")
  /\ inb' = Write(e, connHeader(e))

HandshakeWriteErr(e) ==
  /\ st[e] = "write" /\ Cut(e)
  /\ Handshake(e, "lost") /\ inb' = Drop(e)

AnyHeader(e, t) == t.t = "sp" /\ t.m = 0     \* mutant: h.Proto is not compared

GoodHeader(e, t) == t.t = "sp" /\ t.m = 0 /\ t.n = PeerNumber(e)

HandshakeRead(e) ==
  /\ st[e] = "read" /\ inb[e] # <<>>
  /\ IF GoodHeader(e, Head(inb[e])) THEN Handshake(e, "open") /\ inb' = Read(e)
                                    ELSE Reject(e)

HandshakeReadErr(e) == st[e] = "read" /\ Cut(e) /\ Reject(e)

-----------------------------------------------------------------------------
(* Messages.                                                               *)

CloseForgot(e) == [st EXCEPT ![e] = "lost"]  \* mutant: p.c.Close is not called

(* conn.Close.                                                             *)
Close(e) == IF st[e] = "open" THEN [st EXCEPT ![e] = "closed"] ELSE st

EndClose(e) ==
  /\ st[e] = "open"
  /\ st' = Close(e) /\ inb' = Drop(e)
  /\ UNCHANGED <<setup, lVars, acc, broken, count, ioVars>>

Body(m, size) == [i \in 1 .. size |-> Token("byte", m, i)]

Frame(m, size) == <<Token("size", m, size)>> \o Body(m, size)

(* connipc puts a byte 1 in front.                                         *)
IpcFrame(m, size) == <<Token("one", m, 1)>> \o Frame(m, size)
WinFrame(m, size) == <<Token("one", m, 1)>> \o Frame(m, size)

SendStart(e, size) ==
  LET m == count[e[1]] + 1 IN
  /\ st[e] = "open" /\ out[e] = <<>> /\ e \in setup.talks /\ m <= MaxMsg
  /\ count' = [count EXCEPT ![e[1]] = m]
  /\ sent' = [sent EXCEPT ![e] = Append(@, Body(m, size))]
  /\ out' = [out EXCEPT ![e] = CASE kind = "ipc"   -> IpcFrame(m, size)
                                     [] kind = "npipe" -> WinFrame(m, size)
                                     [] OTHER          -> Frame(m, size)]
  /\ UNCHANGED <<setup, lVars, acc, st, broken, inb, reading, rd, rcvd>>

(* conn.Send discards an expired message; connipc.Send sends it.           *)
SendExpired(e) ==
  /\ st[e] = "open" /\ out[e] = <<>> /\ e \in setup.talks /\ count[e[1]] < MaxMsg
  /\ kind \in {"tcp", "tls"}
  /\ count' = [count EXCEPT ![e[1]] = @ + 1]
  /\ UNCHANGED <<setup, lVars, acc, st, broken, inb, ioVars>>

(* Send has returned when out[e] is empty.                                 *)
SendWrite(e) ==
  /\ out[e] # <<>> /\ st[e] = "open"
  /\ Cut(e) \/ Len(inb[Other(e)]) < WireCap
  /\ inb' = Write(e, Head(out[e]))
  /\ out' = [out EXCEPT ![e] = Tail(@)]
  /\ UNCHANGED <<setup, lVars, acc, st, broken, count, reading, rd, sent, rcvd>>

(* pipe.SendMsg closes the pipe.                                           *)
SendErr(e) ==
  /\ out[e] # <<>> /\ (st[e] = "closed" \/ Cut(e))
  /\ out' = [out EXCEPT ![e] = <<>>] /\ st' = Close(e) /\ inb' = Drop(e)
  /\ UNCHANGED <<setup, lVars, acc, broken, count, reading, rd, sent, rcvd>>

RecvStart(e) ==
  /\ st[e] = "open" /\ ~reading[e] /\ e \in setup.hears
  /\ reading' = [reading EXCEPT ![e] = TRUE] /\ rd' = [rd EXCEPT ![e] = <<>>]
  /\ UNCHANGED <<setup, lVars, acc, st, broken, inb, count, out, sent, rcvd>>

(* The place of the size among the tokens of a frame.                      *)
IpcSizeAt == 2
WinSizeAt == 2
SizeAt == CASE kind = "ipc"   -> IpcSizeAt
            [] kind = "npipe" -> WinSizeAt
            [] OTHER          -> 1

(* What Recv has read with the next token, and what it makes of it.        *)
Got(e) == Append(rd[e], Head(inb[e]))
TooLong(e, s) ==
  Len(s) = SizeAt /\ maxrx(e) > 0 /\ s[SizeAt].n > maxrx(e)
Whole(s) == Len(s) >= SizeAt /\ Len(s) = SizeAt + s[SizeAt].n

CanRead(e) == reading[e] /\ st[e] = "open" /\ inb[e] # <<>>

RecvRead(e) ==
  /\ CanRead(e) /\ ~TooLong(e, Got(e))
  /\ IF Whole(Got(e))
     THEN /\ rcvd' = [rcvd EXCEPT ![e] = Append(@, SubSeq(Got(e), SizeAt + 1, Len(Got(e))))]
          /\ reading' = [reading EXCEPT ![e] = FALSE] /\ rd' = [rd EXCEPT ![e] = <<>>]
     ELSE rd' = [rd EXCEPT ![e] = Got(e)] /\ UNCHANGED <<rcvd, reading>>
  /\ inb' = Read(e)
  /\ UNCHANGED <<setup, lVars, acc, st, broken, count, out, sent>>

RecvEnd(e) ==
  /\ reading' = [reading EXCEPT ![e] = FALSE] /\ rd' = [rd EXCEPT ![e] = <<>>]
  /\ UNCHANGED <<setup, lVars, acc, broken, count, out, sent, rcvd>>

RecvSkip(e) ==                               \* mutant: the pipe is not closed
  CanRead(e) /\ TooLong(e, Got(e)) /\ UNCHANGED st /\ inb' = Read(e) /\ RecvEnd(e)

(* ErrTooLong: pipe.RecvMsg closes the pipe.                               *)
RecvTooLong(e) ==
  CanRead(e) /\ TooLong(e, Got(e)) /\ st' = Close(e) /\ inb' = Drop(e) /\ RecvEnd(e)

(* What the peer wrote before it closed may be lost, or read.              *)
RecvErr(e) ==
  /\ reading[e] /\ (st[e] = "closed" \/ Cut(e))
  /\ st' = Close(e) /\ inb' = Drop(e) /\ RecvEnd(e)

-----------------------------------------------------------------------------
(* The network and strangers.                                              *)

Break(c) ==
  /\ c \in setup.frail \ broken /\ st[<<c, "dial">>] \notin {"none", "closed"}
  /\ broken' = broken \union {c}
  /\ UNCHANGED <<setup, lVars, acc, st, inb, count, ioVars>>

StrangerCalls(c) ==
  /\ who[c] = "stranger" /\ st[<<c, "dial">>] = "none" /\ lst = "open"
  /\ st' = [st EXCEPT ![<<c, "dial">>] = "stranger"]
  /\ backlog' = Append(backlog, c)
  /\ UNCHANGED <<setup, lst, lcfg, acc, broken, inb, count, ioVars>>

StrangerTalks(c) ==
  LET e == <<c, "accept">> IN
  /\ st[Other(e)] = "stranger" /\ st[e] \in Busy /\ count[c] < MaxTalk
  /\ count' = [count EXCEPT ![c] = @ + 1]
  /\ \E t \in {Hello, Token("sp", 0, 2), Token("sp", 1, 2)} :
       inb' = [inb EXCEPT ![e] = Append(@, t)]
  /\ UNCHANGED <<setup, lVars, acc, st, broken, ioVars>>

StrangerLeaves(c) ==
  /\ st[<<c, "dial">>] = "stranger"
  /\ st' = [st EXCEPT ![<<c, "dial">>] = "closed"]
  /\ UNCHANGED <<setup, lVars, acc, broken, inb, count, ioVars>>

-----------------------------------------------------------------------------
Dial(c) == TcpDial(c) \/ TlsDial(c) \/ IpcDial(c) \/ WinDial(c) \/ DialErr(c)
Accept == TcpAccept \/ TlsAccept \/ IpcAccept \/ WinAccept
ShakeStep(e) ==
  \/ TlsDone(e) \/ TlsErr(e) \/ HandshakeWrite(e) \/ HandshakeWriteErr(e)
  \/ HandshakeRead(e) \/ HandshakeReadErr(e)
SendStep(e) == SendWrite(e) \/ SendErr(e)
RecvStep(e) == RecvRead(e) \/ RecvTooLong(e) \/ RecvErr(e)

Next ==
  \/ SetTLSConfig
  \/ TcpListen \/ TlsListen \/ IpcListen \/ WinListen
  \/ TcpClose \/ TlsClose \/ IpcClose \/ WinClose
  \/ Accept
  \/ \E c \in Conn : \/ Dial(c) \/ Break(c)
                     \/ StrangerCalls(c) \/ StrangerTalks(c) \/ StrangerLeaves(c)
  \/ \E e \in End : \/ ShakeStep(e) \/ EndClose(e)
                    \/ SendExpired(e) \/ \E n \in Sizes : SendStart(e, n)
                    \/ SendStep(e) \/ RecvStart(e) \/ RecvStep(e)

(* serve calls Accept over and over; a thread in a handshake, in Send or   *)
(* in Recv runs on unless it has to wait for the other end.                *)
Fairness ==
  /\ WF_vars(Accept)
  /\ \A e \in End : WF_vars(ShakeStep(e)) /\ WF_vars(SendStep(e)) /\ WF_vars(RecvStep(e))

SafeSpec == Init /\ [][Next]_vars
Spec == SafeSpec /\ Fairness

-----------------------------------------------------------------------------
(* Properties.                                                             *)

(* Every variable has its type; a direction of a connection holds at most  *)
(* its capacity and what the handshake puts there.                         *)
TypeOK ==
  /\ setup \in Setups
  /\ lst \in {"new", "open", "closed"} /\ lcfg \in {"none", "nocert", "cert"}
  /\ backlog \in Seq(Conn) /\ acc \in Conn \union {NoConn}
  /\ st \in [End -> States] /\ broken \subseteq Conn
  /\ inb \in [End -> Seq(TokenSet)]
  /\ out \in [End -> Seq(TokenSet)]
  /\ reading \in [End -> BOOLEAN] /\ rd \in [End -> Seq(TokenSet)]
  /\ count \in [Conn -> Nat]
  /\ sent \in [End -> Seq(Seq(TokenSet))] /\ rcvd \in [End -> Seq(Seq(TokenSet))]

(* What an end receives is what the other end has sent, message by message *)
(* from the first one on, none cut short, joined to another or longer than *)
(* OptionMaxRecvSize allows, whenever an end closes, the network breaks,   *)
(* or a message is refused as too long (conn.Send, conn.Recv, SendMsg,     *)
(* RecvMsg).                                                               *)
Framed ==
  \A e \in End : who[e[1]] # "stranger" =>
    /\ IsPrefix(rcvd[e], sent[Other(e)])
    /\ \A i \in DOMAIN rcvd[e] : maxrx(e) > 0 => Len(rcvd[e][i]) <= maxrx(e)

(* An end that Dial or Accept hands out speaks to the protocol that it     *)
(* expects; and an end that was given up without a Close (the error of the *)
(* handshake's Write) leaves nobody waiting, as the other end, or the      *)
(* network, has ended the connection before (handshake).                   *)
HandshakeAgrees ==
  \A e \in End :
    /\ st[e] = "open" /\ who[e[1]] # "stranger" => Number(Other(e)) = PeerNumber(e)
    /\ st[e] = "lost" => Cut(e)

(* Accept has a connection whose caller does not go on with the handshake: *)
(* there is no deadline, and Close of the listener does not end the wait.  *)
Held ==
  /\ acc # NoConn /\ st[<<acc, "dial">>] = "stranger" /\ inb[<<acc, "accept">>] = <<>>
  /\ st[<<acc, "accept">>] \in {"tls", "read"} /\ acc \notin broken

(* Unless a silent stranger holds up Accept for ever, every Dial returns,  *)
(* whatever the protocols, the certificates, the strangers before it, and  *)
(* the listener do (Accept, Dial, NewConnPipe).                            *)
DialsReturn ==
  []<>~Held => \A c \in Conn : (st[<<c, "dial">>] \in Busy) ~> (st[<<c, "dial">>] \notin Busy)

(* Once one end is closed, the threads in its Send and Recv return, and    *)
(* so do those in Send and Recv of the other end (conn.Close, pipe.Close). *)
CloseReleases ==
  \A e \in End :
    (st[e] \in {"closed", "lost"}) ~> \A f \in {e, Other(e)} : ~reading[f] /\ out[f] = <<>>

=============================================================================
