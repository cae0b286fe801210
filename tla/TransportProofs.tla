-------------------------- MODULE TransportProofs ---------------------------
(***************************************************************************)
(* What is proved about the transports, for any numbers of connections,    *)
(* listeners and dialers, and any messages: the type invariants, that ends *)
(* find each other one to one (inproc), that a listener loses no pipe      *)
(* (WebSocket), and that the handshake and the framing of the transports   *)
(* over streams (Stream) do what they are for.                             *)
(***************************************************************************)
EXTENDS Stream, Inproc, WebSocket, FiniteSetTheorems, SequenceTheorems, TLAPS

-----------------------------------------------------------------------------
(* inproc: a connection has two ends, and no end two connections.          *)

Dialing(d) == dpc[d] \in {"try", "wait"}

Waits(l, e) == \E i \in 1 .. Len(accepters[l]) : accepters[l][i] = e

(* An end that has been made and has not met another.                      *)
Alone(e) == e \in 1 .. nend /\ peer[e] = 0 /\ ready[e] = 0 /\ e \notin shut

(* An end in a list of accepters is alone, and in no other place.          *)
InprocListInv ==
  /\ \A l \in Listener : \A i, j \in 1 .. Len(accepters[l]) :
       accepters[l][i] = accepters[l][j] => i = j
  /\ \A l, k \in Listener : \A e \in InprocEnd : Waits(l, e) /\ Waits(k, e) => l = k
  /\ \A l \in Listener : \A e \in InprocEnd : Waits(l, e) => Alone(e)

(* So is the end of a Dial that has not returned.                          *)
InprocDialInv ==
  /\ \A d \in Dialer : Dialing(d) => Alone(dend[d])
  /\ \A d, f \in Dialer : Dialing(d) /\ Dialing(f) /\ dend[d] = dend[f] => d = f
  /\ \A d \in Dialer : \A l \in Listener : Dialing(d) => ~Waits(l, dend[d])

(* Connected ends know each other; an end not yet made is as it was.       *)
InprocPeerInv ==
  /\ \A e \in InprocEnd : peer[e] # 0 => peer[e] \in InprocEnd /\ peer[peer[e]] = e
  /\ \A e \in InprocEnd : peer[e] = 0 => ready[e] = 0
  /\ \A e \in InprocEnd : e > nend => peer[e] = 0 /\ ready[e] = 0 /\ e \notin shut

MeetInv == InprocListInv /\ InprocDialInv /\ InprocPeerInv

-----------------------------------------------------------------------------
(* Lemmas about the lists.                                                 *)

LEMMA InprocSeqFacts ==
  ASSUME NEW S, NEW s \in Seq(S), NEW x \in S
  PROVE  /\ Append(s, x) \in Seq(S) /\ Len(Append(s, x)) = Len(s) + 1 /\ Len(s) \in Nat
         /\ \A i \in 1 .. Len(s) : Append(s, x)[i] = s[i] /\ s[i] \in S
         /\ Append(s, x)[Len(s) + 1] = x
  OBVIOUS

LEMMA InprocEmptyFacts == \A S : <<>> \in Seq(S) /\ Len(<<>>) = 0
  OBVIOUS

LEMMA ShortenFacts ==
  ASSUME NEW S, NEW s \in Seq(S), s # <<>>
  PROVE  /\ Shorten(s) \in Seq(S) /\ Len(s) \in Nat \ {0} /\ Len(Shorten(s)) = Len(s) - 1
         /\ Last(s) \in S /\ Last(s) = s[Len(s)]
         /\ \A i \in 1 .. Len(s) - 1 : i \in 1 .. Len(s) /\ Shorten(s)[i] = s[i]
  <1>1. Len(s) \in Nat \ {0} /\ Len(s) - 1 \in Nat /\ Len(s) - 1 <= Len(s)
    OBVIOUS
  <1>2. Last(s) = s[Len(s)] /\ Last(s) \in S
    BY <1>1 DEF Last
  <1>3. Shorten(s) = SubSeq(s, 1, Len(s) - 1)
    BY DEF Shorten, Front
  <1>4. \A n \in Nat : n <= Len(s) => SubSeq(s, 1, n) \in Seq(S) /\ Len(SubSeq(s, 1, n)) = n
    OBVIOUS
  <1>5. Shorten(s) \in Seq(S) /\ Len(Shorten(s)) = Len(s) - 1
    BY <1>1, <1>3, <1>4
  <1>6. \A i \in 1 .. Len(s) - 1 : i \in 1 .. Len(s) /\ Shorten(s)[i] = s[i]
    BY <1>1, <1>3
  <1> QED
    BY <1>1, <1>2, <1>5, <1>6

LEMMA BroadcastFacts ==
  ASSUME InprocTypeOK
  PROVE  /\ Broadcast \in [Dialer -> {"idle", "try", "wait", "up", "refused", "bad"}]
         /\ \A d \in Dialer : Broadcast[d] \in {"try", "wait"} <=> Dialing(d)
  BY DEF Broadcast, InprocTypeOK, Dialing

(* The two ends that a Dial joins are alone and differ.                    *)
LEMMA Joined ==
  ASSUME InprocTypeOK, MeetInv, NEW d \in Dialer, DialOk(d)
  PROVE  LET l == byAddr  s == Last(accepters[l])  c == dend[d] IN
         /\ l \in Listener /\ accepters[l] \in Seq(InprocEnd) /\ accepters[l] # <<>>
         /\ s \in InprocEnd /\ Waits(l, s) /\ Alone(s)
         /\ c \in InprocEnd /\ Dialing(d) /\ Alone(c) /\ c # s
  <1> DEFINE l == byAddr  s == Last(accepters[l])  c == dend[d]
  <1>1. l \in Listener /\ accepters[l] \in Seq(InprocEnd) /\ accepters[l] # <<>>
    BY DEF DialOk, InprocTypeOK
  <1>2. s \in InprocEnd /\ Waits(l, s)
    BY <1>1, ShortenFacts DEF Waits
  <1>3. Dialing(d) /\ Alone(c) /\ ~Waits(l, c)
    BY <1>1 DEF DialOk, Dialing, MeetInv, InprocDialInv
  <1>4. Alone(s)
    BY <1>1, <1>2 DEF MeetInv, InprocListInv
  <1>5. c \in InprocEnd
    BY <1>3, InprocAssumption DEF Alone, InprocTypeOK, InprocEnd
  <1> QED
    BY <1>1, <1>2, <1>3, <1>4, <1>5

-----------------------------------------------------------------------------
(* The type invariant.                                                     *)

LEMMA InprocInitType == InprocInit => InprocTypeOK /\ MeetInv
  <1> SUFFICES ASSUME InprocInit PROVE InprocTypeOK /\ MeetInv
    OBVIOUS
  <1>1. InprocTypeOK
    <2>1. /\ accepters \in [Listener -> Seq(InprocEnd)] /\ serving \in [Listener -> 0 .. MaxEnd]
          /\ lstate \in [Listener -> {"new", "open", "closed", "ended"}]
          /\ dpc \in [Dialer -> {"idle", "try", "wait", "up", "refused", "bad"}]
          /\ dend \in [Dialer -> 0 .. MaxEnd]
      BY InprocAssumption DEF InprocInit
    <2>2. /\ peer \in [InprocEnd -> 0 .. MaxEnd] /\ ready \in [InprocEnd -> 0 .. 1]
          /\ io \in [InprocEnd -> {"none", "send", "recv"}]
      BY InprocAssumption DEF InprocInit
    <2>3. byAddr \in Listener \union {NoOne} /\ stuck \in BOOLEAN /\ shut \subseteq InprocEnd
      BY DEF InprocInit
    <2>4. nlisten \in 0 .. MaxListen /\ nend \in 0 .. MaxEnd
      BY InprocAssumption DEF InprocInit
    <2> QED
      BY <2>1, <2>2, <2>3, <2>4 DEF InprocTypeOK
  <1>2. \A l \in Listener : Len(accepters[l]) = 0
    BY InprocEmptyFacts DEF InprocInit
  <1>3. \A d \in Dialer : ~Dialing(d)
    BY DEF InprocInit, Dialing
  <1>4. InprocListInv /\ InprocDialInv
    BY <1>2, <1>3 DEF InprocListInv, InprocDialInv, Waits
  <1>5. InprocPeerInv
    BY DEF InprocInit, InprocPeerInv
  <1> QED
    BY <1>1, <1>4, <1>5 DEF MeetInv

LEMMA InprocStepType ==
  ASSUME InprocTypeOK, MeetInv, [InprocNext]_(inprocVars)
  PROVE  InprocTypeOK'
  <1> USE InprocAssumption DEF InprocTypeOK, tabVars, lstVars, dialVars, endVars
  <1>1. ASSUME NEW l \in Listener, InprocListen(l) PROVE InprocTypeOK'
    <2>1. nlisten' \in 0 .. MaxListen
      BY <1>1 DEF InprocListen
    <2>2. CASE byAddr = NoOne /\ byAddr' = l /\ lstate' = [lstate EXCEPT ![l] = "open"]
               /\ dpc' = Broadcast
      BY <1>1, <2>1, <2>2, BroadcastFacts DEF InprocListen
    <2>3. CASE UNCHANGED <<byAddr, lstate, dpc>>
      BY <1>1, <2>1, <2>3 DEF InprocListen
    <2> QED
      BY <1>1, <2>2, <2>3 DEF InprocListen
  <1>2. ASSUME NEW l \in Listener, InprocClose(l) PROVE InprocTypeOK'
    <2>1. ToSet(accepters[l]) \subseteq InprocEnd
      BY DEF ToSet
    <2>2. byAddr' \in Listener \union {NoOne}
      BY <1>2 DEF InprocClose, Unlist
    <2>3. accepters' \in [Listener -> Seq(InprocEnd)]
      BY <1>2, InprocEmptyFacts DEF InprocClose
    <2>4. shut' \subseteq InprocEnd
      BY <1>2, <2>1 DEF InprocClose
    <2> QED
      BY <1>2, <2>2, <2>3, <2>4, BroadcastFacts DEF InprocClose
  <1>3. ASSUME NEW l \in Listener, AcceptCall(l) PROVE InprocTypeOK'
    <2>1. NewEnd \in InprocEnd /\ NewEnd \in 0 .. MaxEnd
      BY <1>3 DEF AcceptCall, NewEnd, InprocEnd
    <2>2. accepters' \in [Listener -> Seq(InprocEnd)]
      BY <1>3, <2>1, InprocSeqFacts DEF AcceptCall
    <2> QED
      BY <1>3, <2>1, <2>2, BroadcastFacts DEF AcceptCall
  <1>4. ASSUME NEW l \in Listener, AcceptReady(l) \/ AcceptClosed(l) PROVE InprocTypeOK'
    <2>1. serving' = [serving EXCEPT ![l] = 0] /\ 0 \in 0 .. MaxEnd
      BY <1>4 DEF AcceptReady, AcceptClosed
    <2>2. serving' \in [Listener -> 0 .. MaxEnd]
      BY <2>1
    <2>3. lstate' \in [Listener -> {"new", "open", "closed", "ended"}]
      BY <1>4 DEF AcceptReady, AcceptClosed
    <2> QED
      BY <1>4, <2>2, <2>3 DEF AcceptReady, AcceptClosed
  <1>5. ASSUME NEW d \in Dialer, DialCall(d) PROVE InprocTypeOK'
    <2>1. NewEnd \in 0 .. MaxEnd
      BY <1>5 DEF DialCall, NewEnd
    <2> QED
      BY <1>5, <2>1 DEF DialCall
  <1>6. ASSUME NEW d \in Dialer, DialRefused(d) \/ DialBad(d) \/ DialWait(d)
        PROVE  InprocTypeOK'
    BY <1>6 DEF DialRefused, DialBad, DialWait
  <1>7. ASSUME NEW d \in Dialer, DialOk(d) PROVE InprocTypeOK'
    <2> DEFINE l == byAddr  s == Last(accepters[l])  c == dend[d]
    <2>1. /\ l \in Listener /\ accepters[l] \in Seq(InprocEnd) /\ accepters[l] # <<>>
          /\ s \in InprocEnd /\ c \in InprocEnd /\ Alone(s) /\ Alone(c) /\ c # s
      BY <1>7, Joined
    <2>2. /\ accepters' = [accepters EXCEPT ![l] = Shorten(@)]
          /\ peer' = [peer EXCEPT ![c] = s, ![s] = c]
          /\ ready' = [ready EXCEPT ![c] = @ + 1, ![s] = @ + 1]
      BY <1>7 DEF DialOk
    <2> HIDE DEF l, s, c
    <2>3. accepters' \in [Listener -> Seq(InprocEnd)]
      BY <2>1, <2>2, ShortenFacts
    <2>4. peer' \in [InprocEnd -> 0 .. MaxEnd]
      <3>1. s \in 0 .. MaxEnd /\ c \in 0 .. MaxEnd
        BY <2>1 DEF InprocEnd
      <3> QED
        BY <2>2, <3>1
    <2>5. ready' \in [InprocEnd -> 0 .. 1]
      BY <2>1, <2>2 DEF Alone
    <2> QED
      BY <1>7, <2>3, <2>4, <2>5 DEF DialOk
  <1>8. ASSUME NEW e \in InprocEnd, NEW w \in {"send", "recv"}, IoCall(e, w) PROVE InprocTypeOK'
    BY <1>8 DEF IoCall
  <1>9. ASSUME NEW e \in InprocEnd, Transfer(e) \/ IoClosed(e) \/ CloseEnd(e) PROVE InprocTypeOK'
    BY <1>9 DEF Transfer, IoClosed, CloseEnd
  <1>10. CASE UNCHANGED inprocVars
    BY <1>10 DEF inprocVars
  <1> QED
    BY <1>1, <1>2, <1>3, <1>4, <1>5, <1>6, <1>7, <1>8, <1>9, <1>10, SMTT(30)
    DEF InprocNext, AcceptStep, DialStep, IoStep


-----------------------------------------------------------------------------
(* The inductive step.                                                     *)

(* A step that makes and moves no end.                                     *)
LEMMA SameEnds ==
  ASSUME MeetInv, UNCHANGED <<accepters, dend, nend, peer, ready, shut>>,
         \A d \in Dialer : Dialing(d)' => Dialing(d)
  PROVE  MeetInv'
  <1>1. \A l, e : Waits(l, e)' <=> Waits(l, e)
    BY DEF Waits
  <1>2. \A e : Alone(e)' <=> Alone(e)
    BY DEF Alone
  <1>3. InprocListInv'
    BY <1>1, <1>2 DEF MeetInv, InprocListInv
  <1>4. InprocDialInv'
    <2>1. \A d \in Dialer : Alone(dend[d])' <=> Alone(dend[d])
      BY DEF Alone
    <2>2. \A d \in Dialer : \A l : Waits(l, dend[d])' <=> Waits(l, dend[d])
      BY DEF Waits
    <2> QED
      BY <2>1, <2>2 DEF MeetInv, InprocDialInv
  <1>5. InprocPeerInv'
    BY DEF MeetInv, InprocPeerInv
  <1> QED
    BY <1>3, <1>4, <1>5 DEF MeetInv

(* Accept makes an end and appends it to its list.                         *)
LEMMA AcceptStepInv ==
  ASSUME InprocTypeOK, MeetInv, NEW l \in Listener, AcceptCall(l)
  PROVE  MeetInv'
  <1>0. /\ nend' = nend + 1 /\ nend \in Nat /\ nend + 1 \in InprocEnd
        /\ UNCHANGED <<dend, peer, ready, shut>> /\ dpc' = Broadcast
        /\ accepters' = [accepters EXCEPT ![l] = Append(@, nend + 1)]
    BY InprocAssumption DEF AcceptCall, NewEnd, endVars, InprocTypeOK, InprocEnd
  <1>10. PICK e0 \in InprocEnd : e0 = nend + 1
    BY <1>0
  <1>1. /\ Len(accepters[l]) \in Nat /\ Len(accepters'[l]) = Len(accepters[l]) + 1
        /\ \A i \in 1 .. Len(accepters[l]) : accepters'[l][i] = accepters[l][i]
        /\ accepters'[l][Len(accepters[l]) + 1] = e0
        /\ \A k \in Listener \ {l} : accepters'[k] = accepters[k]
    BY <1>0, <1>10, InprocSeqFacts DEF InprocTypeOK
  <1>2. \A d \in Dialer : Dialing(d)' <=> Dialing(d)
    BY <1>0, BroadcastFacts DEF Dialing
  <1>3. \A k \in Listener : \A e : Waits(k, e)' <=> Waits(k, e) \/ (k = l /\ e = e0)
    <2>1. \A e : Waits(l, e)' <=> Waits(l, e) \/ e = e0
      <3>1. PICK n \in Nat : n = Len(accepters[l])
        BY <1>1
      <3>2. \A i : i \in 1 .. n + 1 <=> i \in 1 .. n \/ i = n + 1
        OBVIOUS
      <3>3. \A e : (\E i \in 1 .. n + 1 : accepters'[l][i] = e)
                  <=> (\E i \in 1 .. n : accepters[l][i] = e) \/ e = e0
        BY <1>1, <3>1, <3>2
      <3> QED
        BY <1>1, <3>1, <3>3 DEF Waits
    <2>2. \A k \in Listener \ {l} : \A e : Waits(k, e)' <=> Waits(k, e)
      BY <1>1 DEF Waits
    <2> QED
      BY <2>1, <2>2
  <1>4. \A e : Alone(e) => Alone(e)' /\ e # e0
    BY <1>0, <1>10 DEF Alone
  <1>5. peer[e0] = 0 /\ ready[e0] = 0 /\ e0 \notin shut
    BY <1>0, <1>10 DEF MeetInv, InprocPeerInv
  <1>6. Alone(e0)'
    BY <1>0, <1>5, <1>10 DEF Alone
  <1>7. InprocListInv'
    <2>1. \A k \in Listener : \A i, j \in 1 .. Len(accepters'[k]) :
            accepters'[k][i] = accepters'[k][j] => i = j
      <3>1. ASSUME NEW i \in 1 .. Len(accepters'[l]), NEW j \in 1 .. Len(accepters'[l]),
                   accepters'[l][i] = accepters'[l][j]
            PROVE  i = j
        <4>1. ~Waits(l, e0)
          BY <1>4, <1>5 DEF MeetInv, InprocListInv
        <4>2. PICK n \in Nat : n = Len(accepters[l])
          BY <1>1
        <4>3. \A m \in 1 .. n : accepters[l][m] # e0
          BY <4>1, <4>2 DEF Waits
        <4>4. \A m, h \in 1 .. n : accepters[l][m] = accepters[l][h] => m = h
          BY <4>2 DEF MeetInv, InprocListInv
        <4>5. i \in 1 .. n \/ i = n + 1
          BY <1>1, <4>2
        <4>6. j \in 1 .. n \/ j = n + 1
          BY <1>1, <4>2
        <4> QED
          BY <1>1, <3>1, <4>2, <4>3, <4>4, <4>5, <4>6
      <3>2. \A k \in Listener \ {l} : \A i, j \in 1 .. Len(accepters'[k]) :
              accepters'[k][i] = accepters'[k][j] => i = j
        BY <1>1 DEF MeetInv, InprocListInv
      <3> QED
        BY <3>1, <3>2
    <2>2. \A k, m \in Listener : \A e \in InprocEnd : Waits(k, e)' /\ Waits(m, e)' => k = m
      BY <1>3, <1>4, <1>5 DEF MeetInv, InprocListInv
    <2>3. ASSUME NEW k \in Listener, NEW e \in InprocEnd, Waits(k, e)' PROVE Alone(e)'
      <3>1. CASE Waits(k, e)
        BY <1>4, <3>1 DEF MeetInv, InprocListInv
      <3>2. CASE e = e0
        BY <1>6, <3>2
      <3> QED
        BY <1>3, <2>3, <3>1, <3>2
    <2> QED
      BY <2>1, <2>2, <2>3 DEF InprocListInv
  <1>8. InprocDialInv'
    <2>1. \A d \in Dialer : Dialing(d) => Alone(dend[d])' /\ dend[d] # e0
      <3> SUFFICES ASSUME NEW d \in Dialer, Dialing(d) PROVE Alone(dend[d])' /\ dend[d] # e0
        OBVIOUS
      <3>1. Alone(dend[d])
        BY DEF MeetInv, InprocDialInv
      <3> QED
        BY <1>0, <1>10, <3>1 DEF Alone
    <2>2. \A d \in Dialer : \A k \in Listener : Dialing(d) => ~Waits(k, dend[d])'
      <3> SUFFICES ASSUME NEW d \in Dialer, NEW k \in Listener, Dialing(d)
                   PROVE  ~Waits(k, dend[d])'
        OBVIOUS
      <3>1. dend'[d] = dend[d] /\ dend[d] # e0 /\ ~Waits(k, dend[d])
        BY <1>0, <2>1 DEF MeetInv, InprocDialInv
      <3>2. PICK e : e = dend[d]
        OBVIOUS
      <3>3. ~Waits(k, e)'
        BY <1>3, <3>1, <3>2
      <3> QED
        BY <3>1, <3>2, <3>3 DEF Waits
    <2> QED
      BY <1>0, <1>2, <2>1, <2>2 DEF MeetInv, InprocDialInv
  <1>9. InprocPeerInv'
    <2>1. \A e \in InprocEnd : e > nend' => e > nend
      BY <1>0 DEF InprocEnd
    <2> QED
      BY <1>0, <2>1 DEF MeetInv, InprocPeerInv
  <1> QED
    BY <1>7, <1>8, <1>9 DEF MeetInv


(* Close of a listener closes the ends in its list, and empties it.        *)
LEMMA CloseStepInv ==
  ASSUME InprocTypeOK, MeetInv, NEW l \in Listener, InprocClose(l)
  PROVE  MeetInv'
  <1>0. /\ UNCHANGED <<dend, nend, peer, ready>> /\ dpc' = Broadcast
        /\ accepters' = [accepters EXCEPT ![l] = <<>>]
        /\ shut' = shut \union ToSet(accepters[l])
    BY DEF InprocClose
  <1>1. \A d \in Dialer : Dialing(d)' <=> Dialing(d)
    BY <1>0, BroadcastFacts DEF Dialing
  <1>2. \A e : e \in ToSet(accepters[l]) <=> Waits(l, e)
    <2>1. DOMAIN accepters[l] = 1 .. Len(accepters[l])
      BY DEF InprocTypeOK
    <2> QED
      BY <2>1 DEF ToSet, Waits
  <1>3. \A e : ~Waits(l, e)'
    BY <1>0, InprocEmptyFacts DEF Waits, InprocTypeOK
  <1>4. \A k \in Listener \ {l} : accepters'[k] = accepters[k]
    BY <1>0 DEF InprocTypeOK
  <1>5. \A k \in Listener \ {l} : \A e : Waits(k, e)' <=> Waits(k, e)
    BY <1>4 DEF Waits
  <1>6. \A e : Alone(e) /\ ~Waits(l, e) => Alone(e)'
    BY <1>0, <1>2 DEF Alone
  <1>7. InprocListInv'
    <2>1. Len(accepters'[l]) = 0
      BY <1>0, InprocEmptyFacts DEF InprocTypeOK
    <2>2. \A k \in Listener : \A i, j \in 1 .. Len(accepters'[k]) :
            accepters'[k][i] = accepters'[k][j] => i = j
      BY <1>4, <2>1 DEF MeetInv, InprocListInv
    <2>3. \A k, m \in Listener : \A e \in InprocEnd : Waits(k, e)' /\ Waits(m, e)' => k = m
      BY <1>3, <1>5 DEF MeetInv, InprocListInv
    <2>4. \A k \in Listener : \A e \in InprocEnd : Waits(k, e)' => Alone(e)'
      BY <1>3, <1>5, <1>6 DEF MeetInv, InprocListInv
    <2> QED
      BY <2>2, <2>3, <2>4 DEF InprocListInv
  <1>8. InprocDialInv'
    <2>1. ASSUME NEW d \in Dialer, Dialing(d)
          PROVE  Alone(dend[d])' /\ \A k \in Listener : ~Waits(k, dend[d])'
      <3>1. Alone(dend[d]) /\ dend'[d] = dend[d] /\ \A k \in Listener : ~Waits(k, dend[d])
        BY <1>0, <2>1 DEF MeetInv, InprocDialInv
      <3>2. PICK e : e = dend[d]
        OBVIOUS
      <3>3. Alone(e)' /\ \A k \in Listener : ~Waits(k, e)'
        BY <1>3, <1>5, <1>6, <3>1, <3>2
      <3> QED
        BY <3>1, <3>2, <3>3 DEF Alone, Waits
    <2> QED
      BY <1>0, <1>1, <2>1 DEF MeetInv, InprocDialInv
  <1>9. InprocPeerInv'
    <2>1. ASSUME NEW e \in InprocEnd, e > nend PROVE e \notin shut'
      <3>1. e \notin shut /\ ~Alone(e)
        BY <2>1 DEF MeetInv, InprocPeerInv, Alone, InprocTypeOK, InprocEnd
      <3> QED
        BY <1>0, <1>2, <3>1 DEF MeetInv, InprocListInv
    <2> QED
      BY <1>0, <2>1 DEF MeetInv, InprocPeerInv
  <1> QED
    BY <1>7, <1>8, <1>9 DEF MeetInv

(* Dial makes its end.                                                     *)
LEMMA DialStepInv ==
  ASSUME InprocTypeOK, MeetInv, NEW d \in Dialer, DialCall(d)
  PROVE  MeetInv'
  <1>0. /\ nend' = nend + 1 /\ nend \in Nat /\ nend + 1 \in InprocEnd
        /\ UNCHANGED <<accepters, peer, ready, shut>>
        /\ dend' = [dend EXCEPT ![d] = nend + 1] /\ dpc' = [dpc EXCEPT ![d] = "try"]
    BY InprocAssumption DEF DialCall, NewEnd, tabVars, lstVars, endVars,
           InprocTypeOK, InprocEnd
  <1>1. /\ dend'[d] = nend + 1
        /\ \A f \in Dialer \ {d} : dend'[f] = dend[f] /\ (Dialing(f)' <=> Dialing(f))
    BY <1>0 DEF Dialing, InprocTypeOK
  <1>2. \A k, e : Waits(k, e)' <=> Waits(k, e)
    BY <1>0 DEF Waits
  <1>3. \A e : Alone(e) => Alone(e)' /\ e # nend + 1
    BY <1>0 DEF Alone
  <1>4. \A k \in Listener : ~Waits(k, nend + 1)
    BY <1>0, <1>3 DEF MeetInv, InprocListInv
  <1>5. \A e : e = nend + 1 => Alone(e)'
    BY <1>0 DEF MeetInv, InprocPeerInv, Alone
  <1>6. InprocListInv'
    BY <1>0, <1>2, <1>3 DEF MeetInv, InprocListInv
  <1>7. InprocDialInv'
    <2>1. \A f \in Dialer : Dialing(f)' =>
            \E e : dend'[f] = e /\ Alone(e)' /\ \A k \in Listener : ~Waits(k, e)
      <3>1. \A f \in Dialer \ {d} : Dialing(f) =>
              Alone(dend[f]) /\ \A k \in Listener : ~Waits(k, dend[f])
        BY DEF MeetInv, InprocDialInv
      <3>2. ASSUME NEW f \in Dialer \ {d}, Dialing(f)'
            PROVE  \E e : dend'[f] = e /\ Alone(e)' /\ \A k \in Listener : ~Waits(k, e)
        <4>1. PICK e : e = dend[f]
          OBVIOUS
        <4>2. Alone(e)' /\ \A k \in Listener : ~Waits(k, e)
          BY <1>1, <1>3, <3>1, <3>2, <4>1
        <4> QED
          BY <1>1, <4>1, <4>2
      <3>3. \E e : dend'[d] = e /\ Alone(e)' /\ \A k \in Listener : ~Waits(k, e)
        <4>1. PICK e : e = nend + 1
          OBVIOUS
        <4>2. Alone(e)' /\ \A k \in Listener : ~Waits(k, e)
          BY <1>4, <1>5, <4>1
        <4> QED
          BY <1>1, <4>1, <4>2
      <3> QED
        BY <3>2, <3>3
    <2>2. \A f \in Dialer : Dialing(f)' =>
            Alone(dend[f])' /\ \A k \in Listener : ~Waits(k, dend[f])'
      <3> SUFFICES ASSUME NEW f \in Dialer, Dialing(f)'
                   PROVE  Alone(dend[f])' /\ \A k \in Listener : ~Waits(k, dend[f])'
        OBVIOUS
      <3>1. PICK e : dend'[f] = e /\ Alone(e)' /\ \A k \in Listener : ~Waits(k, e)
        BY <2>1
      <3>2. Alone(dend[f])'
        BY <3>1 DEF Alone
      <3>3. ASSUME NEW k \in Listener PROVE ~Waits(k, dend[f])'
        <4>1. ~Waits(k, e)'
          BY <1>2, <3>1
        <4> QED
          BY <3>1, <4>1 DEF Waits
      <3> QED
        BY <3>2, <3>3
    <2>3. \A f, g \in Dialer : Dialing(f)' /\ Dialing(g)' /\ dend'[f] = dend'[g] => f = g
      <3>1. \A f \in Dialer \ {d} : Dialing(f) => dend[f] # nend + 1
        BY <1>3 DEF MeetInv, InprocDialInv
      <3>2. \A f, g \in Dialer \ {d} : Dialing(f) /\ Dialing(g) /\ dend[f] = dend[g] => f = g
        BY DEF MeetInv, InprocDialInv
      <3> QED
        BY <1>1, <3>1, <3>2
    <2> QED
      BY <2>2, <2>3 DEF InprocDialInv
  <1>8. InprocPeerInv'
    <2>1. \A e \in InprocEnd : e > nend' => e > nend
      BY <1>0 DEF InprocEnd
    <2> QED
      BY <1>0, <2>1 DEF MeetInv, InprocPeerInv
  <1> QED
    BY <1>6, <1>7, <1>8 DEF MeetInv


(* Dial takes the newest end of the list for its own.                      *)
LEMMA MeetStepInv ==
  ASSUME InprocTypeOK, MeetInv, NEW d \in Dialer, DialOk(d)
  PROVE  MeetInv'
  <1>1. PICK l \in Listener, s \in InprocEnd, c \in InprocEnd, n \in Nat \ {0} :
          /\ l = byAddr /\ s = Last(accepters[l]) /\ c = dend[d] /\ n = Len(accepters[l])
          /\ accepters[l] \in Seq(InprocEnd) /\ accepters[l] # <<>>
          /\ Waits(l, s) /\ Alone(s) /\ Dialing(d) /\ Alone(c) /\ c # s
    <2>1. /\ byAddr \in Listener /\ accepters[byAddr] \in Seq(InprocEnd) /\ accepters[byAddr] # <<>>
          /\ Last(accepters[byAddr]) \in InprocEnd /\ Waits(byAddr, Last(accepters[byAddr]))
          /\ Alone(Last(accepters[byAddr])) /\ dend[d] \in InprocEnd /\ Dialing(d)
          /\ Alone(dend[d]) /\ dend[d] # Last(accepters[byAddr])
      BY Joined
    <2>2. Len(accepters[byAddr]) \in Nat \ {0}
      BY <2>1, ShortenFacts
    <2> QED
      BY <2>1, <2>2
  <1>0. /\ UNCHANGED <<dend, nend, shut>>
        /\ accepters' = [accepters EXCEPT ![l] = Shorten(@)]
        /\ peer' = [peer EXCEPT ![c] = s, ![s] = c]
        /\ ready' = [ready EXCEPT ![c] = @ + 1, ![s] = @ + 1]
        /\ dpc' = [dpc EXCEPT ![d] = "up"]
    BY <1>1 DEF DialOk
  <1>2. /\ Len(accepters'[l]) = n - 1 /\ s = accepters[l][n]
        /\ \A i \in 1 .. n - 1 : i \in 1 .. n /\ accepters'[l][i] = accepters[l][i]
        /\ \A k \in Listener \ {l} : accepters'[k] = accepters[k]
    <2>1. /\ accepters'[l] = Shorten(accepters[l])
          /\ \A k \in Listener \ {l} : accepters'[k] = accepters[k]
      BY <1>0 DEF InprocTypeOK
    <2>2. /\ Len(Shorten(accepters[l])) = Len(accepters[l]) - 1
          /\ Last(accepters[l]) = accepters[l][Len(accepters[l])]
          /\ \A i \in 1 .. Len(accepters[l]) - 1 :
               i \in 1 .. Len(accepters[l]) /\ Shorten(accepters[l])[i] = accepters[l][i]
      BY <1>1, ShortenFacts
    <2> QED
      BY <1>1, <2>1, <2>2
  <1>3. /\ peer'[c] = s /\ peer'[s] = c
        /\ \A e \in InprocEnd \ {c, s} : peer'[e] = peer[e] /\ ready'[e] = ready[e]
    BY <1>0, <1>1 DEF InprocTypeOK
  <1>4. ~Dialing(d)' /\ \A f \in Dialer \ {d} : Dialing(f)' <=> Dialing(f)
    BY <1>0 DEF Dialing, InprocTypeOK
  <1>5. ~Waits(l, s)' /\ \A k \in Listener : \A e : Waits(k, e)' => Waits(k, e)
    <2>1. \A i \in 1 .. n - 1 : accepters[l][i] # s
      BY <1>1, <1>2 DEF MeetInv, InprocListInv
    <2>2. \A e : Waits(l, e)' => Waits(l, e) /\ e # s
      BY <1>1, <1>2, <2>1 DEF Waits
    <2>3. \A k \in Listener \ {l} : \A e : Waits(k, e)' => Waits(k, e)
      BY <1>2 DEF Waits
    <2> QED
      BY <2>2, <2>3
  <1>6. \A k \in Listener : ~Waits(k, s)' /\ ~Waits(k, c)'
    BY <1>1, <1>5 DEF MeetInv, InprocListInv, InprocDialInv
  <1>7. \A e \in InprocEnd : Alone(e) /\ e \notin {c, s} => Alone(e)'
    BY <1>0, <1>3 DEF Alone
  <1>8. InprocListInv'
    <2>1. \A k \in Listener : \A i, j \in 1 .. Len(accepters'[k]) :
            accepters'[k][i] = accepters'[k][j] => i = j
      <3>1. \A i, j \in 1 .. n : accepters[l][i] = accepters[l][j] => i = j
        BY <1>1 DEF MeetInv, InprocListInv
      <3>2. \A i, j \in 1 .. Len(accepters'[l]) : accepters'[l][i] = accepters'[l][j] => i = j
        BY <1>2, <3>1
      <3>3. \A k \in Listener \ {l} : \A i, j \in 1 .. Len(accepters'[k]) :
              accepters'[k][i] = accepters'[k][j] => i = j
        BY <1>2 DEF MeetInv, InprocListInv
      <3> QED
        BY <3>2, <3>3
    <2>2. \A k, m \in Listener : \A e \in InprocEnd : Waits(k, e)' /\ Waits(m, e)' => k = m
      BY <1>5 DEF MeetInv, InprocListInv
    <2>3. \A k \in Listener : \A e \in InprocEnd : Waits(k, e)' => Alone(e)'
      BY <1>5, <1>6, <1>7 DEF MeetInv, InprocListInv
    <2> QED
      BY <2>1, <2>2, <2>3 DEF InprocListInv
  <1>9. InprocDialInv'
    <2>1. ASSUME NEW f \in Dialer, Dialing(f)'
          PROVE  f # d /\ Alone(dend[f])' /\ \A k \in Listener : ~Waits(k, dend[f])'
      <3>1. f # d /\ Dialing(f)
        BY <1>4, <2>1
      <3>2. PICK e : e = dend[f]
        OBVIOUS
      <3>3. Alone(e) /\ e # c /\ \A k \in Listener : ~Waits(k, e)
        BY <1>1, <3>1, <3>2 DEF MeetInv, InprocDialInv
      <3>4. e # s /\ e \in InprocEnd
        BY <1>1, <3>3, InprocAssumption DEF Alone, InprocEnd, InprocTypeOK
      <3>5. Alone(e)' /\ \A k \in Listener : ~Waits(k, e)'
        BY <1>5, <1>7, <3>3, <3>4
      <3> QED
        BY <1>0, <3>1, <3>2, <3>5 DEF Alone, Waits
    <2>2. \A f, g \in Dialer : Dialing(f)' /\ Dialing(g)' /\ dend'[f] = dend'[g] => f = g
      BY <1>0, <1>4, <2>1 DEF MeetInv, InprocDialInv
    <2> QED
      BY <2>1, <2>2 DEF InprocDialInv
  <1>10. InprocPeerInv'
    <2>1. \A e \in InprocEnd \ {c, s} : peer[e] # 0 => peer[e] \in InprocEnd \ {c, s} /\ peer[peer[e]] = e
      BY <1>1 DEF MeetInv, InprocPeerInv, Alone, InprocEnd
    <2>2. \A e \in InprocEnd : peer'[e] # 0 => peer'[e] \in InprocEnd /\ peer'[peer'[e]] = e
      BY <1>1, <1>3, <2>1
    <2>3. peer'[c] # 0 /\ peer'[s] # 0
      BY <1>1, <1>3 DEF InprocEnd
    <2>4. \A e \in InprocEnd : peer'[e] = 0 => ready'[e] = 0
      BY <1>3, <2>3 DEF MeetInv, InprocPeerInv
    <2>5. \A e \in InprocEnd : e > nend => e \notin {c, s}
      BY <1>1 DEF Alone, InprocEnd, InprocTypeOK
    <2>6. \A e \in InprocEnd : e > nend' => peer'[e] = 0 /\ ready'[e] = 0 /\ e \notin shut'
      BY <1>0, <1>3, <2>5 DEF MeetInv, InprocPeerInv
    <2> QED
      BY <2>2, <2>4, <2>6 DEF InprocPeerInv
  <1> QED
    BY <1>8, <1>9, <1>10 DEF MeetInv

LEMMA InprocStepInv ==
  ASSUME InprocTypeOK, MeetInv, [InprocNext]_(inprocVars)
  PROVE  MeetInv'
  <1>1. ASSUME NEW l \in Listener, InprocListen(l) PROVE MeetInv'
    <2>1. UNCHANGED <<accepters, dend, nend, peer, ready, shut>>
      BY <1>1 DEF InprocListen, endVars
    <2>2. \A d \in Dialer : Dialing(d)' => Dialing(d)
      BY <1>1, BroadcastFacts DEF InprocListen, Dialing
    <2> QED
      BY <2>1, <2>2, SameEnds
  <1>2. ASSUME NEW l \in Listener, AcceptReady(l) \/ AcceptClosed(l) PROVE MeetInv'
    <2>1. UNCHANGED <<accepters, dend, nend, peer, ready, shut, dpc>>
      BY <1>2 DEF AcceptReady, AcceptClosed, tabVars, dialVars, endVars
    <2> QED
      BY <2>1, SameEnds DEF Dialing
  <1>3. ASSUME NEW d \in Dialer, DialRefused(d) \/ DialBad(d) \/ DialWait(d) PROVE MeetInv'
    <2>1. UNCHANGED <<accepters, dend, nend, peer, ready, shut>>
      BY <1>3 DEF DialRefused, DialBad, DialWait, tabVars, endVars
    <2>2. Dialing(d) /\ \A f \in Dialer \ {d} : dpc'[f] = dpc[f]
      BY <1>3 DEF DialRefused, DialBad, DialWait, Dialing, InprocTypeOK
    <2> QED
      BY <2>1, <2>2, SameEnds DEF Dialing
  <1>4. ASSUME NEW e \in InprocEnd, NEW w \in {"send", "recv"},
               IoCall(e, w) \/ Transfer(e) \/ IoClosed(e)
        PROVE  MeetInv'
    <2>1. UNCHANGED <<accepters, dend, nend, peer, ready, shut, dpc>>
      BY <1>4 DEF IoCall, Transfer, IoClosed, tabVars, dialVars
    <2> QED
      BY <2>1, SameEnds DEF Dialing
  <1>5. ASSUME NEW e \in InprocEnd, CloseEnd(e) PROVE MeetInv'
    <2>1. /\ UNCHANGED <<accepters, dend, nend, peer, ready, dpc>>
          /\ peer[e] # 0 /\ shut' = shut \union {e}
      BY <1>5 DEF CloseEnd, Connected, tabVars, dialVars
    <2>2. \A f : Alone(f) => Alone(f)'
      BY <2>1 DEF Alone
    <2>3. InprocListInv'
      <3>1. \A l, f : Waits(l, f)' <=> Waits(l, f)
        BY <2>1 DEF Waits
      <3> QED
        BY <2>1, <2>2, <3>1 DEF MeetInv, InprocListInv
    <2>4. InprocDialInv'
      <3>1. \A d \in Dialer : Alone(dend[d]) => Alone(dend[d])'
        BY <2>1 DEF Alone
      <3>2. \A d \in Dialer : (Dialing(d)' <=> Dialing(d)) /\ dend'[d] = dend[d]
        BY <2>1 DEF Dialing
      <3>3. \A d \in Dialer : \A l \in Listener : Waits(l, dend[d])' <=> Waits(l, dend[d])
        BY <2>1 DEF Waits
      <3> QED
        BY <3>1, <3>2, <3>3 DEF MeetInv, InprocDialInv
    <2>5. InprocPeerInv'
      BY <2>1 DEF MeetInv, InprocPeerInv
    <2> QED
      BY <2>3, <2>4, <2>5 DEF MeetInv
  <1>6. CASE UNCHANGED inprocVars
    <2>1. UNCHANGED <<accepters, dend, nend, peer, ready, shut, dpc>>
      BY <1>6 DEF inprocVars, tabVars, dialVars, endVars
    <2> QED
      BY <2>1, SameEnds DEF Dialing
  <1> QED
    BY <1>1, <1>2, <1>3, <1>4, <1>5, <1>6, AcceptStepInv, CloseStepInv, DialStepInv, MeetStepInv
    DEF InprocNext, AcceptStep, DialStep, IoStep

-----------------------------------------------------------------------------
(* Every variable keeps its type, for any number of ends; no end's readyq  *)
(* is closed twice.                                                        *)
THEOREM InprocTypeCorrect == InprocSafeSpec => [](InprocTypeOK /\ MeetInv)
  <1>1. InprocInit => InprocTypeOK /\ MeetInv
    BY InprocInitType
  <1>2. InprocTypeOK /\ MeetInv /\ [InprocNext]_(inprocVars) => (InprocTypeOK /\ MeetInv)'
    BY InprocStepType, InprocStepInv
  <1> QED
    BY <1>1, <1>2, PTL DEF InprocSafeSpec

LEMMA InvPairs ==
  ASSUME InprocTypeOK, MeetInv
  PROVE  OnePeer
  <1>1. \A l \in Listener : \A i \in DOMAIN accepters[l] :
          i \in 1 .. Len(accepters[l]) /\ accepters[l][i] \in InprocEnd
    BY DEF InprocTypeOK
  <1>2. \A l \in Listener : \A i \in DOMAIN accepters[l] : Alone(accepters[l][i])
    BY <1>1 DEF MeetInv, InprocListInv, Waits
  <1> QED
    BY <1>2 DEF OnePeer, MeetInv, InprocPeerInv, Alone, Connected

(* The two ends of a connection know each other, and what waits in a list  *)
(* of accepters is connected to nobody and not closed, however Dial,       *)
(* Accept and Close interleave.                                            *)
THEOREM PairsOnly == InprocSafeSpec => []OnePeer
  BY InprocTypeCorrect, InvPairs, PTL

-----------------------------------------------------------------------------
(* WebSocket: no pipe of the listener's side is lost or returned twice.    *)

(* Between net.Listen and the end of Listen nothing runs: the handler      *)
(* option is not read then, and a listener that runs without it is bound.  *)
ListenInv ==
  /\ running /\ ~noserve => netl
  /\ lpc = "bound" => ~running /\ ~noserve /\ netl /\ nl < WsMaxListen
  /\ pending # <<>> => running

(* The handlers that wait for Accept.                                      *)
PendInv ==
  /\ \A i, j \in 1 .. Len(pending) : pending[i] = pending[j] => i = j
  /\ \A i \in 1 .. Len(pending) :
       hd[pending[i]] = "wait" /\ taken[pending[i]] = 0 /\ pipe[Server(pending[i])] = "open"

(* The pipe of a handler, before it makes one and after.                   *)
PipeInv ==
  \A c \in WsConn :
    /\ hd[c] \in {"none", "up"} => pipe[Server(c)] = "none" /\ taken[c] = 0
    /\ taken[c] \in {0, 1}
    /\ pipe[Server(c)] = "open" => taken[c] = 1 \/ \E i \in 1 .. Len(pending) : pending[i] = c

WsInv == ListenInv /\ PendInv /\ PipeInv

-----------------------------------------------------------------------------
(* Lemmas about the ends of a connection and the list.                     *)

LEMMA EndFacts ==
  /\ \A c \in WsConn : Client(c) \in WsEnd /\ Server(c) \in WsEnd
  /\ \A c, d \in WsConn : Client(c) # Server(d) /\ (Server(c) = Server(d) => c = d)
  /\ \A e \in WsEnd :
       /\ e[1] \in WsConn /\ (e = Server(e[1]) \/ e = Client(e[1]))
       /\ WsOther(e) \in WsEnd
  BY DEF Client, Server, WsEnd, WsOther

LEMMA PopFacts ==
  ASSUME pending \in Seq(WsConn), pending # <<>>
  PROVE  /\ Pop \in Seq(WsConn) /\ Last(pending) \in WsConn
         /\ Len(pending) \in Nat \ {0} /\ Len(Pop) = Len(pending) - 1
         /\ Last(pending) = pending[Len(pending)]
         /\ \A i \in 1 .. Len(Pop) : i \in 1 .. Len(pending) /\ Pop[i] = pending[i]
  <1>1. Len(pending) \in Nat \ {0}
    OBVIOUS
  <1>2. Last(pending) \in WsConn /\ Last(pending) = pending[Len(pending)]
    BY <1>1 DEF Last
  <1>3. Pop = SubSeq(pending, 1, Len(pending) - 1)
    BY DEF Pop, Front
  <1>4. \A n \in Nat : n <= Len(pending) =>
          SubSeq(pending, 1, n) \in Seq(WsConn) /\ Len(SubSeq(pending, 1, n)) = n
    OBVIOUS
  <1>7. Len(pending) - 1 \in Nat /\ Len(pending) - 1 <= Len(pending)
    BY <1>1
  <1> HIDE DEF Pop
  <1>6. Pop \in Seq(WsConn) /\ Len(Pop) = Len(pending) - 1
    BY <1>3, <1>4, <1>7
  <1>5. \A i \in 1 .. Len(Pop) : i \in 1 .. Len(pending) /\ Pop[i] = pending[i]
    BY <1>1, <1>3, <1>6
  <1> QED
    BY <1>1, <1>2, <1>5, <1>6

LEMMA WsAppendFacts ==
  ASSUME NEW S, NEW s \in Seq(S), NEW x \in S
  PROVE  /\ Append(s, x) \in Seq(S) /\ Len(Append(s, x)) = Len(s) + 1 /\ Len(s) \in Nat
         /\ \A i \in 1 .. Len(s) : Append(s, x)[i] = s[i] /\ s[i] \in S
         /\ Append(s, x)[Len(s) + 1] = x
  OBVIOUS

LEMMA WsTailFacts ==
  ASSUME NEW S, NEW s \in Seq(S), s # <<>>
  PROVE  Tail(s) \in Seq(S)
  OBVIOUS

LEMMA ClosedFacts ==
  ASSUME WsTypeOK, NEW s
  PROVE  /\ ClosePipes(s) \in [WsEnd -> {"none", "open", "closed"}]
         /\ \A e \in WsEnd : ClosePipes(s)[e] = IF e \in s THEN "closed" ELSE pipe[e]
  BY DEF ClosePipes, WsTypeOK

LEMMA BroadcastType ==
  ASSUME WsTypeOK
  PROVE  WsBroadcast \in [Serve -> {"none", "call", "wait", "exit"}]
  BY DEF WsBroadcast, WsTypeOK

LEMMA WsEmptyType == \A S : <<>> \in Seq(S) /\ Len(<<>>) = 0
  OBVIOUS

-----------------------------------------------------------------------------
(* The type invariant.                                                     *)

LEMMA WsInitType == WsInit => WsTypeOK /\ WsInv
  <1> SUFFICES ASSUME WsInit PROVE WsTypeOK /\ WsInv
    OBVIOUS
  <1>1. WsTypeOK
    <2>1. winb \in [WsEnd -> Seq(WsSizes)] /\ pending \in Seq(WsConn)
      BY DEF WsInit
    <2>2. /\ wacc \in [Serve -> {"none", "call", "wait", "exit"}]
          /\ hd \in [WsConn -> {"none", "up", "wait", "done"}]
          /\ pipe \in [WsEnd -> {"none", "open", "closed"}] /\ taken \in [WsConn -> Nat]
      BY DEF WsInit
    <2>3. running \in BOOLEAN /\ noserve \in BOOLEAN /\ netl \in BOOLEAN
      BY DEF WsInit
    <2>4. misfit \in Misfits /\ wcfg \in {"none", "nocert", "cert"} /\ lpc \in {"idle", "bound"}
      BY DEF WsInit
    <2>5. nl \in 0 .. WsMaxListen /\ wsent \in 0 .. WsMaxMsg /\ dialing \subseteq WsConn
      BY WebSocketAssumption DEF WsInit
    <2> QED
      BY <2>1, <2>2, <2>3, <2>4, <2>5 DEF WsTypeOK
  <1>2. ListenInv /\ PendInv
    BY WsEmptyType DEF WsInit, ListenInv, PendInv
  <1>3. PipeInv
    BY EndFacts DEF WsInit, PipeInv
  <1> QED
    BY <1>1, <1>2, <1>3 DEF WsInv

LEMMA WsStepType ==
  ASSUME WsTypeOK, ListenInv, [WsNext]_(wsVars)
  PROVE  WsTypeOK'
  <1> USE WebSocketAssumption DEF WsTypeOK, wsLVars, msgVars
  <1>1. CASE GetHandler
    BY <1>1 DEF GetHandler
  <1>2. CASE WsSetTLSConfig
    BY <1>2 DEF WsSetTLSConfig
  <1>3. CASE ListenBind
    BY <1>3 DEF ListenBind
  <1>4. ASSUME Listened, pending' \in Seq(WsConn), running' \in BOOLEAN, nl < WsMaxListen
        PROVE  WsTypeOK'
    <2>1. wacc' \in [Serve -> {"none", "call", "wait", "exit"}]
      BY <1>4 DEF Listened
    <2>2. nl' \in 0 .. WsMaxListen /\ lpc' = "idle"
      BY <1>4 DEF Listened
    <2> QED
      BY <1>4, <2>1, <2>2 DEF Listened
  <1>5. CASE ListenRun
    BY <1>4, <1>5, WsEmptyType DEF ListenRun, ListenInv
  <1>6. CASE ListenFake
    BY <1>4, <1>6 DEF ListenFake
  <1>7. CASE WsClose
    BY <1>7, ClosedFacts, BroadcastType, WsEmptyType DEF WsClose, ClosePending
  <1>8. ASSUME NEW k \in Serve, WsAccept(k) PROVE WsTypeOK'
    <2>1. CASE running /\ pending # <<>> /\ taken' = [taken EXCEPT ![Last(pending)] = @ + 1]
               /\ pending' = Pop /\ UNCHANGED wacc
      BY <1>8, <2>1, PopFacts DEF WsAccept
    <2>2. CASE /\ wacc' \in [Serve -> {"none", "call", "wait", "exit"}]
               /\ UNCHANGED <<pending, taken>>
      BY <1>8, <2>2 DEF WsAccept
    <2>3. CASE ~running
      BY <1>8, <2>2, <2>3 DEF WsAccept
    <2>4. CASE running /\ pending = <<>>
      BY <1>8, <2>2, <2>4 DEF WsAccept
    <2>5. CASE running /\ pending # <<>>
      BY <1>8, <2>1, <2>5 DEF WsAccept
    <2> HIDE DEF WsTypeOK
    <2> QED
      BY <2>3, <2>4, <2>5
  <1>9. ASSUME NEW c \in WsConn, WsDial(c) \/ ServeHTTP(c) PROVE WsTypeOK'
    <2>1. CASE WsDial(c)
      BY <2>1 DEF WsDial
    <2>2. CASE ServeHTTP(c)
      BY <2>2 DEF ServeHTTP
    <2> HIDE DEF WsTypeOK
    <2> QED
      BY <1>9, <2>1, <2>2
  <1>10. ASSUME NEW c \in WsConn, WsDialErr(c) PROVE WsTypeOK'
    BY <1>10, ClosedFacts DEF WsDialErr
  <1>11. ASSUME NEW c \in WsConn, WsDialOk(c) PROVE WsTypeOK'
    BY <1>11, EndFacts DEF WsDialOk
  <1>12. ASSUME NEW c \in WsConn, HandlerReject(c) PROVE WsTypeOK'
    BY <1>12, ClosedFacts DEF HandlerReject
  <1>13. ASSUME NEW c \in WsConn, HandlerPend(c) PROVE WsTypeOK'
    BY <1>13, EndFacts, BroadcastType, WsAppendFacts DEF HandlerPend
  <1>14. ASSUME NEW c \in WsConn, HandlerReturn(c) PROVE WsTypeOK'
    BY <1>14 DEF HandlerReturn
  <1>15. ASSUME NEW e \in WsEnd, PipeClose(e) \/ IOErr(e) PROVE WsTypeOK'
    <2>1. pipe' = ClosePipes({e}) /\ winb' = [winb EXCEPT ![e] = <<>>]
      BY <1>15 DEF PipeClose, IOErr
    <2>2. pipe' \in [WsEnd -> {"none", "open", "closed"}]
      BY <2>1, ClosedFacts
    <2>3. winb' \in [WsEnd -> Seq(WsSizes)]
      BY <2>1, WsEmptyType
    <2> QED
      BY <1>15, <2>2, <2>3 DEF PipeClose, IOErr
  <1>16. ASSUME NEW e \in WsEnd, Send(e) PROVE WsTypeOK'
    <2>1. wsent' \in 0 .. WsMaxMsg
      BY <1>16 DEF Send
    <2>2. winb' \in [WsEnd -> Seq(WsSizes)]
      <3>1. CASE UNCHANGED winb
        BY <3>1
      <3>2. ASSUME NEW n \in WsSizes, winb' = [winb EXCEPT ![WsOther(e)] = Append(@, n)]
            PROVE  winb' \in [WsEnd -> Seq(WsSizes)]
        BY <3>2, EndFacts, WsAppendFacts
      <3> QED
        BY <1>16, <3>1, <3>2 DEF Send
    <2> QED
      BY <1>16, <2>1, <2>2 DEF Send
  <1>17. ASSUME NEW e \in WsEnd, Recv(e) PROVE WsTypeOK'
    BY <1>17, WsTailFacts DEF Recv
  <1>18. CASE UNCHANGED wsVars
    BY <1>18 DEF wsVars
  <1> QED
    BY <1>1, <1>2, <1>3, <1>5, <1>6, <1>7, <1>8, <1>9, <1>10, <1>11, <1>12, <1>13, <1>14,
       <1>15, <1>16, <1>17, <1>18 DEF WsNext, HandlerStep

-----------------------------------------------------------------------------
(* The inductive step.                                                     *)

(* A step that leaves the handlers alone.                                  *)
LEMMA SamePipes ==
  ASSUME PendInv, PipeInv, UNCHANGED <<hd, taken, pending>>,
         \A c \in WsConn : pipe'[Server(c)] = pipe[Server(c)], pending \in Seq(WsConn)
  PROVE  PendInv' /\ PipeInv'
  <1>1. \A i \in 1 .. Len(pending) : pending[i] \in WsConn
    OBVIOUS
  <1>2. \A c : Server(c)' = Server(c)
    BY DEF Server
  <1> QED
    BY <1>1, <1>2 DEF PendInv, PipeInv

(* A step of one handler that is not in the list, or of its pipe.          *)
LEMMA OnePipe ==
  ASSUME PendInv, PipeInv, pending \in Seq(WsConn), NEW c \in WsConn, UNCHANGED <<taken, pending>>,
         \A i \in 1 .. Len(pending) : pending[i] # c,
         \A d \in WsConn \ {c} : hd'[d] = hd[d] /\ pipe'[Server(d)] = pipe[Server(d)],
         hd'[c] \in {"none", "up"} => pipe'[Server(c)] = "none" /\ taken[c] = 0,
         pipe'[Server(c)] = "open" => taken[c] = 1
  PROVE  PendInv' /\ PipeInv'
  <1>1. \A i \in 1 .. Len(pending) : pending[i] \in WsConn \ {c}
    OBVIOUS
  <1>2. \A d : Server(d)' = Server(d)
    BY DEF Server
  <1>3. PendInv'
    BY <1>1, <1>2 DEF PendInv
  <1>4. PipeInv'
    BY <1>2 DEF PipeInv
  <1> QED
    BY <1>3, <1>4

(* The handler that waits is put in the list.                              *)
LEMMA PendStep ==
  ASSUME WsTypeOK, PendInv, PipeInv, NEW c \in WsConn, HandlerPend(c)
  PROVE  PendInv' /\ PipeInv'
  <1>1. /\ hd[c] = "up" /\ hd' = [hd EXCEPT ![c] = "wait"]
        /\ pipe' = [pipe EXCEPT ![Server(c)] = "open"]
        /\ pending' = Append(pending, c) /\ taken' = taken
    BY DEF HandlerPend
  <1>2. /\ Len(pending) \in Nat /\ Len(pending') = Len(pending) + 1
        /\ \A i \in 1 .. Len(pending) : pending'[i] = pending[i] /\ pending[i] \in WsConn \ {c}
        /\ pending'[Len(pending) + 1] = c
    BY <1>1, WsAppendFacts DEF WsTypeOK, PendInv
  <1>3. \A d \in WsConn : d # c => hd'[d] = hd[d] /\ pipe'[Server(d)] = pipe[Server(d)]
    BY <1>1, EndFacts DEF WsTypeOK
  <1>4. hd'[c] = "wait" /\ pipe'[Server(c)] = "open" /\ taken[c] = 0
    BY <1>1, EndFacts DEF WsTypeOK, PipeInv
  <1>5. \A d : Server(d)' = Server(d)
    BY DEF Server
  <1>6. PendInv'
    <2>1. ASSUME NEW i \in 1 .. Len(pending'), NEW j \in 1 .. Len(pending'),
                 pending'[i] = pending'[j]
          PROVE  i = j
      BY <1>2, <2>1 DEF PendInv
    <2>2. ASSUME NEW i \in 1 .. Len(pending')
          PROVE  /\ hd'[pending'[i]] = "wait" /\ taken'[pending'[i]] = 0
                 /\ pipe'[Server(pending'[i])] = "open"
      <3>1. CASE i = Len(pending) + 1
        BY <1>1, <1>2, <1>4, <3>1
      <3>2. CASE i \in 1 .. Len(pending)
        BY <1>1, <1>2, <1>3, <3>2 DEF PendInv
      <3> QED
        BY <1>2, <3>1, <3>2
    <2> QED
      BY <1>5, <2>1, <2>2 DEF PendInv
  <1>7. PipeInv'
    <2>1. \A d \in WsConn : d # c /\ pipe[Server(d)] = "open" =>
            taken[d] = 1 \/ \E i \in 1 .. Len(pending') : pending'[i] = d
      BY <1>2 DEF PipeInv
    <2>2. \E i \in 1 .. Len(pending') : pending'[i] = c
      BY <1>2
    <2> QED
      BY <1>1, <1>3, <1>4, <1>5, <2>1, <2>2 DEF PipeInv
  <1> QED
    BY <1>6, <1>7

(* Accept takes the newest.                                                *)
LEMMA PopStep ==
  ASSUME WsTypeOK, PendInv, PipeInv, pending # <<>>, pending' = Pop, UNCHANGED <<hd, pipe>>,
         taken' = [taken EXCEPT ![Last(pending)] = @ + 1]
  PROVE  PendInv' /\ PipeInv'
  <1> DEFINE c == Last(pending)  n == Len(pending)
  <1>1. /\ c \in WsConn /\ n \in Nat \ {0} /\ Len(pending') = n - 1 /\ c = pending[n]
        /\ \A i \in 1 .. n - 1 : i \in 1 .. n /\ pending'[i] = pending[i]
    BY PopFacts DEF WsTypeOK
  <1>2. hd[c] = "wait" /\ taken[c] = 0 /\ \A i \in 1 .. n - 1 : pending[i] # c
    BY <1>1 DEF PendInv
  <1>3. taken'[c] = 1 /\ \A d \in WsConn : d # c => taken'[d] = taken[d]
    BY <1>1, <1>2 DEF WsTypeOK
  <1>4. \A d : Server(d)' = Server(d)
    BY DEF Server
  <1>5. \A i \in 1 .. n : pending[i] \in WsConn
    BY DEF WsTypeOK
  <1> HIDE DEF c, n
  <1>6. PendInv'
    <2>1. ASSUME NEW i \in 1 .. Len(pending') PROVE taken'[pending'[i]] = 0
      BY <1>1, <1>2, <1>3, <1>5 DEF PendInv, n
    <2> QED
      BY <1>1, <1>4, <2>1 DEF PendInv, n
  <1>7. PipeInv'
    <2>1. ASSUME NEW d \in WsConn, pipe[Server(d)] = "open", d # c
          PROVE  taken[d] = 1 \/ \E i \in 1 .. Len(pending') : pending'[i] = d
      BY <1>1, <2>1 DEF PipeInv, n
    <2> QED
      BY <1>1, <1>2, <1>3, <1>4, <2>1 DEF PipeInv
  <1> QED
    BY <1>6, <1>7

(* Close of the listener closes the pipes in the list.                     *)
LEMMA CloseStep ==
  ASSUME WsTypeOK, PendInv, PipeInv, WsClose
  PROVE  PendInv' /\ PipeInv'
  <1>1. pending' = <<>> /\ pipe' = ClosePending /\ UNCHANGED <<hd, taken>>
    BY DEF WsClose
  <1>2. \A d : Server(d)' = Server(d)
    BY DEF Server
  <1>3. \A d : d \in ToSet(pending) <=> \E i \in 1 .. Len(pending) : pending[i] = d
    BY SMTT(30) DEF WsTypeOK, ToSet
  <1>6. ToSet(pending) \subseteq WsConn
    BY <1>3 DEF WsTypeOK
  <1>4. PendInv'
    BY <1>1, WsEmptyType DEF PendInv
  <1>5. PipeInv'
    <2>1. ASSUME NEW d \in WsConn
          PROVE  IF \E i \in 1 .. Len(pending) : pending[i] = d
                 THEN pipe'[Server(d)] = "closed" /\ hd[d] = "wait"
                 ELSE pipe'[Server(d)] = pipe[Server(d)]
      <3>1. pipe'[Server(d)] = IF Server(d) \in {Server(c) : c \in ToSet(pending)}
                               THEN "closed" ELSE pipe[Server(d)]
        BY <1>1, ClosedFacts, EndFacts DEF ClosePending
      <3>2. Server(d) \in {Server(c) : c \in ToSet(pending)} <=>
              \E i \in 1 .. Len(pending) : pending[i] = d
        <4>1. Server(d) \in {Server(c) : c \in ToSet(pending)} <=> d \in ToSet(pending)
          BY <1>6, EndFacts
        <4> QED
          BY <1>3, <4>1
      <3> QED
        BY <3>1, <3>2 DEF PendInv
    <2> QED
      BY <1>1, <1>2, <2>1 DEF PipeInv
  <1> QED
    BY <1>4, <1>5

LEMMA WsStepInv ==
  ASSUME WsTypeOK, WsInv, [WsNext]_(wsVars)
  PROVE  WsInv'
  <1> USE DEF wsLVars, msgVars
  <1>0. ListenInv /\ PendInv /\ PipeInv /\ pending \in Seq(WsConn)
    BY DEF WsInv, WsTypeOK
  <1>1. CASE GetHandler \/ WsSetTLSConfig \/ ListenBind \/ ListenFake
    <2>1. ListenInv'
      BY <1>0, <1>1 DEF GetHandler, WsSetTLSConfig, ListenBind, ListenFake,
         Listened, ListenInv
    <2>2. UNCHANGED <<hd, taken, pending, pipe>>
      BY <1>1 DEF GetHandler, WsSetTLSConfig, ListenBind, ListenFake, Listened
    <2> QED
      BY <1>0, <2>1, <2>2, SamePipes DEF WsInv
  <1>2. CASE ListenRun
    <2>1. ListenInv'
      BY <1>0, <1>2 DEF ListenRun, Listened, ListenInv
    <2>2. UNCHANGED <<hd, taken, pending, pipe>>
      BY <1>0, <1>2 DEF ListenRun, Listened, ListenInv
    <2> QED
      BY <1>0, <2>1, <2>2, SamePipes DEF WsInv
  <1>3. CASE WsClose
    <2>1. ListenInv'
      BY <1>0, <1>3 DEF WsClose, ListenInv
    <2> QED
      BY <1>0, <1>3, <2>1, CloseStep DEF WsInv
  <1>4. ASSUME NEW k \in Serve, WsAccept(k) PROVE WsInv'
    <2>1. UNCHANGED <<running, noserve, netl, lpc, nl, hd, pipe>>
      BY <1>4 DEF WsAccept
    <2>2. CASE UNCHANGED <<pending, taken>>
      <3>1. ListenInv'
        BY <1>0, <2>1, <2>2 DEF ListenInv
      <3> QED
        BY <1>0, <2>1, <2>2, <3>1, SamePipes DEF WsInv
    <2>3. CASE running /\ pending # <<>> /\ taken' = [taken EXCEPT ![Last(pending)] = @ + 1]
               /\ pending' = Pop
      <3>1. ListenInv'
        BY <1>0, <2>1, <2>3 DEF ListenInv
      <3> QED
        BY <1>0, <2>1, <2>3, <3>1, PopStep DEF WsInv
    <2> QED
      BY <1>4, <2>2, <2>3 DEF WsAccept
  <1>5. ASSUME UNCHANGED <<running, noserve, netl, lpc, nl, pending>> PROVE ListenInv'
    BY <1>0, <1>5 DEF ListenInv
  <1>6. ASSUME NEW c \in WsConn, WsDial(c) \/ WsDialErr(c) \/ WsDialOk(c) PROVE WsInv'
    <2>1. UNCHANGED <<running, noserve, netl, lpc, nl, hd, taken, pending>>
      BY <1>6 DEF WsDial, WsDialErr, WsDialOk
    <2>2. \A d \in WsConn : pipe'[Server(d)] = pipe[Server(d)]
      BY <1>6, ClosedFacts, EndFacts DEF WsDial, WsDialErr, WsDialOk, WsTypeOK
    <2> QED
      BY <1>0, <1>5, <2>1, <2>2, SamePipes DEF WsInv
  <1>7. ASSUME NEW c \in WsConn, ServeHTTP(c) \/ HandlerReject(c) PROVE WsInv'
    <2>1. UNCHANGED <<running, noserve, netl, lpc, nl, taken, pending>>
      BY <1>7 DEF ServeHTTP, HandlerReject
    <2>2. hd[c] # "wait" /\ \A i \in 1 .. Len(pending) : pending[i] # c
      BY <1>0, <1>7 DEF ServeHTTP, HandlerReject, PendInv
    <2>3. \A d \in WsConn \ {c} : hd'[d] = hd[d] /\ pipe'[Server(d)] = pipe[Server(d)]
      BY <1>7, ClosedFacts, EndFacts DEF ServeHTTP, HandlerReject, WsTypeOK
    <2>4. /\ hd'[c] \in {"none", "up"} => pipe'[Server(c)] = "none" /\ taken[c] = 0
          /\ pipe'[Server(c)] # "open"
      <3>1. CASE ServeHTTP(c)
        BY <1>0, <3>1 DEF ServeHTTP, PipeInv
      <3>2. CASE HandlerReject(c)
        BY <3>2, ClosedFacts, EndFacts DEF HandlerReject, WsTypeOK
      <3> QED
        BY <1>7, <3>1, <3>2
    <2> QED
      BY <1>0, <1>5, <2>1, <2>2, <2>3, <2>4, OnePipe DEF WsInv
  <1>8. ASSUME NEW c \in WsConn, HandlerPend(c) PROVE WsInv'
    <2>1. ListenInv'
      BY <1>0, <1>8 DEF HandlerPend, ListenInv
    <2> QED
      BY <1>0, <1>8, <2>1, PendStep DEF WsInv
  <1>9. ASSUME NEW c \in WsConn, HandlerReturn(c) PROVE WsInv'
    <2>1. UNCHANGED <<running, noserve, netl, lpc, nl, taken, pending, pipe>>
      BY <1>9 DEF HandlerReturn
    <2>2. pipe[Server(c)] = "closed" /\ \A i \in 1 .. Len(pending) : pending[i] # c
      BY <1>0, <1>9 DEF HandlerReturn, PendInv
    <2>3. hd'[c] = "done" /\ \A d \in WsConn \ {c} : hd'[d] = hd[d]
      BY <1>9 DEF HandlerReturn, WsTypeOK
    <2> QED
      BY <1>0, <1>5, <2>1, <2>2, <2>3, OnePipe DEF WsInv
  <1>10. ASSUME NEW e \in WsEnd, PipeClose(e) \/ IOErr(e) PROVE WsInv'
    <2>1. UNCHANGED <<running, noserve, netl, lpc, nl, hd, taken, pending>>
      BY <1>10 DEF PipeClose, IOErr
    <2>2. InUse(e) /\ pipe' = ClosePipes({e})
      BY <1>10 DEF PipeClose, IOErr
    <2>3. CASE e = Server(e[1])
      <3> DEFINE c == e[1]
      <3>1. c \in WsConn /\ taken[c] > 0 /\ taken[c] = 1
        BY <1>0, <2>2, <2>3, EndFacts DEF InUse, PipeInv
      <3>2. \A i \in 1 .. Len(pending) : pending[i] # c
        BY <1>0, <3>1 DEF PendInv
      <3>3. \A d \in WsConn \ {c} : pipe'[Server(d)] = pipe[Server(d)]
        BY <2>2, <2>3, <3>1, ClosedFacts, EndFacts
      <3>4. hd[c] \notin {"none", "up"}
        BY <1>0, <3>1 DEF PipeInv
      <3> HIDE DEF c
      <3> QED
        BY <1>0, <1>5, <2>1, <3>1, <3>2, <3>3, <3>4, OnePipe DEF WsInv
    <2>4. CASE e = Client(e[1])
      <3>1. \A d \in WsConn : pipe'[Server(d)] = pipe[Server(d)]
        BY <2>2, <2>4, ClosedFacts, EndFacts
      <3> QED
        BY <1>0, <1>5, <2>1, <3>1, SamePipes DEF WsInv
    <2> QED
      BY <2>3, <2>4, EndFacts
  <1>11. ASSUME NEW e \in WsEnd, Send(e) \/ Recv(e) PROVE WsInv'
    <2>1. UNCHANGED <<running, noserve, netl, lpc, nl, hd, taken, pending, pipe>>
      BY <1>11 DEF Send, Recv
    <2> QED
      BY <1>0, <1>5, <2>1, SamePipes DEF WsInv
  <1>12. CASE UNCHANGED wsVars
    BY <1>0, <1>5, <1>12, SamePipes DEF WsInv, wsVars
  <1> QED
    BY <1>1, <1>2, <1>3, <1>4, <1>6, <1>7, <1>8, <1>9, <1>10, <1>11, <1>12
    DEF WsNext, HandlerStep

-----------------------------------------------------------------------------
(* The invariant says what PipesAccounted says in terms of cardinalities.  *)

LEMMA InvAccounts ==
  ASSUME WsTypeOK, WsInv
  PROVE  PipesAccounted
  <1>1. ASSUME NEW c \in WsConn
        PROVE  LET waiting == Cardinality({i \in DOMAIN pending : pending[i] = c}) IN
               /\ taken[c] + waiting <= 1
               /\ pipe[Server(c)] = "open" => taken[c] + waiting = 1
               /\ waiting = 1 => pipe[Server(c)] = "open"
    <2> DEFINE W == {i \in DOMAIN pending : pending[i] = c}
    <2>1. DOMAIN pending = 1 .. Len(pending)
      BY DEF WsTypeOK
    <2>2. CASE \E i \in 1 .. Len(pending) : pending[i] = c
      <3>1. PICK i \in 1 .. Len(pending) : pending[i] = c
        BY <2>2
      <3>2. W = {i}
        BY <2>1, <3>1 DEF WsInv, PendInv
      <3>3. Cardinality(W) = 1
        BY <3>2, FS_Singleton
      <3>4. taken[c] = 0 /\ pipe[Server(c)] = "open"
        BY <3>1 DEF WsInv, PendInv
      <3> HIDE DEF W
      <3> QED
        BY <3>3, <3>4 DEF W
    <2>3. CASE ~\E i \in 1 .. Len(pending) : pending[i] = c
      <3>1. W = {}
        BY <2>1, <2>3
      <3>2. Cardinality(W) = 0
        BY <3>1, FS_EmptySet
      <3>3. taken[c] \in {0, 1} /\ (pipe[Server(c)] = "open" => taken[c] = 1)
        BY <2>3 DEF WsInv, PipeInv
      <3> HIDE DEF W
      <3> QED
        BY <3>2, <3>3 DEF W
    <2> QED
      BY <2>2, <2>3
  <1>2. pending # <<>> => running
    BY DEF WsInv, ListenInv
  <1> QED
    BY <1>1, <1>2 DEF PipesAccounted

-----------------------------------------------------------------------------
(* Every variable keeps its type, for any number of connections and of     *)
(* calls of Listen, and a Listen that is not done runs alone.              *)
THEOREM WsTypeCorrect == WsSafeSpec => [](WsTypeOK /\ WsInv)
  <1>1. WsInit => WsTypeOK /\ WsInv
    BY WsInitType
  <1>2. WsTypeOK /\ WsInv /\ [WsNext]_(wsVars) => (WsTypeOK /\ WsInv)'
    BY WsStepType, WsStepInv DEF WsInv
  <1> QED
    BY <1>1, <1>2, PTL DEF WsSafeSpec

(* A pipe that a handler has made is in the list, or Accept has returned   *)
(* it, once, or it is closed; Close leaves none in the list.               *)
THEOREM NoPipeLost == WsSafeSpec => []PipesAccounted
  BY WsTypeCorrect, InvAccounts, PTL

-----------------------------------------------------------------------------
(* Streams: what is on its way in one direction, f being the end that      *)
(* writes and e the one that reads.                                        *)

Gone == {"closed", "lost"}
Named(e) == who[e[1]] # "stranger"

(* A connection is in the backlog once, and nothing has happened at its    *)
(* accepting end then.                                                     *)
BacklogInv ==
  /\ \A i, j \in 1 .. Len(backlog) : backlog[i] = backlog[j] => i = j
  /\ \A i \in 1 .. Len(backlog) : st[<<backlog[i], "accept">>] = "none"
  /\ \A c \in Conn : st[<<c, "dial">>] = "none" =>
       /\ st[<<c, "accept">>] = "none"
       /\ \A i \in 1 .. Len(backlog) : backlog[i] # c

(* An end that is not in "open" or "closed" has not sent or received.      *)
Blank(e) ==
  out[e] = <<>> /\ sent[e] = <<>> /\ rcvd[e] = <<>> /\ reading[e] = FALSE

(* The states that an end may be in.                                       *)
PhaseInv ==
  \A e \in End :
    /\ st[e] = "tls" => kind = "tls"
    /\ st[e] = "stranger" => ~Named(e)
    /\ st[e] = "lost" => Cut(e)
    /\ st[e] \notin {"open", "closed"} => Blank(e)
    /\ reading[e] = FALSE => rd[e] = <<>>

(* The writer has s as its messages, z is the place of a size in a frame,  *)
(* and h its header.  What it writes has its places in a stream: a hello   *)
(* at -1, the header at 0, and the frame of message k from p[k - 1] + 1 to *)
(* p[k].                                                                   *)
Split(z, s, p) ==
  /\ p \in [0 .. Len(s) -> Nat] /\ p[0] = 0
  /\ \A k \in 1 .. Len(s) : p[k] = p[k - 1] + z + Len(s[k])
  /\ \A j, k \in 0 .. Len(s) : j <= k => p[j] <= p[k]

(* t may be token j of the frame of a message m.                           *)
Fits(z, m, j, t) == (j = z => t.n = Len(m)) /\ (j > z => t = m[j - z])

(* t may be at the place x of the stream.                                  *)
FitsAt(z, h, s, p, x, t) ==
  /\ x = -1 => t = Hello
  /\ x = 0 => t = h
  /\ \A k \in 1 .. Len(s) : p[k - 1] < x /\ x <= p[k] => Fits(z, s[k], x - p[k - 1], t)

(* The messages that the reader has received, and what it has of the next. *)
RcvdFine(lim, s, v) ==
  /\ Len(v) <= Len(s)
  /\ \A k \in 1 .. Len(v) : v[k] = s[k] /\ (lim > 0 => Len(v[k]) <= lim)
RdFine(z, lim, s, v, d) ==
  /\ \A i \in 1 .. Len(d) : Fits(z, s[Len(v) + 1], i, d[i])
  /\ Len(v) < Len(s) => Len(d) < z + Len(s[Len(v) + 1])
  /\ Len(v) = Len(s) => Len(d) = 0
  /\ (Len(d) >= z /\ lim > 0) => d[z].n <= lim

(* The tokens i that the reader finds from the place x on, and the tokens  *)
(* o that the writer has yet to write.                                     *)
InFine(z, h, s, p, x, i) ==
  /\ \A j \in 1 .. Len(i) : FitsAt(z, h, s, p, x + j - 1, i[j])
  /\ x + Len(i) - 1 <= p[Len(s)]
OutFine(z, h, s, p, o) ==
  /\ Len(o) <= p[Len(s)]
  /\ \A j \in 1 .. Len(o) : FitsAt(z, h, s, p, p[Len(s)] - Len(o) + j, o[j])

(* Where e reads next, and where f writes next.                            *)
ReadAt(e, p) ==
  CASE st[e] = "open" -> p[Len(rcvd[e])] + Len(rd[e]) + 1
    [] st[e] \in {"none", "tls"} /\ kind = "tls" -> -1
    [] OTHER -> 0
WriteAt(f, p) ==
  CASE st[f] = "open" -> p[Len(sent[f])] - Len(out[f]) + 1
    [] st[f] = "none" /\ kind = "tls" -> -1
    [] st[f] = "read" -> 1
    [] OTHER -> 0

(* Nothing is lost between them while the connection lasts.                *)
Lasts(e, f) ==
  /\ st[e] \notin Gone /\ st[f] \notin Gone
  /\ e[1] \notin broken \/ st[f] = "none"

Along(e, f, p) ==
  /\ Split(SizeAt, sent[f], p)
  /\ RcvdFine(maxrx(e), sent[f], rcvd[e])
  /\ RdFine(SizeAt, maxrx(e), sent[f], rcvd[e], rd[e])
  /\ st[e] \notin Gone => InFine(SizeAt, connHeader(f), sent[f], p, ReadAt(e, p), inb[e])
  /\ OutFine(SizeAt, connHeader(f), sent[f], p, out[f])
  /\ Lasts(e, f) => ReadAt(e, p) + Len(inb[e]) = WriteAt(f, p)

FlowInv == \A e \in End : Named(e) => \E p : Along(e, Other(e), p)

(* So an end that is open has read the header of a peer.                   *)
PeerInv ==
  \A e \in End : Named(e) /\ st[e] = "open" => Number(Other(e)) = PeerNumber(e)

StreamInv == BacklogInv /\ PhaseInv /\ FlowInv /\ PeerInv

-----------------------------------------------------------------------------
(* Lemmas about the streams.                                               *)

LEMMA SplitFacts ==
  ASSUME NEW z \in {1, 2}, NEW s \in Seq(Seq(TokenSet)), NEW p, Split(z, s, p)
  PROVE  /\ Len(s) \in Nat /\ p[0] = 0 /\ p[Len(s)] \in Nat
         /\ \A k \in 0 .. Len(s) : p[k] \in Nat /\ p[k] <= p[Len(s)]
         /\ \A k \in 1 .. Len(s) :
              /\ k - 1 \in 0 .. Len(s) /\ s[k] \in Seq(TokenSet) /\ Len(s[k]) \in Nat
              /\ p[k] = p[k - 1] + z + Len(s[k])
  <1>1. Len(s) \in Nat /\ Len(s) \in 0 .. Len(s) /\ p[0] = 0
    BY DEF Split
  <1>2. ASSUME NEW k \in 0 .. Len(s) PROVE p[k] \in Nat /\ p[k] <= p[Len(s)]
    <2>1. k <= Len(s) /\ p \in [0 .. Len(s) -> Nat]
      BY <1>1 DEF Split
    <2>2. QED  BY <1>1, <2>1 DEF Split
  <1>3. ASSUME NEW k \in 1 .. Len(s)
        PROVE  /\ k - 1 \in 0 .. Len(s) /\ s[k] \in Seq(TokenSet) /\ Len(s[k]) \in Nat
               /\ p[k] = p[k - 1] + z + Len(s[k])
    BY <1>1, <1>3 DEF Split
  <1>4. QED  BY <1>1, <1>2, <1>3

LEMMA InTail ==
  ASSUME NEW z \in {1, 2}, NEW h, NEW s \in Seq(Seq(TokenSet)), NEW p, Split(z, s, p),
         NEW x \in Int, NEW i \in Seq(TokenSet), i # <<>>, InFine(z, h, s, p, x, i)
  PROVE  /\ InFine(z, h, s, p, x + 1, Tail(i)) /\ FitsAt(z, h, s, p, x, Head(i))
         /\ x <= p[Len(s)] /\ Head(i) \in TokenSet /\ Head(i) = i[1]
         /\ Len(Tail(i)) = Len(i) - 1 /\ Len(i) \in Nat \ {0}
  <1>1. /\ Len(i) \in Nat \ {0} /\ Len(Tail(i)) = Len(i) - 1 /\ Head(i) = i[1]
        /\ Head(i) \in TokenSet /\ \A j \in 1 .. Len(i) - 1 : Tail(i)[j] = i[j + 1]
    OBVIOUS
  <1>2. p[Len(s)] \in Nat
    BY SplitFacts
  <1>3. FitsAt(z, h, s, p, x + 1 - 1, i[1]) /\ x + Len(i) - 1 <= p[Len(s)]
    BY <1>1 DEF InFine
  <1>4. x + 1 - 1 = x
    OBVIOUS
  <1>5. ASSUME NEW j \in 1 .. Len(Tail(i))
        PROVE  FitsAt(z, h, s, p, x + 1 + j - 1, Tail(i)[j])
    <2>1. j + 1 \in 1 .. Len(i) /\ x + (j + 1) - 1 = x + 1 + j - 1 /\ Tail(i)[j] = i[j + 1]
      BY <1>1
    <2>2. FitsAt(z, h, s, p, x + (j + 1) - 1, i[j + 1])
      BY <2>1 DEF InFine
    <2>3. QED  BY <2>1, <2>2
  <1>6. InFine(z, h, s, p, x + 1, Tail(i))
    BY <1>1, <1>2, <1>3, <1>5 DEF InFine
  <1>7. QED  BY <1>1, <1>2, <1>3, <1>4, <1>6

LEMMA InAppend ==
  ASSUME NEW z \in {1, 2}, NEW h, NEW s \in Seq(Seq(TokenSet)), NEW p, Split(z, s, p),
         NEW x \in Int, NEW i \in Seq(TokenSet), NEW t \in TokenSet,
         InFine(z, h, s, p, x, i), FitsAt(z, h, s, p, x + Len(i), t),
         x + Len(i) <= p[Len(s)]
  PROVE  InFine(z, h, s, p, x, Append(i, t)) /\ Len(Append(i, t)) = Len(i) + 1
  <1>1. /\ Len(i) \in Nat /\ Len(Append(i, t)) = Len(i) + 1 /\ Append(i, t)[Len(i) + 1] = t
        /\ \A j \in 1 .. Len(i) : Append(i, t)[j] = i[j]
    OBVIOUS
  <1>2. p[Len(s)] \in Nat
    BY SplitFacts
  <1>3. ASSUME NEW j \in 1 .. Len(i) + 1
        PROVE  FitsAt(z, h, s, p, x + j - 1, Append(i, t)[j])
    <2>1. CASE j \in 1 .. Len(i)
      BY <1>1, <2>1 DEF InFine
    <2>2. CASE j = Len(i) + 1
      <3>1. x + j - 1 = x + Len(i)
        BY <1>1, <2>2
      <3>2. QED  BY <1>1, <2>2, <3>1
    <2>3. QED  BY <1>1, <2>1, <2>2
  <1>4. QED  BY <1>1, <1>2, <1>3 DEF InFine

LEMMA OutTail ==
  ASSUME NEW z \in {1, 2}, NEW h, NEW s \in Seq(Seq(TokenSet)), NEW p, Split(z, s, p),
         NEW o \in Seq(TokenSet), o # <<>>, OutFine(z, h, s, p, o)
  PROVE  /\ OutFine(z, h, s, p, Tail(o)) /\ FitsAt(z, h, s, p, p[Len(s)] - Len(o) + 1, Head(o))
         /\ Head(o) \in TokenSet /\ Len(Tail(o)) = Len(o) - 1 /\ Len(o) \in Nat \ {0}
  <1>1. /\ Len(o) \in Nat \ {0} /\ Len(Tail(o)) = Len(o) - 1 /\ Head(o) = o[1]
        /\ Head(o) \in TokenSet /\ \A j \in 1 .. Len(o) - 1 : Tail(o)[j] = o[j + 1]
    OBVIOUS
  <1>2. p[Len(s)] \in Nat
    BY SplitFacts
  <1>3. FitsAt(z, h, s, p, p[Len(s)] - Len(o) + 1, Head(o))
    BY <1>1 DEF OutFine
  <1>4. ASSUME NEW j \in 1 .. Len(Tail(o))
        PROVE  FitsAt(z, h, s, p, p[Len(s)] - Len(Tail(o)) + j, Tail(o)[j])
    <2>1. /\ j + 1 \in 1 .. Len(o) /\ Tail(o)[j] = o[j + 1]
          /\ p[Len(s)] - Len(o) + (j + 1) = p[Len(s)] - Len(Tail(o)) + j
      BY <1>1, <1>2
    <2>2. FitsAt(z, h, s, p, p[Len(s)] - Len(o) + (j + 1), o[j + 1])
      BY <2>1 DEF OutFine
    <2>3. QED  BY <2>1, <2>2
  <1>5. OutFine(z, h, s, p, Tail(o))
    BY <1>1, <1>2, <1>4 DEF OutFine
  <1>6. QED  BY <1>1, <1>3, <1>5

(* The stream grows by the frame of a message m; what was there stays.     *)
LEMMA SendFine ==
  ASSUME NEW z \in {1, 2}, NEW h, NEW s \in Seq(Seq(TokenSet)), NEW p, Split(z, s, p),
         NEW m \in Seq(TokenSet), NEW o \in Seq(TokenSet), Len(o) = z + Len(m),
         \A j \in 1 .. Len(o) : Fits(z, m, j, o[j])
  PROVE  \E q : /\ Split(z, Append(s, m), q) /\ OutFine(z, h, Append(s, m), q, o)
                /\ q[Len(Append(s, m))] - Len(o) = p[Len(s)] /\ q[Len(Append(s, m))] \in Nat
                /\ \A k \in 0 .. Len(s) : q[k] = p[k]
                /\ \A x \in Int : \A i \in Seq(TokenSet) :
                     InFine(z, h, s, p, x, i) => InFine(z, h, Append(s, m), q, x, i)
  <1> DEFINE s2 == Append(s, m)
             K == Len(s)
             q == [k \in 0 .. K + 1 |-> IF k <= K THEN p[k] ELSE p[K] + z + Len(m)]
  <1>1. /\ s2 \in Seq(Seq(TokenSet)) /\ Len(s2) = K + 1 /\ K \in Nat /\ s2[K + 1] = m
        /\ \A k \in 1 .. K : s2[k] = s[k]
    OBVIOUS
  <1>2. Len(m) \in Nat /\ Len(o) \in Nat
    OBVIOUS
  <1>3. /\ p[0] = 0 /\ p[K] \in Nat /\ \A k \in 0 .. K : p[k] \in Nat /\ p[k] <= p[K]
        /\ \A k \in 1 .. K : k - 1 \in 0 .. K /\ Len(s[k]) \in Nat /\ p[k] = p[k - 1] + z + Len(s[k])
    BY SplitFacts
  <1>4. /\ q \in [0 .. K + 1 -> Nat] /\ \A k \in 0 .. K : q[k] = p[k]
        /\ q[K + 1] = p[K] + z + Len(m)
    BY <1>1, <1>2, <1>3, SMTT(30)
  <1> HIDE DEF s2, K, q
  <1>5. Split(z, s2, q)
    <2>1. q[0] = 0
      BY <1>1, <1>3, <1>4
    <2>2. ASSUME NEW k \in 1 .. K + 1 PROVE q[k] = q[k - 1] + z + Len(s2[k])
      <3>1. CASE k = K + 1
        <4>1. k - 1 = K /\ K \in 0 .. K
          BY <1>1, <3>1
        <4>2. QED  BY <1>1, <1>4, <3>1, <4>1
      <3>2. CASE k \in 1 .. K
        <4>1. k \in 0 .. K /\ k - 1 \in 0 .. K
          BY <1>1, <3>2
        <4>2. QED  BY <1>1, <1>3, <1>4, <3>2, <4>1
      <3>3. QED  BY <1>1, <3>1, <3>2
    <2>3. ASSUME NEW j \in 0 .. K + 1, NEW k \in 0 .. K + 1, j <= k PROVE q[j] <= q[k]
      <3>1. CASE k \in 0 .. K
        <4>1. j \in 0 .. K
          BY <1>1, <2>3, <3>1
        <4>2. p[j] <= p[k]
          BY <2>3, <3>1, <4>1 DEF Split, K
        <4>3. QED  BY <1>4, <3>1, <4>1, <4>2
      <3>2. CASE k = K + 1 /\ j \in 0 .. K
        BY <1>2, <1>3, <1>4, <3>2, SMTT(30)
      <3>3. CASE k = K + 1 /\ j = K + 1
        BY <1>2, <1>3, <1>4, <3>3
      <3>4. QED  BY <1>1, <2>3, <3>1, <3>2, <3>3
    <2>4. QED  BY <1>1, <1>4, <2>1, <2>2, <2>3 DEF Split
  <1>6. ASSUME NEW j \in 1 .. Len(o)
        PROVE  FitsAt(z, h, s2, q, q[K + 1] - Len(o) + j, o[j])
    <2>1. q[K + 1] - Len(o) + j = p[K] + j /\ p[K] + j >= 1
      BY <1>2, <1>3, <1>4
    <2> DEFINE y == p[K] + j
    <2>2. y \in Int /\ y > p[K] /\ y # -1 /\ y # 0 /\ y - p[K] = j
      BY <1>2, <1>3
    <2> HIDE DEF y
    <2>3. ASSUME NEW k \in 1 .. K + 1, q[k - 1] < y, y <= q[k]
          PROVE  Fits(z, s2[k], y - q[k - 1], o[j])
      <3>1. k = K + 1
        <4>1. SUFFICES ASSUME k \in 1 .. K PROVE FALSE
          BY <1>1
        <4>2. k \in 0 .. K
          BY <1>1, <4>1
        <4>3. q[k] = p[k] /\ p[k] <= p[K] /\ p[k] \in Nat
          BY <1>3, <1>4, <4>2
        <4>4. QED  BY <1>3, <2>2, <2>3, <4>3
      <3>2. k - 1 = K /\ K \in 0 .. K
        BY <1>1, <3>1
      <3>3. q[k - 1] = p[K]
        BY <1>4, <3>2
      <3>4. s2[k] = m
        BY <1>1, <3>1
      <3>5. QED  BY <2>2, <3>3, <3>4
    <2>4. FitsAt(z, h, s2, q, y, o[j])
      BY <1>1, <2>2, <2>3 DEF FitsAt
    <2>5. QED  BY <2>1, <2>4 DEF y
  <1>7. OutFine(z, h, s2, q, o)
    BY <1>1, <1>2, <1>3, <1>4, <1>6 DEF OutFine
  <1>8. ASSUME NEW x \in Int, NEW i \in Seq(TokenSet), InFine(z, h, s, p, x, i)
        PROVE  InFine(z, h, s2, q, x, i)
    <2>1. Len(i) \in Nat /\ x + Len(i) - 1 <= p[K]
      BY <1>8 DEF InFine, K
    <2>2. ASSUME NEW j \in 1 .. Len(i) PROVE FitsAt(z, h, s2, q, x + j - 1, i[j])
      <3>1. FitsAt(z, h, s, p, x + j - 1, i[j])
        BY <1>8 DEF InFine
      <3> DEFINE y == x + j - 1
      <3>2. y \in Int /\ y <= p[K]
        BY <1>3, <2>1
      <3> HIDE DEF y
      <3>3. ASSUME NEW k \in 1 .. K + 1, q[k - 1] < y, y <= q[k]
            PROVE  Fits(z, s2[k], y - q[k - 1], i[j])
        <4>1. k \in 1 .. K
          <5>1. SUFFICES ASSUME k = K + 1 PROVE FALSE
            BY <1>1
          <5>2. k - 1 = K /\ K \in 0 .. K
            BY <1>1, <5>1
          <5>3. q[k - 1] = p[K]
            BY <1>4, <5>2
          <5>4. QED  BY <1>3, <3>2, <3>3, <5>3
        <4>2. k \in 0 .. K /\ k - 1 \in 0 .. K
          BY <1>1, <4>1
        <4>3. q[k] = p[k] /\ q[k - 1] = p[k - 1] /\ s2[k] = s[k]
          BY <1>1, <1>4, <4>1, <4>2
        <4>4. QED  BY <3>1, <3>3, <4>1, <4>3 DEF FitsAt, y, K
      <3>4. FitsAt(z, h, s, p, y, i[j])
        BY <3>1 DEF y
      <3>5. FitsAt(z, h, s2, q, y, i[j])
        BY <1>1, <3>3, <3>4 DEF FitsAt
      <3>6. QED  BY <3>5 DEF y
    <2>3. q[K + 1] \in Nat /\ p[K] <= q[K + 1]
      BY <1>2, <1>3, <1>4
    <2>4. QED  BY <1>1, <1>3, <2>1, <2>2, <2>3 DEF InFine
  <1>9. q[Len(s2)] - Len(o) = p[K] /\ q[Len(s2)] \in Nat
    <2>1. q[K + 1] = p[K] + Len(o) /\ q[K + 1] \in Nat
      BY <1>2, <1>3, <1>4
    <2>2. QED  BY <1>1, <1>2, <1>3, <2>1
  <1>10. QED  BY <1>4, <1>5, <1>7, <1>8, <1>9 DEF s2, K

LEMMA GrowFine ==
  ASSUME NEW z \in {1, 2}, NEW lim \in Nat, NEW s \in Seq(Seq(TokenSet)), NEW m \in Seq(TokenSet),
         NEW v \in Seq(Seq(TokenSet)), NEW d \in Seq(TokenSet),
         RcvdFine(lim, s, v), RdFine(z, lim, s, v, d)
  PROVE  RcvdFine(lim, Append(s, m), v) /\ RdFine(z, lim, Append(s, m), v, d)
  <1>1. /\ Len(Append(s, m)) = Len(s) + 1 /\ Len(s) \in Nat /\ Append(s, m)[Len(s) + 1] = m
        /\ \A k \in 1 .. Len(s) : Append(s, m)[k] = s[k]
    OBVIOUS
  <1>2. Len(v) \in Nat /\ Len(d) \in Nat /\ Len(m) \in Nat /\ Len(v) <= Len(s)
    BY DEF RcvdFine
  <1>3. RcvdFine(lim, Append(s, m), v)
    BY <1>1, <1>2 DEF RcvdFine
  <1>4. CASE Len(v) = Len(s)
    <2>1. Len(d) = 0
      BY <1>4 DEF RdFine
    <2>2. QED  BY <1>1, <1>2, <1>3, <1>4, <2>1 DEF RdFine
  <1>5. CASE Len(v) < Len(s)
    <2>1. Append(s, m)[Len(v) + 1] = s[Len(v) + 1]
      BY <1>1, <1>2, <1>5
    <2>2. QED  BY <1>1, <1>2, <1>3, <1>5, <2>1 DEF RdFine
  <1>6. QED  BY <1>1, <1>2, <1>4, <1>5

LEMMA Shift ==
  ASSUME NEW a \in Nat, NEW b \in Nat, NEW c \in Nat, NEW k \in Nat, b + 1 = c + k
  PROVE  a + c + k = a + b + 1
  OBVIOUS

LEMMA Between ==
  ASSUME NEW a \in Nat, NEW b \in Nat, NEW g, g = a + b, NEW i \in 1 .. b
  PROVE  /\ i \in 1 .. g - (a + 1) + 1 /\ a + 1 + i - 1 = a + i
         /\ a + i \in 1 .. g /\ a + i > a /\ (a + i) - a = i
  OBVIOUS

(* The reader finds t at the place x, and has g of the next message then.  *)
Finds(z, h, lim, s, p, v, d, x, t, g) ==
  /\ z \in {1, 2} /\ lim \in Nat /\ s \in Seq(Seq(TokenSet)) /\ Split(z, s, p)
  /\ v \in Seq(Seq(TokenSet)) /\ d \in Seq(TokenSet) /\ t \in TokenSet
  /\ RcvdFine(lim, s, v) /\ RdFine(z, lim, s, v, d)
  /\ x = p[Len(v)] + Len(d) + 1 /\ FitsAt(z, h, s, p, x, t) /\ x <= p[Len(s)]
  /\ g = Append(d, t) /\ ~(Len(g) = z /\ lim > 0 /\ g[z].n > lim)

LEMMA RecvFine ==
  ASSUME NEW z, NEW h, NEW lim, NEW s, NEW p, NEW v, NEW d, NEW x, NEW t, NEW g,
         Finds(z, h, lim, s, p, v, d, x, t, g)
  PROVE  /\ (Len(g) >= z /\ Len(g) = z + g[z].n) =>
              /\ RcvdFine(lim, s, Append(v, SubSeq(g, z + 1, Len(g))))
              /\ RdFine(z, lim, s, Append(v, SubSeq(g, z + 1, Len(g))), <<>>)
              /\ p[Len(Append(v, SubSeq(g, z + 1, Len(g))))] = x
         /\ ~(Len(g) >= z /\ Len(g) = z + g[z].n) =>
              RdFine(z, lim, s, v, g) /\ Len(g) = Len(d) + 1
  <1> DEFINE r == Len(v)
             m == s[r + 1]
  <1>. /\ z \in {1, 2} /\ lim \in Nat /\ s \in Seq(Seq(TokenSet)) /\ Split(z, s, p)
       /\ v \in Seq(Seq(TokenSet)) /\ d \in Seq(TokenSet) /\ t \in TokenSet
       /\ RcvdFine(lim, s, v) /\ RdFine(z, lim, s, v, d)
       /\ x = p[Len(v)] + Len(d) + 1 /\ FitsAt(z, h, s, p, x, t) /\ x <= p[Len(s)]
       /\ g = Append(d, t) /\ ~(Len(g) = z /\ lim > 0 /\ g[z].n > lim)
    BY DEF Finds
  <1>0. z \in Nat \ {0}
    OBVIOUS
  <1>1. /\ g \in Seq(TokenSet) /\ Len(g) = Len(d) + 1 /\ Len(d) \in Nat /\ g[Len(d) + 1] = t
        /\ \A i \in 1 .. Len(d) : g[i] = d[i]
    OBVIOUS
  <1>2. r \in Nat /\ r <= Len(s) /\ Len(s) \in Nat
    BY DEF RcvdFine
  <1>3. /\ p[Len(s)] \in Nat /\ \A k \in 0 .. Len(s) : p[k] \in Nat /\ p[k] <= p[Len(s)]
        /\ \A k \in 1 .. Len(s) : p[k] = p[k - 1] + z + Len(s[k]) /\ Len(s[k]) \in Nat
    BY SplitFacts, SMTT(30)
  <1>4. r # Len(s)
    <2>1. SUFFICES ASSUME r = Len(s) PROVE FALSE
      OBVIOUS
    <2>2. Len(d) = 0
      BY <2>1 DEF RdFine
    <2>3. QED  BY <1>3, <2>1, <2>2
  <1>5. r + 1 \in 1 .. Len(s) /\ r \in 0 .. Len(s) /\ (r + 1) - 1 = r
    BY <1>2, <1>4
  <1>6. Len(d) < z + Len(m)
    BY <1>2, <1>4 DEF RdFine
  <1>7. m \in Seq(TokenSet) /\ Len(m) \in Nat /\ p[r] \in Nat
    BY <1>3, <1>5
  <1>8. p[r + 1] = p[r] + z + Len(m)
    BY <1>3, <1>5
  <1>a. Len(d) \in Nat /\ Len(g) \in Nat /\ Len(g) = Len(d) + 1
    BY <1>1
  <1>b. Len(m) \in Nat /\ p[r] \in Nat
    BY <1>7
  <1> HIDE DEF m
  <1>9. Fits(z, m, Len(d) + 1, t)
    <2>1. p[(r + 1) - 1] < x /\ x <= p[r + 1] /\ x - p[(r + 1) - 1] = Len(d) + 1
      <3>1. x \in Int /\ p[(r + 1) - 1] = p[r]
        BY <1>1, <1>5, <1>7
      <3>2. p[r] < x /\ x <= p[r] + z + Len(m) /\ x - p[r] = Len(d) + 1
        <4>1. PICK a \in Nat : a = p[r]
          BY <1>b
        <4>2. PICK y \in Nat : y = Len(d)
          BY <1>a
        <4>3. PICK k \in Nat : k = Len(m)
          BY <1>b
        <4>4. x = a + y + 1 /\ y < z + k
          BY <1>6, <4>1, <4>2, <4>3
        <4>5. a < x /\ x <= a + z + k /\ x - a = y + 1
          BY <1>0, <4>4
        <4>6. QED  BY <4>1, <4>2, <4>3, <4>5
      <3>3. QED  BY <1>8, <3>1, <3>2
    <2>3. Fits(z, s[r + 1], x - p[(r + 1) - 1], t)
      BY <1>5, <2>1 DEF FitsAt, m
    <2>4. QED  BY <2>1, <2>3 DEF m
  <1>10. \A i \in 1 .. Len(g) : Fits(z, m, i, g[i])
    <2>1. \A i \in 1 .. Len(d) : Fits(z, m, i, g[i])
      BY <1>1 DEF RdFine, m
    <2>2. QED  BY <1>1, <1>9, <2>1
  <1>11. z \in Nat \ {0}
    BY <1>0
  <1>12. Len(g) >= z => g[z].n = Len(m) /\ (lim > 0 => Len(m) <= lim)
    <2>1. SUFFICES ASSUME Len(g) >= z PROVE g[z].n = Len(m) /\ (lim > 0 => Len(m) <= lim)
      OBVIOUS
    <2>2. z \in 1 .. Len(g)
      BY <1>1, <1>11, <2>1
    <2>3. g[z].n = Len(m)
      BY <1>10, <2>2 DEF Fits
    <2>4. CASE Len(d) >= z
      <3>1. z \in 1 .. Len(d)
        BY <1>1, <1>11, <2>4
      <3>2. g[z] = d[z]
        BY <1>1, <3>1
      <3>3. lim > 0 => d[z].n <= lim
        BY <2>4 DEF RdFine
      <3>4. QED  BY <2>3, <3>2, <3>3
    <2>5. CASE Len(g) = z
      BY <1>7, <2>3, <2>5
    <2>6. QED  BY <1>1, <1>11, <2>1, <2>4, <2>5
  <1>13. CASE Len(g) >= z /\ Len(g) = z + g[z].n
    <2> DEFINE b == SubSeq(g, z + 1, Len(g))
               v2 == Append(v, b)
    <2>1. Len(g) >= z /\ Len(g) = z + Len(m)
      BY <1>12, <1>13
    <2>2. \A i \in z + 1 .. Len(g) : g[i] \in TokenSet
      BY <1>1, <1>11
    <2>3. z + 1 \in Int /\ Len(g) \in Int
      BY <1>1, <1>11
    <2>4. /\ b \in Seq(TokenSet)
          /\ Len(b) = IF z + 1 <= Len(g) THEN Len(g) - (z + 1) + 1 ELSE 0
          /\ \A i \in 1 .. Len(g) - (z + 1) + 1 : b[i] = g[z + 1 + i - 1]
      BY <2>2, <2>3, SubSeqProperties
    <2>5. Len(b) = Len(m)
      BY <1>b, <1>0, <1>a, <2>1, <2>4, SMTT(30)
    <2>6. ASSUME NEW i \in 1 .. Len(b) PROVE b[i] = m[i]
      <3>1. i \in 1 .. Len(g) - (z + 1) + 1 /\ z + 1 + i - 1 = z + i
        <4>1. z \in Nat /\ Len(m) \in Nat /\ Len(g) = z + Len(m)
          BY <1>0, <1>b, <2>1
        <4>2. QED  BY <2>5, <4>1, Between
      <3>2. z + i \in 1 .. Len(g) /\ z + i > z /\ (z + i) - z = i
        <4>1. i \in Nat /\ 1 <= i /\ i <= Len(m)
          BY <1>b, <2>5
        <4>2. z \in Nat /\ Len(m) \in Nat /\ Len(g) = z + Len(m)
          BY <1>0, <1>b, <2>1
        <4>3. QED  BY <4>1, <4>2, Between
      <3>3. g[z + i] = m[(z + i) - z]
        BY <1>10, <3>2 DEF Fits
      <3>4. QED  BY <2>4, <3>1, <3>2, <3>3
    <2> HIDE DEF b
    <2>7. b = m
      BY <1>7, <2>4, <2>5, <2>6, SeqEqual
    <2>8. /\ Len(v2) = r + 1 /\ v2[r + 1] = m /\ \A k \in 1 .. r : v2[k] = v[k]
          /\ v2 \in Seq(Seq(TokenSet))
      BY <1>7, <2>7
    <2> HIDE DEF v2
    <2>9. RcvdFine(lim, s, v2)
      <3>1. ASSUME NEW k \in 1 .. r + 1
            PROVE  v2[k] = s[k] /\ (lim > 0 => Len(v2[k]) <= lim)
        <4>1. CASE k = r + 1
          BY <1>12, <2>1, <2>8, <4>1 DEF m
        <4>2. CASE k \in 1 .. r
          BY <2>8, <4>2 DEF RcvdFine
        <4>3. QED  BY <1>2, <4>1, <4>2
      <3>2. QED  BY <1>2, <1>5, <2>8, <3>1 DEF RcvdFine
    <2>10. RdFine(z, lim, s, v2, <<>>)
      <3>1. Len(v2) < Len(s) => 0 < z + Len(s[Len(v2) + 1])
        <4>1. SUFFICES ASSUME r + 1 < Len(s) PROVE 0 < z + Len(s[r + 1 + 1])
          BY <2>8
        <4>2. r + 1 + 1 \in 1 .. Len(s)
          BY <1>2, <4>1
        <4>3. QED  BY <1>3, <1>11, <4>2, SMTT(30)
      <3>2. Len(<<>>) = 0 /\ ~(0 >= z)
        BY <1>11
      <3>3. QED  BY <3>1, <3>2 DEF RdFine
    <2>11. p[Len(v2)] = p[r] + Len(d) + 1
      <3>1. Len(d) + 1 = z + Len(m)
        BY <1>1, <2>1
      <3>2. p[r] + z + Len(m) = p[r] + Len(d) + 1
        <4>1. Len(d) \in Nat /\ z \in Nat /\ Len(m) \in Nat /\ p[r] \in Nat
          BY <1>0, <1>a, <1>b
        <4>2. PICK a \in Nat : a = p[r]
          BY <4>1
        <4>3. PICK y \in Nat : y = Len(d)
          BY <4>1
        <4>4. PICK k \in Nat : k = Len(m)
          BY <4>1
        <4>5. y + 1 = z + k
          BY <3>1, <4>3, <4>4
        <4>6. a + z + k = a + y + 1
          BY <4>1, <4>5, Shift
        <4>7. QED  BY <4>2, <4>3, <4>4, <4>6
      <3>3. QED  BY <1>8, <1>b, <2>8, <3>2
    <2>12. QED  BY <1>13, <2>8, <2>9, <2>10, <2>11 DEF v2, b
  <1>14. CASE ~(Len(g) >= z /\ Len(g) = z + g[z].n)
    <2>1. Len(g) < z + Len(m)
      <3>1. CASE Len(g) >= z
        <4>1. Len(g) # z + Len(m)
          BY <1>12, <1>14, <3>1
        <4>2. Len(g) <= z + Len(m)
          BY <1>0, <1>a, <1>6, <1>b
        <4>3. QED  BY <1>0, <1>a, <1>b, <4>1, <4>2
      <3>2. CASE ~(Len(g) >= z)
        BY <1>0, <1>a, <1>b, <3>2
      <3>3. QED  BY <3>1, <3>2
    <2>2. (Len(g) >= z /\ lim > 0) => g[z].n <= lim
      BY <1>12
    <2>3. RdFine(z, lim, s, v, g)
      BY <1>2, <1>4, <1>10, <2>1, <2>2 DEF RdFine, m
    <2>4. QED  BY <1>1, <1>14, <2>3
  <1>15. QED  BY <1>13, <1>14

-----------------------------------------------------------------------------
(* Lemmas about the ends, the setup and the frames.                        *)

LEMMA OtherFacts ==
  /\ \A e \in End : /\ Other(e) \in End /\ Other(e) # e /\ Other(e)[1] = e[1]
                    /\ Other(Other(e)) = e /\ e[1] \in Conn /\ e[2] \in {"dial", "accept"}
                    /\ \A g \in End : g[1] = e[1] => g = e \/ g = Other(e)
  /\ \A c \in Conn : /\ <<c, "dial">> \in End /\ <<c, "accept">> \in End
                     /\ Other(<<c, "dial">>) = <<c, "accept">>
                     /\ Other(<<c, "accept">>) = <<c, "dial">>
  <1>1. ASSUME NEW c \in Conn
        PROVE  /\ <<c, "dial">> \in End /\ <<c, "accept">> \in End
               /\ Other(<<c, "dial">>) = <<c, "accept">>
               /\ Other(<<c, "accept">>) = <<c, "dial">>
               /\ <<c, "dial">>[1] = c /\ <<c, "accept">>[1] = c
    BY DEF End, Other
  <1>2. ASSUME NEW e \in End
        PROVE  /\ Other(e) \in End /\ Other(e) # e /\ Other(e)[1] = e[1]
               /\ Other(Other(e)) = e /\ e[1] \in Conn /\ e[2] \in {"dial", "accept"}
               /\ \A g \in End : g[1] = e[1] => g = e \/ g = Other(e)
    <2>1. e[1] \in Conn /\ e[2] \in {"dial", "accept"} /\ e = <<e[1], e[2]>>
      BY DEF End
    <2>2. \/ e = <<e[1], "dial">> /\ Other(e) = <<e[1], "accept">>
          \/ e = <<e[1], "accept">> /\ Other(e) = <<e[1], "dial">>
      BY <2>1 DEF Other
    <2>3. Other(e) \in End /\ Other(e) # e /\ Other(e)[1] = e[1] /\ Other(Other(e)) = e
      BY <1>1, <2>1, <2>2
    <2>4. ASSUME NEW g \in End, g[1] = e[1] PROVE g = e \/ g = Other(e)
      <3>1. g = <<e[1], "dial">> \/ g = <<e[1], "accept">>
        BY <2>4 DEF End
      <3>2. QED  BY <2>2, <3>1
    <2>5. QED  BY <2>1, <2>3, <2>4
  <1>3. QED  BY <1>1, <1>2

LEMMA SetupFacts ==
  ASSUME TypeOK
  PROVE  /\ setup \in Setup /\ kind \in {"tcp", "tls", "ipc", "npipe"} /\ SizeAt \in {1, 2}
         /\ \A c \in Conn : who[c] \in Caller
         /\ \A e \in End : maxrx(e) \in Nat
  <1>1. setup \in Setup
    BY StreamAssumption DEF TypeOK
  <1>2. /\ setup.kind \in {"tcp", "tls", "ipc", "npipe"}
        /\ setup.maxrx \in [{"dial", "accept"} -> Nat] /\ setup.who \in [Conn -> Caller]
    BY <1>1 DEF Setup
  <1>3. SizeAt \in {1, 2}
    BY <1>2 DEF SizeAt, IpcSizeAt, WinSizeAt
  <1>4. QED  BY <1>1, <1>2, <1>3, OtherFacts DEF kind, who, maxrx

LEMMA BodyFacts ==
  ASSUME NEW m \in Nat, NEW n \in Nat
  PROVE  Body(m, n) \in Seq(TokenSet) /\ Len(Body(m, n)) = n
  <1>1. \A i \in 1 .. n : Token("byte", m, i) \in TokenSet
    BY DEF Token, TokenSet
  <1>2. Body(m, n) \in [1 .. n -> TokenSet]
    BY <1>1 DEF Body
  <1>3. QED  BY <1>2

(* What conn.Send and connipc.Send write for a message.                    *)
FrameOf(m, n) ==
  CASE kind = "ipc"   -> IpcFrame(m, n)
    [] kind = "npipe" -> WinFrame(m, n)
    [] OTHER          -> Frame(m, n)

LEMMA FrameFacts ==
  ASSUME TypeOK, NEW m \in Nat, NEW n \in Nat
  PROVE  /\ FrameOf(m, n) \in Seq(TokenSet) /\ Len(FrameOf(m, n)) = SizeAt + n
         /\ \A j \in 1 .. Len(FrameOf(m, n)) : Fits(SizeAt, Body(m, n), j, FrameOf(m, n)[j])
  <1> DEFINE b == Body(m, n)
             one == <<Token("one", m, 1)>>
             head == <<Token("size", m, n)>>
             fr == Frame(m, n)
             long == one \o fr
  <1>1. b \in Seq(TokenSet) /\ Len(b) = n
    BY BodyFacts
  <1>2. one \in Seq(TokenSet) /\ Len(one) = 1
    BY DEF Token, TokenSet
  <1>3. head \in Seq(TokenSet) /\ Len(head) = 1 /\ head[1].n = n
    BY DEF Token, TokenSet
  <1>4. fr = head \o b
    BY DEF Frame
  <1> HIDE DEF b, one, head, fr
  <1>5. /\ fr \in Seq(TokenSet) /\ Len(fr) = 1 + n /\ fr[1].n = n
        /\ \A j \in 2 .. 1 + n : fr[j] = b[j - 1]
    <2>1. /\ fr \in Seq(TokenSet) /\ Len(fr) = Len(head) + Len(b)
          /\ \A i \in 1 .. Len(head) + Len(b) :
               fr[i] = IF i <= Len(head) THEN head[i] ELSE b[i - Len(head)]
      BY <1>1, <1>3, <1>4, ConcatProperties
    <2>2. fr[1] = head[1]
      BY <1>1, <1>3, <2>1
    <2>3. ASSUME NEW j \in 2 .. 1 + n PROVE fr[j] = b[j - 1]
      BY <1>1, <1>3, <2>1
    <2>4. QED  BY <1>1, <1>3, <2>1, <2>2, <2>3
  <1>6. /\ long \in Seq(TokenSet) /\ Len(long) = 2 + n
        /\ \A j \in 2 .. 2 + n : long[j] = fr[j - 1]
    <2>1. /\ long \in Seq(TokenSet) /\ Len(long) = Len(one) + Len(fr)
          /\ \A i \in 1 .. Len(one) + Len(fr) :
               long[i] = IF i <= Len(one) THEN one[i] ELSE fr[i - Len(one)]
      BY <1>2, <1>5, ConcatProperties
    <2>2. ASSUME NEW j \in 2 .. 2 + n PROVE long[j] = fr[j - 1]
      BY <1>2, <1>5, <2>1
    <2>3. QED  BY <1>2, <1>5, <2>1, <2>2
  <1> HIDE DEF long
  <1>7. long[2].n = n /\ \A j \in 3 .. 2 + n : long[j] = b[j - 2]
    <2>1. long[2] = fr[2 - 1]
      BY <1>6
    <2>2. ASSUME NEW j \in 3 .. 2 + n PROVE long[j] = b[j - 2]
      <3>1. j \in 2 .. 2 + n /\ j - 1 \in 2 .. 1 + n /\ (j - 1) - 1 = j - 2
        OBVIOUS
      <3>2. long[j] = fr[j - 1] /\ fr[j - 1] = b[(j - 1) - 1]
        BY <1>5, <1>6, <3>1
      <3>3. QED  BY <3>1, <3>2
    <2>3. QED  BY <1>5, <2>1, <2>2
  <1>8. CASE kind \in {"ipc", "npipe"}
    <2>1. FrameOf(m, n) = long /\ SizeAt = 2
      BY <1>8 DEF FrameOf, IpcFrame, WinFrame, SizeAt, IpcSizeAt, WinSizeAt, long, one, fr
    <2>2. ASSUME NEW j \in 1 .. 2 + n PROVE Fits(2, b, j, long[j])
      <3>1. j = 2 => long[j].n = Len(b)
        BY <1>1, <1>7
      <3>2. j > 2 => long[j] = b[j - 2]
        BY <1>7
      <3>3. QED  BY <3>1, <3>2 DEF Fits
    <2>3. QED  BY <1>6, <2>1, <2>2 DEF b
  <1>9. CASE kind \notin {"ipc", "npipe"}
    <2>1. FrameOf(m, n) = fr /\ SizeAt = 1
      BY <1>9 DEF FrameOf, SizeAt, fr
    <2>2. ASSUME NEW j \in 1 .. 1 + n PROVE Fits(1, b, j, fr[j])
      <3>1. j = 1 => fr[j].n = Len(b)
        BY <1>1, <1>5
      <3>2. j > 1 => fr[j] = b[j - 1]
        BY <1>5
      <3>3. QED  BY <3>1, <3>2 DEF Fits
    <2>3. QED  BY <1>5, <2>1, <2>2 DEF b
  <1>10. QED  BY <1>8, <1>9

-----------------------------------------------------------------------------
(* Every step keeps the types.                                             *)

Tokens == Seq(TokenSet)

LEMMA InbTypes ==
  ASSUME TypeOK, NEW e \in End
  PROVE  /\ Drop(e) \in [End -> Tokens]
         /\ inb[e] # <<>> => Read(e) \in [End -> Tokens] /\ Head(inb[e]) \in TokenSet
         /\ \A t \in TokenSet : /\ Write(e, t) \in [End -> Tokens]
                                /\ [inb EXCEPT ![Other(e)] = Append(@, t)] \in [End -> Tokens]
                                /\ [inb EXCEPT ![e] = Append(@, t)] \in [End -> Tokens]
  <1>1. inb \in [End -> Tokens] /\ \A g \in End : inb[g] \in Seq(TokenSet)
    BY DEF TypeOK, Tokens
  <1>2. \A x \in Tokens : [inb EXCEPT ![e] = x] \in [End -> Tokens]
                          /\ [inb EXCEPT ![Other(e)] = x] \in [End -> Tokens]
    BY <1>1
  <1>3. <<>> \in Tokens
    BY DEF Tokens
  <1>4. Drop(e) \in [End -> Tokens]
    BY <1>2, <1>3 DEF Drop
  <1>5. ASSUME inb[e] # <<>>
        PROVE  Read(e) \in [End -> Tokens] /\ Head(inb[e]) \in TokenSet
    <2>1. Tail(inb[e]) \in Tokens /\ Head(inb[e]) \in TokenSet
      BY <1>1, <1>5 DEF Tokens
    <2>2. QED  BY <1>2, <2>1 DEF Read
  <1>6. ASSUME NEW t \in TokenSet
        PROVE  /\ Write(e, t) \in [End -> Tokens]
               /\ [inb EXCEPT ![Other(e)] = Append(@, t)] \in [End -> Tokens]
               /\ [inb EXCEPT ![e] = Append(@, t)] \in [End -> Tokens]
    <2>1. \A g \in End : Append(inb[g], t) \in Tokens
      BY <1>1 DEF Tokens
    <2>2. /\ [inb EXCEPT ![Other(e)] = Append(@, t)] \in [End -> Tokens]
          /\ [inb EXCEPT ![e] = Append(@, t)] \in [End -> Tokens]
      BY <1>1, <1>2, <2>1, OtherFacts
    <2>3. QED  BY <1>1, <2>2 DEF Write
  <1>7. QED  BY <1>4, <1>5, <1>6

LEMMA HeaderTypes ==
  ASSUME NEW e
  PROVE  Hello \in TokenSet /\ connHeader(e) \in TokenSet /\ Number(e) \in Nat
  BY DEF Hello, Token, TokenSet, connHeader, Number

LEMMA HandshakeType ==
  ASSUME TypeOK, NEW e \in End, NEW s \in States, Handshake(e, s), inb' \in [End -> Tokens]
  PROVE  TypeOK'
  <1>1. st' \in [End -> States] /\ acc' \in Conn \union {NoConn}
    BY DEF Handshake, TypeOK
  <1>2. UNCHANGED <<setup, lst, lcfg, backlog, broken, count, out, reading, rd, sent, rcvd>>
    BY DEF Handshake, lVars, ioVars
  <1>3. QED  BY <1>1, <1>2 DEF TypeOK, Tokens

LEMMA ShakeType ==
  ASSUME TypeOK, NEW e \in End, ShakeStep(e)
  PROVE  TypeOK'
  <1>1. CASE Reject(e) \/ (Handshake(e, "lost") /\ inb' = Drop(e))
    BY <1>1, HandshakeType, InbTypes DEF Reject, States
  <1>2. CASE /\ inb[e] # <<>> /\ inb' = Read(e)
             /\ Handshake(e, "write") \/ Handshake(e, "open")
    BY <1>2, HandshakeType, InbTypes DEF States
  <1>3. CASE HandshakeWrite(e)
    <2>1. inb' \in [End -> Tokens]
      BY <1>3, InbTypes, HeaderTypes DEF HandshakeWrite
    <2>2. QED  BY <1>3, <2>1, HandshakeType DEF HandshakeWrite, States
  <1>4. CASE TlsDone(e)
    BY <1>1, <1>2, <1>4 DEF TlsDone
  <1>5. CASE TlsErr(e)
    BY <1>1, <1>5 DEF TlsErr
  <1>6. CASE HandshakeWriteErr(e)
    BY <1>1, <1>6 DEF HandshakeWriteErr
  <1>7. CASE HandshakeRead(e)
    BY <1>1, <1>2, <1>7 DEF HandshakeRead
  <1>8. CASE HandshakeReadErr(e)
    BY <1>1, <1>8 DEF HandshakeReadErr
  <1>9. QED  BY <1>3, <1>4, <1>5, <1>6, <1>7, <1>8 DEF ShakeStep

LEMMA CloseTypes ==
  ASSUME TypeOK, NEW e \in End
  PROVE  Close(e) \in [End -> States]
  BY DEF TypeOK, Close, States

LEMMA SendType ==
  ASSUME TypeOK, NEW e \in End,
         SendExpired(e) \/ (\E n \in Sizes : SendStart(e, n)) \/ SendStep(e)
  PROVE  TypeOK'
  <1>1. CASE SendExpired(e)
    <2>1. count' \in [Conn -> Nat]
      BY <1>1, OtherFacts, SMTT(30) DEF SendExpired, TypeOK
    <2>2. UNCHANGED <<setup, lst, lcfg, backlog, acc, st, broken, inb, out, reading, rd, sent, rcvd>>
      BY <1>1 DEF SendExpired, lVars, ioVars
    <2>3. QED  BY <2>1, <2>2 DEF TypeOK
  <1>2. ASSUME NEW n \in Sizes, SendStart(e, n) PROVE TypeOK'
    <2> DEFINE m == count[e[1]] + 1
    <2>1. m \in Nat /\ n \in Nat /\ count' \in [Conn -> Nat]
      <3>1. count \in [Conn -> Nat] /\ e[1] \in Conn
        BY OtherFacts DEF TypeOK
      <3>2. m \in Nat /\ n \in Nat
        BY <3>1, StreamAssumption
      <3>3. count' = [count EXCEPT ![e[1]] = m]
        BY <1>2 DEF SendStart
      <3> HIDE DEF m
      <3>4. QED  BY <3>1, <3>2, <3>3
    <2>2. out' = [out EXCEPT ![e] = FrameOf(m, n)] /\ sent' = [sent EXCEPT ![e] = Append(@, Body(m, n))]
      BY <1>2 DEF SendStart, FrameOf
    <2>3. UNCHANGED <<setup, lst, lcfg, backlog, acc, st, broken, inb, reading, rd, rcvd>>
      BY <1>2 DEF SendStart, lVars
    <2> HIDE DEF m
    <2>4. out' \in [End -> Seq(TokenSet)]
      BY <2>1, <2>2, FrameFacts DEF TypeOK
    <2>5. sent' \in [End -> Seq(Seq(TokenSet))]
      <3>1. sent \in [End -> Seq(Seq(TokenSet))] /\ sent[e] \in Seq(Seq(TokenSet))
        BY DEF TypeOK
      <3>2. Append(sent[e], Body(m, n)) \in Seq(Seq(TokenSet))
        BY <2>1, <3>1, BodyFacts
      <3>3. QED  BY <2>2, <3>1, <3>2
    <2>6. QED  BY <2>1, <2>3, <2>4, <2>5 DEF TypeOK
  <1>3. CASE SendWrite(e)
    <2>1. out \in [End -> Seq(TokenSet)] /\ out[e] \in Seq(TokenSet) /\ out[e] # <<>>
      BY <1>3 DEF SendWrite, TypeOK
    <2>2. Head(out[e]) \in TokenSet /\ Tail(out[e]) \in Seq(TokenSet)
      BY <2>1
    <2>3. out' \in [End -> Seq(TokenSet)] /\ inb' \in [End -> Tokens]
      BY <1>3, <2>1, <2>2, InbTypes DEF SendWrite
    <2>4. UNCHANGED <<setup, lst, lcfg, backlog, acc, st, broken, count, reading, rd, sent, rcvd>>
      BY <1>3 DEF SendWrite, lVars
    <2>5. QED  BY <2>3, <2>4 DEF TypeOK, Tokens
  <1>4. CASE SendErr(e)
    <2>1. out' \in [End -> Seq(TokenSet)] /\ inb' \in [End -> Tokens] /\ st' \in [End -> States]
      <3>1. out' = [out EXCEPT ![e] = <<>>] /\ inb' = Drop(e) /\ st' = Close(e)
        BY <1>4 DEF SendErr
      <3>2. out' \in [End -> Seq(TokenSet)]
        BY <3>1 DEF TypeOK
      <3>3. inb' \in [End -> Tokens] /\ st' \in [End -> States]
        BY <3>1, InbTypes, CloseTypes
      <3>4. QED  BY <3>2, <3>3
    <2>2. UNCHANGED <<setup, lst, lcfg, backlog, acc, broken, count, reading, rd, sent, rcvd>>
      BY <1>4 DEF SendErr, lVars
    <2>3. QED  BY <2>1, <2>2 DEF TypeOK, Tokens
  <1>5. QED  BY <1>1, <1>2, <1>3, <1>4 DEF SendStep

LEMMA RecvType ==
  ASSUME TypeOK, NEW e \in End, RecvStart(e) \/ RecvStep(e) \/ EndClose(e)
  PROVE  TypeOK'
  <1>1. reading \in [End -> BOOLEAN] /\ rd \in [End -> Seq(TokenSet)] /\ rd[e] \in Seq(TokenSet)
    BY DEF TypeOK
  <1>2. /\ [reading EXCEPT ![e] = TRUE] \in [End -> BOOLEAN]
        /\ [reading EXCEPT ![e] = FALSE] \in [End -> BOOLEAN]
        /\ \A s \in Seq(TokenSet) : [rd EXCEPT ![e] = s] \in [End -> Seq(TokenSet)]
        /\ <<>> \in Seq(TokenSet)
    BY <1>1
  <1>3. CASE RecvStart(e)
    <2>1. UNCHANGED <<setup, lst, lcfg, backlog, acc, st, broken, inb, count, out, sent, rcvd>>
      BY <1>3 DEF RecvStart, lVars
    <2>2. reading' \in [End -> BOOLEAN] /\ rd' \in [End -> Seq(TokenSet)]
      BY <1>2, <1>3 DEF RecvStart
    <2>3. QED  BY <2>1, <2>2 DEF TypeOK
  <1>4. CASE RecvRead(e)
    <2>1. UNCHANGED <<setup, lst, lcfg, backlog, acc, st, broken, count, out, sent>>
      BY <1>4 DEF RecvRead, lVars
    <2>2. inb[e] # <<>> /\ inb' = Read(e)
      BY <1>4 DEF RecvRead, CanRead
    <2>3. inb' \in [End -> Tokens] /\ Head(inb[e]) \in TokenSet
      BY <2>2, InbTypes
    <2>4. Got(e) \in Seq(TokenSet)
      BY <1>1, <2>3 DEF Got
    <2>5. SubSeq(Got(e), SizeAt + 1, Len(Got(e))) \in Seq(TokenSet)
      <3>1. SizeAt + 1 \in Int /\ Len(Got(e)) \in Int /\ SizeAt + 1 > 0
        BY <2>4, SetupFacts
      <3>2. \A i \in SizeAt + 1 .. Len(Got(e)) : Got(e)[i] \in TokenSet
        BY <2>4, <3>1
      <3>3. QED  BY <3>1, <3>2, SubSeqProperties
    <2>6. reading' \in [End -> BOOLEAN] /\ rd' \in [End -> Seq(TokenSet)]
      BY <1>1, <1>2, <1>4, <2>4 DEF RecvRead
    <2>7. rcvd' \in [End -> Seq(Seq(TokenSet))]
      <3>1. rcvd \in [End -> Seq(Seq(TokenSet))] /\ rcvd[e] \in Seq(Seq(TokenSet))
        BY DEF TypeOK
      <3>2. Append(rcvd[e], SubSeq(Got(e), SizeAt + 1, Len(Got(e)))) \in Seq(Seq(TokenSet))
        BY <2>5, <3>1
      <3>3. \/ rcvd' = [rcvd EXCEPT ![e] = Append(@, SubSeq(Got(e), SizeAt + 1, Len(Got(e))))]
            \/ rcvd' = rcvd
        BY <1>4 DEF RecvRead
      <3>4. QED  BY <3>1, <3>2, <3>3
    <2>8. QED  BY <2>1, <2>3, <2>6, <2>7 DEF TypeOK, Tokens
  <1>5. CASE RecvTooLong(e) \/ RecvErr(e)
    <2>1. UNCHANGED <<setup, lst, lcfg, backlog, acc, broken, count, out, sent, rcvd>>
      BY <1>5 DEF RecvTooLong, RecvErr, RecvEnd, lVars
    <2>2. /\ reading' \in [End -> BOOLEAN] /\ rd' \in [End -> Seq(TokenSet)]
          /\ inb' \in [End -> Tokens] /\ st' \in [End -> States]
      <3>1. /\ reading' = [reading EXCEPT ![e] = FALSE] /\ rd' = [rd EXCEPT ![e] = <<>>]
            /\ inb' = Drop(e) /\ st' = Close(e)
        BY <1>5 DEF RecvTooLong, RecvErr, RecvEnd
      <3>2. reading' \in [End -> BOOLEAN] /\ rd' \in [End -> Seq(TokenSet)]
        BY <1>2, <3>1
      <3>3. inb' \in [End -> Tokens] /\ st' \in [End -> States]
        BY <3>1, InbTypes, CloseTypes
      <3>4. QED  BY <3>2, <3>3
    <2>3. QED  BY <2>1, <2>2 DEF TypeOK, Tokens
  <1>6. CASE EndClose(e)
    <2>1. UNCHANGED <<setup, lst, lcfg, backlog, acc, broken, count, out, reading, rd, sent, rcvd>>
      BY <1>6 DEF EndClose, lVars, ioVars
    <2>2. inb' \in [End -> Tokens] /\ st' \in [End -> States]
      BY <1>6, InbTypes, CloseTypes DEF EndClose
    <2>3. QED  BY <2>1, <2>2 DEF TypeOK, Tokens
  <1>7. QED  BY <1>3, <1>4, <1>5, <1>6 DEF RecvStep

LEMMA EnterType ==
  ASSUME TypeOK, NEW e \in End, NEW s \in {"tls", "write", "closed"}, Enter(e, s)
  PROVE  st' \in [End -> States] /\ inb' \in [End -> Tokens]
  <1>1. st' \in [End -> States]
    BY DEF Enter, TypeOK, States
  <1>2. inb \in [End -> Tokens]
    BY DEF TypeOK, Tokens
  <1>3. QED  BY <1>1, <1>2, InbTypes, HeaderTypes DEF Enter

(* A Dial and an Accept, whatever the transport.                           *)
DialForm(c) ==
  \/ DialErr(c)
  \/ \E s \in {"tls", "write", "closed"} :
       Connect(c, s) /\ (s = "tls" => kind = "tls") /\ (s = "write" => kind # "tls")
AcceptForm ==
  \E s \in {"tls", "write", "closed"} :
    Take(s) /\ (s = "tls" => kind = "tls") /\ (s = "write" => kind # "tls")

LEMMA Forms ==
  /\ \A c \in Conn : Dial(c) => DialForm(c)
  /\ Accept => AcceptForm
  BY DEF Dial, DialForm, TcpDial, TlsDial, IpcDial, WinDial, configTCP, configTLS,
         Accept, AcceptForm, TcpAccept, TlsAccept, IpcAccept, WinAccept

LEMMA DialType ==
  ASSUME TypeOK, NEW c \in Conn, DialForm(c)
  PROVE  TypeOK'
  <1>1. <<c, "dial">> \in End
    BY OtherFacts
  <1>2. CASE DialErr(c)
    <2>1. st' \in [End -> States]
      BY <1>1, <1>2 DEF DialErr, TypeOK, States
    <2>2. UNCHANGED <<setup, lst, lcfg, backlog, acc, broken, inb, count, out, reading, rd, sent, rcvd>>
      BY <1>2 DEF DialErr, lVars, ioVars
    <2>3. QED  BY <2>1, <2>2 DEF TypeOK
  <1>3. ASSUME NEW s \in {"tls", "write", "closed"}, Connect(c, s) PROVE TypeOK'
    <2>1. st' \in [End -> States] /\ inb' \in [End -> Tokens]
      BY <1>1, <1>3, EnterType DEF Connect
    <2>2. backlog' \in Seq(Conn)
      BY <1>3 DEF Connect, TypeOK
    <2>3. UNCHANGED <<setup, lst, lcfg, acc, broken, count, out, reading, rd, sent, rcvd>>
      BY <1>3 DEF Connect, ioVars
    <2>4. QED  BY <2>1, <2>2, <2>3 DEF TypeOK, Tokens
  <1>4. QED  BY <1>2, <1>3 DEF DialForm

LEMMA AcceptType ==
  ASSUME TypeOK, AcceptForm
  PROVE  TypeOK'
  <1>1. PICK s \in {"tls", "write", "closed"} : Take(s)
    BY DEF AcceptForm
  <1>2. backlog # <<>> /\ backlog \in Seq(Conn)
    BY <1>1 DEF Take, TypeOK
  <1>3. Head(backlog) \in Conn /\ Tail(backlog) \in Seq(Conn)
    BY <1>2
  <1>4. st' \in [End -> States] /\ inb' \in [End -> Tokens]
    BY <1>1, <1>3, EnterType, OtherFacts DEF Take
  <1>5. backlog' \in Seq(Conn) /\ acc' \in Conn \union {NoConn}
    BY <1>1, <1>3 DEF Take
  <1>6. UNCHANGED <<setup, lst, lcfg, broken, count, out, reading, rd, sent, rcvd>>
    BY <1>1 DEF Take, ioVars
  <1>7. QED  BY <1>4, <1>5, <1>6 DEF TypeOK, Tokens

(* The steps of the listener itself.                                       *)
ListenForm == SetTLSConfig \/ Listen \/ CloseListener

LEMMA ListenForms ==
  (\/ SetTLSConfig
   \/ TcpListen \/ TlsListen \/ IpcListen \/ WinListen
   \/ TcpClose \/ TlsClose \/ IpcClose \/ WinClose) => ListenForm
  BY DEF ListenForm, TcpListen, TlsListen, IpcListen, WinListen,
         TcpClose, TlsClose, IpcClose, WinClose

LEMMA ListenType ==
  ASSUME TypeOK, ListenForm
  PROVE  TypeOK'
  <1>1. CASE SetTLSConfig
    BY <1>1 DEF SetTLSConfig, TypeOK, ioVars
  <1>2. CASE Listen
    BY <1>2 DEF Listen, TypeOK, ioVars
  <1>3. CASE CloseListener
    <2>1. UNCHANGED <<setup, lcfg, acc, st, inb, count, out, reading, rd, sent, rcvd>>
      BY <1>3 DEF CloseListener, ioVars
    <2>2. lst' \in {"new", "open", "closed"} /\ backlog' \in Seq(Conn)
      BY <1>3 DEF CloseListener
    <2>3. broken' \subseteq Conn
      <3>1. backlog \in Seq(Conn) /\ broken \subseteq Conn
        BY DEF TypeOK
      <3>2. ToSet(backlog) \subseteq Conn
        BY <3>1 DEF ToSet
      <3>3. QED  BY <1>3, <3>1, <3>2 DEF CloseListener
    <2>4. QED  BY <2>1, <2>2, <2>3 DEF TypeOK
  <1>4. QED  BY <1>1, <1>2, <1>3 DEF ListenForm

LEMMA NetworkType ==
  ASSUME TypeOK, NEW c \in Conn, Break(c) \/ StrangerCalls(c) \/ StrangerTalks(c) \/ StrangerLeaves(c)
  PROVE  TypeOK'
  <1>1. <<c, "dial">> \in End /\ <<c, "accept">> \in End
    BY OtherFacts
  <1>2. CASE Break(c)
    BY <1>2 DEF Break, TypeOK, lVars, ioVars
  <1>3. CASE StrangerCalls(c)
    <2>1. st' \in [End -> States] /\ backlog' \in Seq(Conn)
      BY <1>1, <1>3 DEF StrangerCalls, TypeOK, States
    <2>2. UNCHANGED <<setup, lst, lcfg, acc, broken, inb, count, out, reading, rd, sent, rcvd>>
      BY <1>3 DEF StrangerCalls, ioVars
    <2>3. QED  BY <2>1, <2>2 DEF TypeOK
  <1>4. CASE StrangerTalks(c)
    <2>1. count' \in [Conn -> Nat]
      BY <1>4 DEF StrangerTalks, TypeOK
    <2>2. \A t \in {Hello, Token("sp", 0, 2), Token("sp", 1, 2)} : t \in TokenSet
      BY DEF Hello, Token, TokenSet
    <2>3. PICK t \in TokenSet : inb' = [inb EXCEPT ![<<c, "accept">>] = Append(@, t)]
      BY <1>4, <2>2 DEF StrangerTalks
    <2>4. inb' \in [End -> Tokens]
      BY <1>1, <2>3, InbTypes
    <2>5. UNCHANGED <<setup, lst, lcfg, backlog, acc, st, broken, out, reading, rd, sent, rcvd>>
      BY <1>4 DEF StrangerTalks, lVars, ioVars
    <2>6. QED  BY <2>1, <2>4, <2>5 DEF TypeOK, Tokens
  <1>5. CASE StrangerLeaves(c)
    <2>1. st' \in [End -> States]
      BY <1>1, <1>5 DEF StrangerLeaves, TypeOK, States
    <2>2. UNCHANGED <<setup, lst, lcfg, backlog, acc, broken, inb, count, out, reading, rd, sent, rcvd>>
      BY <1>5 DEF StrangerLeaves, lVars, ioVars
    <2>3. QED  BY <2>1, <2>2 DEF TypeOK
  <1>6. QED  BY <1>2, <1>3, <1>4, <1>5

LEMMA StreamStepType == TypeOK /\ [Next]_vars => TypeOK'
  <1> SUFFICES ASSUME TypeOK, [Next]_vars PROVE TypeOK'
    OBVIOUS
  <1>1. CASE \E c \in Conn : Dial(c)
    BY <1>1, Forms, DialType
  <1>2. CASE Accept
    BY <1>2, Forms, AcceptType
  <1>3. CASE ListenForm
    BY <1>3, ListenType
  <1>4. CASE \E c \in Conn : Break(c) \/ StrangerCalls(c) \/ StrangerTalks(c) \/ StrangerLeaves(c)
    BY <1>4, NetworkType
  <1>5. ASSUME NEW e \in End, ShakeStep(e) PROVE TypeOK'
    BY <1>5, ShakeType
  <1>6. ASSUME NEW e \in End, SendExpired(e) \/ (\E n \in Sizes : SendStart(e, n)) \/ SendStep(e)
        PROVE  TypeOK'
    BY <1>6, SendType
  <1>7. ASSUME NEW e \in End, RecvStart(e) \/ RecvStep(e) \/ EndClose(e) PROVE TypeOK'
    BY <1>7, RecvType
  <1>8. CASE UNCHANGED vars
    BY <1>8 DEF vars, lVars, ioVars, TypeOK
  <1>9. QED  BY <1>1, <1>2, <1>3, <1>4, <1>5, <1>6, <1>7, <1>8, ListenForms DEF Next

LEMMA StreamInitType == Init => TypeOK
  <1> SUFFICES ASSUME Init PROVE TypeOK
    OBVIOUS
  <1>1. <<>> \in Seq(TokenSet) /\ <<>> \in Seq(Seq(TokenSet)) /\ <<>> \in Seq(Conn)
    OBVIOUS
  <1>2. /\ st \in [End -> States] /\ count \in [Conn -> Nat] /\ reading \in [End -> BOOLEAN]
        /\ inb \in [End -> Seq(TokenSet)] /\ out \in [End -> Seq(TokenSet)]
        /\ rd \in [End -> Seq(TokenSet)]
    BY <1>1 DEF Init, States
  <1>3. sent \in [End -> Seq(Seq(TokenSet))] /\ rcvd \in [End -> Seq(Seq(TokenSet))]
    BY <1>1 DEF Init
  <1>4. QED  BY <1>1, <1>2, <1>3 DEF Init, TypeOK

-----------------------------------------------------------------------------
(* What a step does to one direction: f writes and e reads.                *)

LEMMA SetupStays ==
  ASSUME UNCHANGED setup
  PROVE  /\ SizeAt' = SizeAt /\ kind' = kind /\ who' = who
         /\ \A e : /\ connHeader(e)' = connHeader(e) /\ maxrx(e)' = maxrx(e)
                   /\ Named(e)' = Named(e) /\ Number(e)' = Number(e)
                   /\ PeerNumber(e)' = PeerNumber(e)
  <1>1. kind' = kind /\ who' = who
    BY DEF kind, who
  <1>2. SizeAt' = SizeAt
    BY <1>1 DEF SizeAt, IpcSizeAt, WinSizeAt
  <1>3. \A e : Number(e)' = Number(e) /\ PeerNumber(e)' = PeerNumber(e)
    BY <1>1 DEF Number, PeerNumber
  <1>4. \A e : connHeader(e)' = connHeader(e)
    BY <1>3 DEF connHeader
  <1>5. \A e : maxrx(e)' = maxrx(e) /\ Named(e)' = Named(e)
    BY <1>1 DEF maxrx, Named
  <1>6. QED  BY <1>1, <1>2, <1>3, <1>4, <1>5

LEMMA StateTypes ==
  ASSUME TypeOK, NEW e \in End
  PROVE  /\ inb[e] \in Seq(TokenSet) /\ out[e] \in Seq(TokenSet) /\ rd[e] \in Seq(TokenSet)
         /\ sent[e] \in Seq(Seq(TokenSet)) /\ rcvd[e] \in Seq(Seq(TokenSet))
         /\ Len(inb[e]) \in Nat /\ Len(out[e]) \in Nat /\ Len(rd[e]) \in Nat
         /\ Len(sent[e]) \in Nat /\ Len(rcvd[e]) \in Nat
         /\ st[e] \in States /\ reading[e] \in BOOLEAN
  BY DEF TypeOK

(* What nothing is changed of.                                             *)
KeepsRead(e) == UNCHANGED <<rcvd[e], rd[e]>>
KeepsWrite(f) == UNCHANGED <<sent[f], out[f]>>

LEMMA Places ==
  ASSUME TypeOK, NEW e \in End, NEW f \in End, NEW p, Along(e, f, p)
  PROVE  /\ ReadAt(e, p) \in Int /\ WriteAt(f, p) \in Int /\ p[Len(sent[f])] \in Nat
         /\ Len(rcvd[e]) \in 0 .. Len(sent[f]) /\ p[0] = 0
         /\ SizeAt \in {1, 2} /\ sent[f] \in Seq(Seq(TokenSet)) /\ Split(SizeAt, sent[f], p)
  <1>1. SizeAt \in {1, 2} /\ sent[f] \in Seq(Seq(TokenSet)) /\ Split(SizeAt, sent[f], p)
    BY SetupFacts, StateTypes DEF Along
  <1>2. /\ p[Len(sent[f])] \in Nat /\ p[0] = 0
        /\ \A k \in 0 .. Len(sent[f]) : p[k] \in Nat
    BY <1>1, SplitFacts
  <1>3. Len(rcvd[e]) \in 0 .. Len(sent[f])
    BY StateTypes DEF Along, RcvdFine
  <1>4. p[Len(rcvd[e])] \in Nat /\ Len(rd[e]) \in Nat /\ Len(out[f]) \in Nat
    BY <1>2, <1>3, StateTypes
  <1>5. ReadAt(e, p) \in Int
    BY <1>4 DEF ReadAt
  <1>6. WriteAt(f, p) \in Int
    BY <1>2, <1>4 DEF WriteAt
  <1>7. QED  BY <1>1, <1>2, <1>3, <1>5, <1>6

LEMMA ReadAtKept ==
  ASSUME NEW e, NEW p, UNCHANGED setup, UNCHANGED <<st[e], rcvd[e], rd[e]>>
  PROVE  ReadAt(e, p)' = ReadAt(e, p)
  BY SetupStays DEF ReadAt

LEMMA WriteAtKept ==
  ASSUME NEW f, NEW p, UNCHANGED setup, UNCHANGED <<st[f], sent[f], out[f]>>
  PROVE  WriteAt(f, p)' = WriteAt(f, p)
  BY SetupStays DEF WriteAt

LEMMA Rebuild ==
  ASSUME NEW e, NEW f, NEW p, UNCHANGED setup,
         Split(SizeAt, sent'[f], p), RcvdFine(maxrx(e), sent'[f], rcvd'[e]),
         RdFine(SizeAt, maxrx(e), sent'[f], rcvd'[e], rd'[e]),
         OutFine(SizeAt, connHeader(f), sent'[f], p, out'[f]),
         st'[e] \notin Gone =>
           InFine(SizeAt, connHeader(f), sent'[f], p, ReadAt(e, p)', inb'[e]),
         Lasts(e, f)' => ReadAt(e, p)' + Len(inb'[e]) = WriteAt(f, p)'
  PROVE  Along(e, f, p)'
  BY SetupStays DEF Along

LEMMA Still ==
  ASSUME NEW e, NEW f, NEW p, Along(e, f, p), UNCHANGED setup, broken \subseteq broken',
         UNCHANGED <<st[e], st[f], inb[e]>>, KeepsRead(e), KeepsWrite(f)
  PROVE  Along(e, f, p)'
  <1>1. ReadAt(e, p)' = ReadAt(e, p)
    BY ReadAtKept DEF KeepsRead
  <1>2. WriteAt(f, p)' = WriteAt(f, p)
    BY WriteAtKept DEF KeepsWrite
  <1>3. Lasts(e, f)' => Lasts(e, f)
    BY DEF Lasts
  <1>4. QED  BY <1>1, <1>2, <1>3, Rebuild DEF Along, KeepsRead, KeepsWrite

LEMMA NoneRead ==
  ASSUME NEW z \in {1, 2}, NEW lim \in Nat, NEW s \in Seq(Seq(TokenSet)),
         NEW v \in Seq(Seq(TokenSet)), RcvdFine(lim, s, v)
  PROVE  RdFine(z, lim, s, v, <<>>)
  <1>1. Len(<<>>) = 0 /\ Len(v) \in Nat /\ Len(s) \in Nat /\ ~(0 >= z)
    OBVIOUS
  <1>2. Len(v) < Len(s) => 0 < z + Len(s[Len(v) + 1])
    <2>1. SUFFICES ASSUME Len(v) < Len(s) PROVE 0 < z + Len(s[Len(v) + 1])
      OBVIOUS
    <2>2. Len(v) + 1 \in 1 .. Len(s)
      BY <1>1, <2>1
    <2>3. s[Len(v) + 1] \in Seq(TokenSet)
      BY <2>2
    <2>4. Len(s[Len(v) + 1]) \in Nat
      BY <2>3
    <2>5. QED  BY <2>4
  <1>3. QED  BY <1>1, <1>2 DEF RdFine

(* The reader is closed or given up.                                       *)
LEMMA ReaderGone ==
  ASSUME TypeOK, NEW e \in End, NEW f \in End, NEW p, Along(e, f, p), UNCHANGED setup,
         st'[e] \in Gone, UNCHANGED rcvd[e], rd'[e] = rd[e] \/ rd'[e] = <<>>, KeepsWrite(f)
  PROVE  Along(e, f, p)'
  <1>1. ~Lasts(e, f)'
    BY DEF Lasts
  <1>2. RdFine(SizeAt, maxrx(e), sent[f], rcvd[e], rd'[e])
    BY NoneRead, SetupFacts, StateTypes DEF Along
  <1>3. QED  BY <1>1, <1>2, Rebuild DEF Along, KeepsWrite

(* The writer is.                                                          *)
LEMMA WriterGone ==
  ASSUME TypeOK, NEW e \in End, NEW f \in End, NEW p, Along(e, f, p), UNCHANGED setup,
         st'[f] \in Gone, UNCHANGED <<st[e], inb[e]>>, KeepsRead(e),
         UNCHANGED sent[f], out'[f] = out[f] \/ out'[f] = <<>>
  PROVE  Along(e, f, p)'
  <1>1. ~Lasts(e, f)'
    BY DEF Lasts
  <1>2. OutFine(SizeAt, connHeader(f), sent[f], p, out'[f])
    <2>1. p[Len(sent[f])] \in Nat /\ Len(<<>>) = 0
      BY Places
    <2>2. OutFine(SizeAt, connHeader(f), sent[f], p, <<>>)
      BY <2>1 DEF OutFine
    <2>3. QED  BY <2>2 DEF Along
  <1>3. ReadAt(e, p)' = ReadAt(e, p)
    BY ReadAtKept DEF KeepsRead
  <1>4. QED  BY <1>1, <1>2, <1>3, Rebuild DEF Along, KeepsRead

(* The reader goes on from one state to another, and reads at the place    *)
(* where it did.                                                           *)
LEMMA ReaderOn ==
  ASSUME NEW e, NEW f, NEW p, Along(e, f, p), UNCHANGED setup, broken \subseteq broken',
         st[e] \notin Gone, ReadAt(e, p)' = ReadAt(e, p),
         UNCHANGED <<st[f], inb[e]>>, KeepsRead(e), KeepsWrite(f)
  PROVE  Along(e, f, p)'
  <1>1. WriteAt(f, p)' = WriteAt(f, p)
    BY WriteAtKept DEF KeepsWrite
  <1>2. Lasts(e, f)' => Lasts(e, f)
    BY DEF Lasts
  <1>3. QED  BY <1>1, <1>2, Rebuild DEF Along, KeepsRead, KeepsWrite

LEMMA WriterOn ==
  ASSUME NEW e, NEW f, NEW p, Along(e, f, p), UNCHANGED setup, broken \subseteq broken',
         st[f] \notin Gone, st'[f] # "none", WriteAt(f, p)' = WriteAt(f, p),
         UNCHANGED <<st[e], inb[e]>>, KeepsRead(e), KeepsWrite(f)
  PROVE  Along(e, f, p)'
  <1>1. ReadAt(e, p)' = ReadAt(e, p)
    BY ReadAtKept DEF KeepsRead
  <1>2. Lasts(e, f)' => Lasts(e, f)
    BY DEF Lasts
  <1>3. QED  BY <1>1, <1>2, Rebuild DEF Along, KeepsRead, KeepsWrite

(* The reader reads one token.                                             *)
LEMMA ReadOne ==
  ASSUME TypeOK, NEW e \in End, NEW f \in End, NEW p, Along(e, f, p), UNCHANGED setup,
         broken \subseteq broken', st[e] \notin Gone, inb[e] # <<>>, inb'[e] = Tail(inb[e]),
         ReadAt(e, p)' = ReadAt(e, p) + 1, UNCHANGED st[f],
         RcvdFine(maxrx(e), sent[f], rcvd'[e]),
         RdFine(SizeAt, maxrx(e), sent[f], rcvd'[e], rd'[e]), KeepsWrite(f)
  PROVE  Along(e, f, p)'
  <1>1. WriteAt(f, p)' = WriteAt(f, p)
    BY WriteAtKept DEF KeepsWrite
  <1>2. Lasts(e, f)' => Lasts(e, f)
    BY DEF Lasts
  <1>3. /\ ReadAt(e, p) \in Int /\ WriteAt(f, p) \in Int /\ inb[e] \in Seq(TokenSet)
        /\ SizeAt \in {1, 2} /\ sent[f] \in Seq(Seq(TokenSet)) /\ Split(SizeAt, sent[f], p)
        /\ InFine(SizeAt, connHeader(f), sent[f], p, ReadAt(e, p), inb[e])
    BY Places, StateTypes DEF Along
  <1>4. /\ InFine(SizeAt, connHeader(f), sent[f], p, ReadAt(e, p) + 1, Tail(inb[e]))
        /\ Len(Tail(inb[e])) = Len(inb[e]) - 1 /\ Len(inb[e]) \in Nat
    BY <1>3, InTail
  <1>5. Lasts(e, f)' => ReadAt(e, p)' + Len(inb'[e]) = WriteAt(f, p)'
    <2>1. SUFFICES ASSUME Lasts(e, f)' PROVE ReadAt(e, p)' + Len(inb'[e]) = WriteAt(f, p)'
      OBVIOUS
    <2>2. ReadAt(e, p) + Len(inb[e]) = WriteAt(f, p)
      BY <1>2, <2>1 DEF Along
    <2>3. ReadAt(e, p) + 1 + (Len(inb[e]) - 1) = WriteAt(f, p)
      BY <1>3, <1>4, <2>2
    <2>4. QED  BY <1>1, <1>4, <2>3
  <1>6. InFine(SizeAt, connHeader(f), sent'[f], p, ReadAt(e, p)', inb'[e])
    BY <1>4 DEF KeepsWrite
  <1>7. QED  BY <1>5, <1>6, Rebuild DEF Along, KeepsWrite

(* The writer writes one token, unless the connection is cut.              *)
LEMMA WriteOne ==
  ASSUME TypeOK, NEW e \in End, NEW f \in End, NEW p, Along(e, f, p), UNCHANGED <<setup, broken>>,
         st[f] \notin Gone, st'[f] # "none", NEW t \in TokenSet,
         FitsAt(SizeAt, connHeader(f), sent[f], p, WriteAt(f, p), t),
         WriteAt(f, p) <= p[Len(sent[f])], WriteAt(f, p)' = WriteAt(f, p) + 1,
         \/ inb'[e] = Append(inb[e], t) /\ (e[1] \notin broken \/ st[f] = "none")
         \/ inb'[e] = Append(inb[e], t) /\ st[e] \in Gone
         \/ inb'[e] = inb[e] /\ (e[1] \in broken \/ st[e] = "closed"),
         UNCHANGED st[e], KeepsRead(e), UNCHANGED sent[f],
         OutFine(SizeAt, connHeader(f), sent[f], p, out'[f])
  PROVE  Along(e, f, p)'
  <1>1. ReadAt(e, p)' = ReadAt(e, p)
    BY ReadAtKept DEF KeepsRead
  <1>2. /\ ReadAt(e, p) \in Int /\ WriteAt(f, p) \in Int /\ inb[e] \in Seq(TokenSet)
        /\ SizeAt \in {1, 2} /\ sent[f] \in Seq(Seq(TokenSet)) /\ Split(SizeAt, sent[f], p)
        /\ Len(inb[e]) \in Nat
    BY Places, StateTypes
  <1>3. CASE st[e] \in Gone
    <2>1. ~Lasts(e, f)'
      BY <1>3 DEF Lasts
    <2>2. QED  BY <1>3, <2>1, Rebuild DEF Along, KeepsRead
  <1>4. CASE st[e] \notin Gone /\ inb'[e] = inb[e]
    <2>1. e[1] \in broken
      BY <1>4 DEF Gone
    <2>2. ~Lasts(e, f)'
      BY <2>1 DEF Lasts
    <2>3. QED  BY <1>1, <1>4, <2>2, Rebuild DEF Along, KeepsRead
  <1>5. CASE /\ st[e] \notin Gone /\ inb'[e] = Append(inb[e], t)
             /\ e[1] \notin broken \/ st[f] = "none"
    <2>1. ReadAt(e, p) + Len(inb[e]) = WriteAt(f, p)
      BY <1>5 DEF Lasts, Along
    <2>2. InFine(SizeAt, connHeader(f), sent[f], p, ReadAt(e, p), inb[e])
      BY <1>5 DEF Along
    <2>3. /\ InFine(SizeAt, connHeader(f), sent[f], p, ReadAt(e, p), Append(inb[e], t))
          /\ Len(Append(inb[e], t)) = Len(inb[e]) + 1
      BY <1>2, <2>1, <2>2, InAppend
    <2>4. ReadAt(e, p)' + Len(inb'[e]) = WriteAt(f, p)'
      BY <1>1, <1>2, <1>5, <2>1, <2>3
    <2>5. QED  BY <1>1, <1>5, <2>3, <2>4, Rebuild DEF Along, KeepsRead
  <1>6. QED  BY <1>3, <1>4, <1>5 DEF Gone

-----------------------------------------------------------------------------
(* The steps of an end e.                                                  *)

LocalStep(e) ==
  \/ ShakeStep(e) \/ EndClose(e)
  \/ SendExpired(e) \/ (\E n \in Sizes : SendStart(e, n))
  \/ SendStep(e) \/ RecvStart(e) \/ RecvStep(e)

LEMMA ShakeCases ==
  ASSUME NEW e, ShakeStep(e)
  PROVE  \/ /\ st[e] = "tls" /\ inb[e] # <<>> /\ Head(inb[e]) = Hello
            /\ Handshake(e, "write") /\ inb' = Read(e)
         \/ st[e] = "write" /\ Handshake(e, "read") /\ inb' = Write(e, connHeader(e))
         \/ /\ st[e] = "read" /\ inb[e] # <<>> /\ GoodHeader(e, Head(inb[e]))
            /\ Handshake(e, "open") /\ inb' = Read(e)
         \/ st[e] \in Busy /\ Handshake(e, "closed") /\ inb' = Drop(e)
         \/ st[e] = "write" /\ Cut(e) /\ Handshake(e, "lost") /\ inb' = Drop(e)
  BY DEF ShakeStep, TlsDone, TlsErr, HandshakeWrite, HandshakeWriteErr, HandshakeRead,
         HandshakeReadErr, Reject, Busy

LEMMA HandshakeFacts ==
  ASSUME TypeOK, NEW e \in End, NEW s, Handshake(e, s)
  PROVE  /\ st'[e] = s /\ \A g \in End : g # e => st'[g] = st[g]
         /\ UNCHANGED <<setup, lst, lcfg, backlog, broken, count, out, reading, rd, sent, rcvd>>
  BY DEF TypeOK, Handshake, lVars, ioVars

LEMMA InbFacts ==
  ASSUME TypeOK, NEW e \in End
  PROVE  /\ Drop(e)[e] = <<>> /\ Read(e)[e] = Tail(inb[e])
         /\ \A g \in End : g # e => Drop(e)[g] = inb[g] /\ Read(e)[g] = inb[g]
         /\ \A t : \A g \in End : g # Other(e) => Write(e, t)[g] = inb[g]
         /\ \A t : Write(e, t)[Other(e)] = IF Cut(e) THEN inb[Other(e)] ELSE Append(inb[Other(e)], t)
  <1>1. inb \in [End -> Seq(TokenSet)] /\ Other(e) \in End /\ Other(e) # e
    BY OtherFacts DEF TypeOK
  <1>2. \A t : /\ [inb EXCEPT ![Other(e)] = Append(@, t)][Other(e)] = Append(inb[Other(e)], t)
               /\ \A g \in End : g # Other(e) =>
                    [inb EXCEPT ![Other(e)] = Append(@, t)][g] = inb[g]
    BY <1>1
  <1>3. QED  BY <1>1, <1>2 DEF Drop, Read, Write

LEMMA CloseFacts ==
  ASSUME TypeOK, NEW e \in End
  PROVE  /\ Close(e)[e] = IF st[e] = "open" THEN "closed" ELSE st[e]
         /\ \A g \in End : g # e => Close(e)[g] = st[g]
  BY DEF TypeOK, Close

(* What a step of e leaves alone.                                          *)
Alike(g) == UNCHANGED <<st[g], out[g], sent[g], rcvd[g], reading[g], rd[g]>>

LocalFrame(e) ==
  /\ UNCHANGED <<setup, backlog, broken>>
  /\ \A g \in End : g # e => Alike(g)
  /\ \A g \in End : g # e /\ g # Other(e) => UNCHANGED inb[g]
  /\ (st[e] = "none") = (st'[e] = "none")
  /\ st[e] = "closed" => st'[e] = "closed"

(* The end e is closed, or given up.                                       *)
Quits(e) ==
  /\ st'[e] \in Gone /\ UNCHANGED <<rcvd[e], sent[e], inb[Other(e)]>>
  /\ rd'[e] = rd[e] \/ rd'[e] = <<>>
  /\ out'[e] = out[e] \/ out'[e] = <<>>

LEMMA ShakeFrame ==
  ASSUME TypeOK, NEW e \in End, ShakeStep(e)
  PROVE  LocalFrame(e)
  <1>1. PICK s \in States \ {"none"} : Handshake(e, s)
    BY ShakeCases DEF States
  <1>2. st[e] \in Busy /\ (inb' = Read(e) \/ inb' = Drop(e) \/ inb' = Write(e, connHeader(e)))
    BY ShakeCases DEF Busy
  <1>3. \A g \in End : g # e /\ g # Other(e) => UNCHANGED inb[g]
    BY <1>2, InbFacts
  <1>4. \A g \in End : g # e => Alike(g)
    BY <1>1, HandshakeFacts DEF Alike
  <1>5. UNCHANGED <<setup, backlog, broken>>
    BY <1>1, HandshakeFacts
  <1>6. st[e] # "none" /\ st[e] # "closed" /\ st'[e] # "none"
    BY <1>1, <1>2, HandshakeFacts DEF Busy
  <1>7. QED  BY <1>3, <1>4, <1>5, <1>6 DEF LocalFrame

LEMMA ShakeQuits ==
  ASSUME TypeOK, NEW e \in End, NEW s \in Gone, Handshake(e, s), inb' = Drop(e)
  PROVE  Quits(e)
  <1>1. st'[e] \in Gone /\ UNCHANGED <<rcvd, sent, rd, out>>
    BY HandshakeFacts
  <1>2. UNCHANGED inb[Other(e)]
    BY InbFacts, OtherFacts
  <1>3. QED  BY <1>1, <1>2 DEF Quits

LEMMA CloseFrame ==
  ASSUME TypeOK, PhaseInv, NEW e \in End,
         EndClose(e) \/ SendErr(e) \/ RecvTooLong(e) \/ RecvErr(e)
  PROVE  /\ LocalFrame(e) /\ Quits(e) /\ st'[e] = "closed" /\ st[e] \in {"open", "closed"}
         /\ \/ reading'[e] = reading[e] /\ rd'[e] = rd[e]
            \/ reading'[e] = FALSE /\ rd'[e] = <<>>
  <1>1. st' = Close(e) /\ inb' = Drop(e) /\ UNCHANGED <<setup, backlog, broken, sent, rcvd>>
    BY DEF EndClose, SendErr, RecvTooLong, RecvErr, RecvEnd, lVars, ioVars
  <1>2. st[e] \in {"open", "closed"}
    <2>1. CASE EndClose(e) \/ RecvTooLong(e)
      BY <2>1 DEF EndClose, RecvTooLong, CanRead
    <2>2. CASE SendErr(e)
      BY <2>2 DEF SendErr, PhaseInv, Blank
    <2>3. CASE RecvErr(e)
      BY <2>3 DEF RecvErr, PhaseInv, Blank
    <2>4. QED  BY <2>1, <2>2, <2>3
  <1>3. st'[e] = "closed" /\ \A g \in End : g # e => st'[g] = st[g]
    BY <1>1, <1>2, CloseFacts
  <1>4. \A g \in End : g # e => inb'[g] = inb[g]
    BY <1>1, InbFacts
  <1>5. /\ out' = out \/ out' = [out EXCEPT ![e] = <<>>]
        /\ \/ reading' = reading /\ rd' = rd
           \/ reading' = [reading EXCEPT ![e] = FALSE] /\ rd' = [rd EXCEPT ![e] = <<>>]
    BY DEF EndClose, SendErr, RecvTooLong, RecvErr, RecvEnd, ioVars
  <1>6. /\ \A g \in End : g # e => UNCHANGED <<out[g], reading[g], rd[g]>>
        /\ out'[e] = out[e] \/ out'[e] = <<>>
        /\ \/ reading'[e] = reading[e] /\ rd'[e] = rd[e]
           \/ reading'[e] = FALSE /\ rd'[e] = <<>>
    BY <1>5 DEF TypeOK
  <1>7. LocalFrame(e)
    BY <1>1, <1>2, <1>3, <1>4, <1>6 DEF LocalFrame, Alike
  <1>8. Quits(e)
    BY <1>1, <1>3, <1>4, <1>6, OtherFacts DEF Quits, Gone
  <1>9. QED  BY <1>2, <1>3, <1>6, <1>7, <1>8

LEMMA SendFrame ==
  ASSUME TypeOK, NEW e \in End,
         SendExpired(e) \/ (\E n \in Sizes : SendStart(e, n)) \/ SendWrite(e)
  PROVE  /\ LocalFrame(e) /\ st[e] = "open" /\ st' = st /\ UNCHANGED <<reading, rd, rcvd>>
         /\ UNCHANGED inb[e]
  <1>1. CASE SendExpired(e)
    BY <1>1 DEF SendExpired, lVars, ioVars, LocalFrame, Alike
  <1>2. ASSUME NEW n \in Sizes, SendStart(e, n)
        PROVE  /\ LocalFrame(e) /\ st[e] = "open" /\ st' = st /\ UNCHANGED <<reading, rd, rcvd>>
               /\ UNCHANGED inb[e]
    <2>1. /\ st[e] = "open" /\ UNCHANGED <<setup, backlog, broken, st, inb, reading, rd, rcvd>>
          /\ sent' = [sent EXCEPT ![e] = Append(@, Body(count[e[1]] + 1, n))]
          /\ out' = [out EXCEPT ![e] = FrameOf(count[e[1]] + 1, n)]
      BY <1>2 DEF SendStart, lVars, FrameOf
    <2>2. \A g \in End : g # e => UNCHANGED <<sent[g], out[g]>>
      BY <2>1 DEF TypeOK
    <2>3. QED  BY <2>1, <2>2 DEF LocalFrame, Alike
  <1>3. CASE SendWrite(e)
    <2>1. /\ st[e] = "open" /\ UNCHANGED <<setup, backlog, broken, st, reading, rd, sent, rcvd>>
          /\ inb' = Write(e, Head(out[e])) /\ out' = [out EXCEPT ![e] = Tail(@)]
      BY <1>3 DEF SendWrite, lVars
    <2>2. \A g \in End : g # e => UNCHANGED out[g]
      BY <2>1 DEF TypeOK
    <2>3. \A g \in End : g # Other(e) => UNCHANGED inb[g]
      BY <2>1, InbFacts
    <2>4. UNCHANGED inb[e]
      BY <2>3, OtherFacts
    <2>5. QED  BY <2>1, <2>2, <2>3, <2>4 DEF LocalFrame, Alike
  <1>4. QED  BY <1>1, <1>2, <1>3

LEMMA RecvFrame ==
  ASSUME TypeOK, NEW e \in End, RecvStart(e) \/ RecvRead(e)
  PROVE  /\ LocalFrame(e) /\ st[e] = "open" /\ st' = st /\ UNCHANGED <<out, sent>>
         /\ \A g \in End : g # e => UNCHANGED inb[g]
  <1>1. st[e] = "open" /\ UNCHANGED <<setup, backlog, broken, st, out, sent>>
    BY DEF RecvStart, RecvRead, CanRead, lVars
  <1>2. \A g \in End : g # e => UNCHANGED inb[g]
    <2>1. inb' = inb \/ inb' = Read(e)
      BY DEF RecvStart, RecvRead
    <2>2. QED  BY <2>1, InbFacts
  <1>3. \A g \in End : g # e => UNCHANGED <<rcvd[g], reading[g], rd[g]>>
    <2>1. CASE RecvStart(e)
      BY <2>1 DEF RecvStart, TypeOK
    <2>2. CASE RecvRead(e) /\ Whole(Got(e))
      <3>1. /\ rcvd' = [rcvd EXCEPT ![e] = Append(@, SubSeq(Got(e), SizeAt + 1, Len(Got(e))))]
            /\ reading' = [reading EXCEPT ![e] = FALSE] /\ rd' = [rd EXCEPT ![e] = <<>>]
        BY <2>2 DEF RecvRead
      <3>2. QED  BY <3>1 DEF TypeOK
    <2>3. CASE RecvRead(e) /\ ~Whole(Got(e))
      <3>1. rd' = [rd EXCEPT ![e] = Got(e)] /\ UNCHANGED <<rcvd, reading>>
        BY <2>3 DEF RecvRead
      <3>2. QED  BY <3>1 DEF TypeOK
    <2>4. QED  BY <2>1, <2>2, <2>3
  <1>4. QED  BY <1>1, <1>2, <1>3 DEF LocalFrame, Alike

LEMMA LocalFrames ==
  ASSUME TypeOK, PhaseInv, NEW e \in End, LocalStep(e)
  PROVE  LocalFrame(e)
  <1>1. CASE ShakeStep(e)
    BY <1>1, ShakeFrame
  <1>2. CASE EndClose(e) \/ SendErr(e) \/ RecvTooLong(e) \/ RecvErr(e)
    BY <1>2, CloseFrame
  <1>3. CASE SendExpired(e) \/ (\E n \in Sizes : SendStart(e, n)) \/ SendWrite(e)
    BY <1>3, SendFrame
  <1>4. CASE RecvStart(e) \/ RecvRead(e)
    BY <1>4, RecvFrame
  <1>5. QED  BY <1>1, <1>2, <1>3, <1>4 DEF LocalStep, SendStep, RecvStep

-----------------------------------------------------------------------------
(* A step of e keeps what e reads in order.                                *)

LEMMA ReadAtFacts ==
  ASSUME NEW e, NEW p
  PROVE  /\ st[e] = "open" => ReadAt(e, p) = p[Len(rcvd[e])] + Len(rd[e]) + 1
         /\ st[e] \in {"none", "tls"} /\ kind = "tls" => ReadAt(e, p) = -1
         /\ st[e] # "open" /\ ~(st[e] \in {"none", "tls"} /\ kind = "tls") => ReadAt(e, p) = 0
  BY DEF ReadAt

LEMMA WriteAtFacts ==
  ASSUME NEW f, NEW p
  PROVE  /\ st[f] = "open" => WriteAt(f, p) = p[Len(sent[f])] - Len(out[f]) + 1
         /\ st[f] = "none" /\ kind = "tls" => WriteAt(f, p) = -1
         /\ st[f] = "read" => WriteAt(f, p) = 1
         /\ st[f] \notin {"open", "read"} /\ ~(st[f] = "none" /\ kind = "tls") => WriteAt(f, p) = 0
  BY DEF WriteAt

LEMMA ReadAtNext ==
  ASSUME NEW e, NEW p, UNCHANGED setup
  PROVE  /\ st'[e] = "open" => ReadAt(e, p)' = p[Len(rcvd'[e])] + Len(rd'[e]) + 1
         /\ st'[e] \in {"none", "tls"} /\ kind = "tls" => ReadAt(e, p)' = -1
         /\ st'[e] # "open" /\ ~(st'[e] \in {"none", "tls"} /\ kind = "tls") => ReadAt(e, p)' = 0
  BY SetupStays DEF ReadAt

LEMMA WriteAtNext ==
  ASSUME NEW f, NEW p, UNCHANGED setup
  PROVE  /\ st'[f] = "open" => WriteAt(f, p)' = p[Len(sent'[f])] - Len(out'[f]) + 1
         /\ st'[f] = "none" /\ kind = "tls" => WriteAt(f, p)' = -1
         /\ st'[f] = "read" => WriteAt(f, p)' = 1
         /\ st'[f] \notin {"open", "read"} /\ ~(st'[f] = "none" /\ kind = "tls") => WriteAt(f, p)' = 0
  BY SetupStays DEF WriteAt

LEMMA BlankFacts ==
  ASSUME PhaseInv, TypeOK, NEW e \in End, st[e] \notin {"open", "closed"}
  PROVE  /\ out[e] = <<>> /\ sent[e] = <<>> /\ rcvd[e] = <<>> /\ rd[e] = <<>>
         /\ Len(out[e]) = 0 /\ Len(sent[e]) = 0 /\ Len(rcvd[e]) = 0 /\ Len(rd[e]) = 0
         /\ reading[e] = FALSE
  <1>1. out[e] = <<>> /\ sent[e] = <<>> /\ rcvd[e] = <<>> /\ rd[e] = <<>> /\ reading[e] = FALSE
    BY DEF PhaseInv, Blank
  <1>2. Len(<<>>) = 0
    OBVIOUS
  <1>3. QED  BY <1>1, <1>2

LEMMA ReaderShakes ==
  ASSUME TypeOK, PhaseInv, NEW e \in End, ShakeStep(e), NEW p, Along(e, Other(e), p)
  PROVE  Along(e, Other(e), p)'
  <1> DEFINE f == Other(e)
  <1>1. f \in End /\ f # e
    BY OtherFacts
  <1>2. PICK s \in States : Handshake(e, s)
    BY ShakeCases DEF States
  <1>3. /\ UNCHANGED <<setup, broken, rcvd, rd, sent, out>> /\ UNCHANGED st[f] /\ st'[e] = s
    BY <1>1, <1>2, HandshakeFacts
  <1>4. KeepsRead(e) /\ KeepsWrite(f)
    BY <1>3 DEF KeepsRead, KeepsWrite
  <1>5. st[e] \in Busy
    BY ShakeCases DEF Busy
  <1>6. /\ Len(rcvd[e]) = 0 /\ Len(rd[e]) = 0 /\ p[0] = 0
    BY <1>1, <1>5, BlankFacts, Places DEF Busy
  <1>7. ASSUME inb[e] # <<>>, inb' = Read(e),
               \/ st[e] = "tls" /\ st'[e] = "write"
               \/ st[e] = "read" /\ st'[e] = "open"
        PROVE  Along(e, f, p)'
    <2>1. ReadAt(e, p)' = ReadAt(e, p) + 1
      <3>1. CASE st[e] = "tls" /\ st'[e] = "write"
        <4>1. kind = "tls"
          BY <3>1 DEF PhaseInv
        <4>2. ReadAt(e, p) = -1 /\ ReadAt(e, p)' = 0
          BY <1>3, <3>1, <4>1, ReadAtFacts, ReadAtNext
        <4>3. QED  BY <4>2
      <3>2. CASE st[e] = "read" /\ st'[e] = "open"
        <4>1. ReadAt(e, p) = 0
          BY <3>2, ReadAtFacts
        <4>2. ReadAt(e, p)' = p[0] + 0 + 1
          BY <1>3, <1>6, <3>2, ReadAtNext
        <4>3. QED  BY <1>6, <4>1, <4>2
      <3>3. QED  BY <1>7, <3>1, <3>2
    <2>2. inb'[e] = Tail(inb[e])
      BY <1>7, InbFacts
    <2>3. st[e] \notin Gone
      BY <1>7 DEF Gone
    <2>4. /\ RcvdFine(maxrx(e), sent[f], rcvd'[e])
          /\ RdFine(SizeAt, maxrx(e), sent[f], rcvd'[e], rd'[e])
      BY <1>3 DEF Along
    <2> HIDE DEF f
    <2>5. QED  BY <1>1, <1>3, <1>4, <1>7, <2>1, <2>2, <2>3, <2>4, ReadOne DEF f
  <1>8. CASE st[e] = "write" /\ Handshake(e, "read") /\ inb' = Write(e, connHeader(e))
    <2>1. st'[e] = "read"
      BY <1>8, HandshakeFacts
    <2>2. ReadAt(e, p) = 0 /\ ReadAt(e, p)' = 0
      BY <1>3, <1>8, <2>1, ReadAtFacts, ReadAtNext
    <2>3. UNCHANGED inb[e] /\ st[e] \notin Gone
      BY <1>1, <1>8, InbFacts DEF Gone
    <2>4. QED  BY <1>3, <1>4, <2>2, <2>3, ReaderOn
  <1>9. CASE s \in Gone /\ inb' = Drop(e)
    BY <1>1, <1>3, <1>4, <1>9, ReaderGone
  <1>10. QED
    <2>1. \/ inb[e] # <<>> /\ inb' = Read(e) /\ st[e] = "tls" /\ st'[e] = "write"
          \/ inb[e] # <<>> /\ inb' = Read(e) /\ st[e] = "read" /\ st'[e] = "open"
          \/ st[e] = "write" /\ Handshake(e, "read") /\ inb' = Write(e, connHeader(e))
          \/ st'[e] \in Gone /\ inb' = Drop(e)
      BY ShakeCases, HandshakeFacts DEF Gone
    <2>2. QED  BY <1>3, <1>7, <1>8, <1>9, <2>1

LEMMA ReaderReceives ==
  ASSUME TypeOK, PhaseInv, NEW e \in End, RecvStart(e) \/ RecvRead(e), NEW p,
         Along(e, Other(e), p)
  PROVE  Along(e, Other(e), p)'
  <1> DEFINE f == Other(e)
             z == SizeAt
             lim == maxrx(e)
             s == sent[f]
             v == rcvd[e]
             d == rd[e]
             g == Got(e)
  <1>1. f \in End /\ f # e
    BY OtherFacts
  <1>2. LocalFrame(e) /\ st[e] = "open" /\ st' = st /\ UNCHANGED <<out, sent>>
    BY RecvFrame
  <1>3. UNCHANGED <<setup, broken>>
    BY <1>2 DEF LocalFrame
  <1>4. KeepsWrite(f)
    BY <1>2 DEF KeepsWrite
  <1>5. CASE RecvStart(e)
    <2>1. rd' = [rd EXCEPT ![e] = <<>>] /\ reading[e] = FALSE /\ UNCHANGED <<inb, rcvd>>
      BY <1>5 DEF RecvStart, TypeOK
    <2>2. rd'[e] = rd[e]
      BY <2>1 DEF PhaseInv, TypeOK
    <2>3. KeepsRead(e)
      BY <2>1, <2>2 DEF KeepsRead
    <2>4. QED  BY <1>2, <1>3, <1>4, <2>1, <2>3, Still
  <1>6. CASE RecvRead(e)
    <2>1. inb[e] # <<>> /\ inb' = Read(e) /\ ~TooLong(e, g)
      BY <1>6 DEF RecvRead, CanRead
    <2>2. inb'[e] = Tail(inb[e]) /\ st[e] \notin Gone
      BY <1>2, <2>1, InbFacts DEF Gone
    <2>3. /\ z \in {1, 2} /\ lim \in Nat /\ s \in Seq(Seq(TokenSet)) /\ v \in Seq(Seq(TokenSet))
          /\ d \in Seq(TokenSet) /\ inb[e] \in Seq(TokenSet)
      BY <1>1, SetupFacts, StateTypes
    <2>4. /\ Split(z, s, p) /\ RcvdFine(lim, s, v) /\ RdFine(z, lim, s, v, d)
          /\ InFine(z, connHeader(f), s, p, ReadAt(e, p), inb[e])
      BY <2>2 DEF Along
    <2>5. ReadAt(e, p) = p[Len(v)] + Len(d) + 1
      BY <1>2, ReadAtFacts
    <2>6. ReadAt(e, p) \in Int
      BY <1>1, Places
    <2>7. /\ FitsAt(z, connHeader(f), s, p, ReadAt(e, p), Head(inb[e])) /\ Head(inb[e]) \in TokenSet
          /\ ReadAt(e, p) <= p[Len(s)]
      BY <2>1, <2>3, <2>4, <2>6, InTail
    <2>8. g = Append(d, Head(inb[e])) /\ ~(Len(g) = z /\ lim > 0 /\ g[z].n > lim)
      BY <2>1 DEF Got, TooLong
    <2>9. Whole(g) = (Len(g) >= z /\ Len(g) = z + g[z].n)
      BY DEF Whole
    <2>t. /\ st'[e] = "open" /\ rcvd \in [End -> Seq(Seq(TokenSet))] /\ rd \in [End -> Seq(TokenSet)]
      BY <1>2 DEF TypeOK
    <2> HIDE DEF f, z, lim, s, v, d, g
    <2>10. /\ (Len(g) >= z /\ Len(g) = z + g[z].n) =>
                /\ RcvdFine(lim, s, Append(v, SubSeq(g, z + 1, Len(g))))
                /\ RdFine(z, lim, s, Append(v, SubSeq(g, z + 1, Len(g))), <<>>)
                /\ p[Len(Append(v, SubSeq(g, z + 1, Len(g))))] = ReadAt(e, p)
           /\ ~(Len(g) >= z /\ Len(g) = z + g[z].n) =>
                RdFine(z, lim, s, v, g) /\ Len(g) = Len(d) + 1
      <3>1. Finds(z, connHeader(f), lim, s, p, v, d, ReadAt(e, p), Head(inb[e]), g)
        BY <2>3, <2>4, <2>5, <2>7, <2>8 DEF Finds
      <3>2. QED  BY <3>1, RecvFine
    <2>11. ASSUME RcvdFine(lim, s, rcvd'[e]), RdFine(z, lim, s, rcvd'[e], rd'[e]),
                  p[Len(rcvd'[e])] + Len(rd'[e]) + 1 = ReadAt(e, p) + 1
           PROVE  Along(e, f, p)'
      <3>1. ReadAt(e, p)' = ReadAt(e, p) + 1
        BY <1>3, <2>t, <2>11, ReadAtNext
      <3>2. Along(e, f, p) /\ UNCHANGED st[f]
        BY <1>2 DEF f
      <3>3. RcvdFine(maxrx(e), sent[f], rcvd'[e]) /\ RdFine(SizeAt, maxrx(e), sent[f], rcvd'[e], rd'[e])
        BY <2>11 DEF lim, s, z
      <3>4. QED  BY <1>1, <1>3, <1>4, <2>1, <2>2, <3>1, <3>2, <3>3, ReadOne
    <2>12. CASE Whole(g)
      <3> DEFINE v2 == Append(v, SubSeq(g, z + 1, Len(g)))
      <3>1. rcvd'[e] = v2 /\ rd'[e] = <<>>
        BY <1>6, <2>12, <2>t DEF RecvRead, v2, v, g, z
      <3>2. /\ RcvdFine(lim, s, v2) /\ RdFine(z, lim, s, v2, <<>>)
            /\ p[Len(v2)] = ReadAt(e, p)
        BY <2>9, <2>10, <2>12
      <3> HIDE DEF v2
      <3>3. p[Len(rcvd'[e])] + Len(rd'[e]) + 1 = ReadAt(e, p) + 1
        <4>1. p[Len(rcvd'[e])] = ReadAt(e, p) /\ Len(rd'[e]) = 0
          BY <3>1, <3>2
        <4>2. QED  BY <2>6, <4>1
      <3>4. QED  BY <2>11, <3>1, <3>2, <3>3 DEF f
    <2>13. CASE ~Whole(g)
      <3>1. rcvd'[e] = v /\ rd'[e] = g
        BY <1>6, <2>13, <2>t DEF RecvRead, v, g
      <3>2. RdFine(z, lim, s, v, g) /\ Len(g) = Len(d) + 1
        BY <2>9, <2>10, <2>13
      <3>3. p[Len(rcvd'[e])] + Len(rd'[e]) + 1 = ReadAt(e, p) + 1
        <4>1. p[Len(v)] \in Nat /\ Len(d) \in Nat
          <5>1. Along(e, f, p)
            BY DEF f
          <5>2. Len(rcvd[e]) \in 0 .. Len(sent[f]) /\ Split(SizeAt, sent[f], p)
            BY <1>1, <5>1, Places
          <5>3. p[Len(rcvd[e])] \in Nat
            BY <2>3, <5>2, SplitFacts DEF s, z
          <5>4. QED  BY <2>3, <5>3 DEF v
        <4>2. QED  BY <2>5, <3>1, <3>2, <4>1, SMTT(30)
      <3>4. QED  BY <2>4, <2>11, <3>1, <3>2, <3>3 DEF f
    <2>14. QED  BY <2>12, <2>13 DEF f
  <1>7. QED  BY <1>5, <1>6

LEMMA ReaderStep ==
  ASSUME TypeOK, PhaseInv, NEW e \in End, LocalStep(e), NEW p, Along(e, Other(e), p)
  PROVE  Along(e, Other(e), p)'
  <1>1. Other(e) \in End /\ Other(e) # e
    BY OtherFacts
  <1>2. CASE ShakeStep(e)
    BY <1>2, ReaderShakes
  <1>3. CASE EndClose(e) \/ SendErr(e) \/ RecvTooLong(e) \/ RecvErr(e)
    <2>1. Quits(e) /\ LocalFrame(e)
      BY <1>3, CloseFrame
    <2>2. KeepsWrite(Other(e)) /\ UNCHANGED setup
      BY <1>1, <2>1 DEF LocalFrame, Alike, KeepsWrite
    <2>3. QED  BY <1>1, <2>1, <2>2, ReaderGone DEF Quits
  <1>4. CASE SendExpired(e) \/ (\E n \in Sizes : SendStart(e, n)) \/ SendWrite(e)
    <2>1. LocalFrame(e) /\ st' = st /\ UNCHANGED <<rd, rcvd>> /\ UNCHANGED inb[e]
      BY <1>4, SendFrame
    <2>2. KeepsWrite(Other(e)) /\ KeepsRead(e) /\ UNCHANGED <<setup, broken>>
      BY <1>1, <2>1 DEF LocalFrame, Alike, KeepsWrite, KeepsRead
    <2>3. QED  BY <2>1, <2>2, Still
  <1>5. CASE RecvStart(e) \/ RecvRead(e)
    BY <1>5, ReaderReceives
  <1>6. QED  BY <1>2, <1>3, <1>4, <1>5 DEF LocalStep, SendStep, RecvStep

-----------------------------------------------------------------------------
(* It keeps what e writes in order.                                        *)

LEMMA WriterShakes ==
  ASSUME TypeOK, PhaseInv, NEW e \in End, ShakeStep(e), NEW p, Along(Other(e), e, p)
  PROVE  Along(Other(e), e, p)'
  <1> DEFINE g == Other(e)
  <1>1. g \in End /\ g # e /\ Other(g) = e /\ g[1] = e[1]
    BY OtherFacts
  <1>2. PICK s \in States : Handshake(e, s)
    BY ShakeCases DEF States
  <1>3. /\ UNCHANGED <<setup, broken, rcvd, rd, sent, out>> /\ UNCHANGED st[g] /\ st'[e] = s
    BY <1>1, <1>2, HandshakeFacts
  <1>4. KeepsRead(g) /\ KeepsWrite(e)
    BY <1>3 DEF KeepsRead, KeepsWrite
  <1>5. st[e] \in Busy /\ st[e] \notin Gone
    BY ShakeCases DEF Busy, Gone
  <1>6. /\ Len(sent[e]) = 0 /\ Len(out[e]) = 0 /\ p[0] = 0
    BY <1>1, <1>5, BlankFacts, Places DEF Busy
  <1>7. ASSUME inb' = Read(e),
               \/ st[e] = "tls" /\ st'[e] = "write"
               \/ st[e] = "read" /\ st'[e] = "open"
        PROVE  Along(g, e, p)'
    <2>1. WriteAt(e, p)' = WriteAt(e, p) /\ st'[e] # "none"
      <3>1. CASE st[e] = "tls" /\ st'[e] = "write"
        <4>1. WriteAt(e, p) = 0 /\ WriteAt(e, p)' = 0
          BY <1>3, <3>1, WriteAtFacts, WriteAtNext
        <4>2. QED  BY <3>1, <4>1
      <3>2. CASE st[e] = "read" /\ st'[e] = "open"
        <4>1. WriteAt(e, p) = 1
          BY <3>2, WriteAtFacts
        <4>2. WriteAt(e, p)' = p[0] - 0 + 1
          BY <1>3, <1>6, <3>2, WriteAtNext
        <4>3. QED  BY <1>6, <3>2, <4>1, <4>2
      <3>3. QED  BY <1>7, <3>1, <3>2
    <2>2. UNCHANGED inb[g]
      BY <1>1, <1>7, InbFacts
    <2> HIDE DEF g
    <2>3. Along(g, e, p)
      BY DEF g
    <2>4. QED  BY <1>3, <1>4, <1>5, <2>1, <2>2, <2>3, WriterOn
  <1>8. CASE st[e] = "write" /\ Handshake(e, "read") /\ inb' = Write(e, connHeader(e))
    <2>1. st'[e] = "read"
      BY <1>8, HandshakeFacts
    <2>2. WriteAt(e, p) = 0 /\ WriteAt(e, p)' = 1
      BY <1>3, <1>8, <2>1, WriteAtFacts, WriteAtNext
    <2>3. FitsAt(SizeAt, connHeader(e), sent[e], p, 0, connHeader(e))
      BY <1>6 DEF FitsAt
    <2>4. inb'[g] = IF Cut(e) THEN inb[g] ELSE Append(inb[g], connHeader(e))
      BY <1>8, InbFacts
    <2>5. Cut(e) = (g[1] \in broken \/ st[g] = "closed")
      BY <1>1 DEF Cut
    <2>6. OutFine(SizeAt, connHeader(e), sent[e], p, out'[e])
      BY <1>3 DEF Along
    <2>7. connHeader(e) \in TokenSet /\ UNCHANGED sent[e]
      BY <1>3, HeaderTypes
    <2>8. Along(g, e, p)
      OBVIOUS
    <2>9. /\ FitsAt(SizeAt, connHeader(e), sent[e], p, WriteAt(e, p), connHeader(e))
          /\ WriteAt(e, p) <= p[Len(sent[e])] /\ WriteAt(e, p)' = WriteAt(e, p) + 1
      BY <1>6, <2>2, <2>3
    <2>10. \/ inb'[g] = Append(inb[g], connHeader(e)) /\ (g[1] \notin broken \/ st[e] = "none")
           \/ inb'[g] = Append(inb[g], connHeader(e)) /\ st[g] \in Gone
           \/ inb'[g] = inb[g] /\ (g[1] \in broken \/ st[g] = "closed")
      BY <2>4, <2>5
    <2>11. st'[e] # "none" /\ UNCHANGED st[g] /\ UNCHANGED <<setup, broken>>
      BY <1>3, <2>1
    <2> HIDE DEF g
    <2>12. PICK t \in TokenSet : t = connHeader(e)
      BY <2>7
    <2>13. /\ FitsAt(SizeAt, connHeader(e), sent[e], p, WriteAt(e, p), t)
           /\ \/ inb'[g] = Append(inb[g], t) /\ (g[1] \notin broken \/ st[e] = "none")
              \/ inb'[g] = Append(inb[g], t) /\ st[g] \in Gone
              \/ inb'[g] = inb[g] /\ (g[1] \in broken \/ st[g] = "closed")
      BY <2>9, <2>10, <2>12
    <2>14. WriteAt(e, p) <= p[Len(sent[e])] /\ WriteAt(e, p)' = WriteAt(e, p) + 1
      BY <2>9
    <2>15. Along(g, e, p)'
      BY <1>1, <1>4, <1>5, <2>6, <2>7, <2>8, <2>11, <2>13, <2>14, WriteOne
    <2>16. QED  BY <2>15 DEF g
  <1>9. CASE s \in Gone /\ inb' = Drop(e)
    <2>1. UNCHANGED inb[g]
      BY <1>1, <1>9, InbFacts
    <2>2. QED  BY <1>1, <1>3, <1>4, <1>9, <2>1, WriterGone
  <1>10. QED
    <2>1. \/ inb' = Read(e) /\ st[e] = "tls" /\ st'[e] = "write"
          \/ inb' = Read(e) /\ st[e] = "read" /\ st'[e] = "open"
          \/ st[e] = "write" /\ Handshake(e, "read") /\ inb' = Write(e, connHeader(e))
          \/ st'[e] \in Gone /\ inb' = Drop(e)
      BY ShakeCases, HandshakeFacts DEF Gone
    <2>2. QED  BY <1>3, <1>7, <1>8, <1>9, <2>1

LEMMA WriterStarts ==
  ASSUME TypeOK, NEW e \in End, NEW n \in Sizes, SendStart(e, n), NEW p, Along(Other(e), e, p)
  PROVE  \E q : Along(Other(e), e, q)'
  <1> DEFINE g == Other(e)
             z == SizeAt
             h == connHeader(e)
             s == sent[e]
             m == count[e[1]] + 1
             b == Body(m, n)
             o == FrameOf(m, n)
             lim == maxrx(g)
  <1>1. g \in End /\ g # e /\ e[1] \in Conn
    BY OtherFacts
  <1>2. /\ st[e] = "open" /\ out[e] = <<>> /\ UNCHANGED <<setup, broken, st, inb, rd, rcvd>>
        /\ sent' = [sent EXCEPT ![e] = Append(@, b)] /\ out' = [out EXCEPT ![e] = o]
    BY DEF SendStart, lVars, FrameOf
  <1>3. sent'[e] = Append(s, b) /\ out'[e] = o
    BY <1>2 DEF TypeOK
  <1>4. m \in Nat /\ n \in Nat
    <2>1. count[e[1]] \in Nat
      BY <1>1 DEF TypeOK
    <2>2. QED  BY <2>1, StreamAssumption
  <1> HIDE DEF m
  <1>5. /\ b \in Seq(TokenSet) /\ Len(b) = n
        /\ o \in Seq(TokenSet) /\ Len(o) = z + Len(b) /\ \A j \in 1 .. Len(o) : Fits(z, b, j, o[j])
    BY <1>4, BodyFacts, FrameFacts
  <1>6. /\ z \in {1, 2} /\ s \in Seq(Seq(TokenSet)) /\ lim \in Nat /\ Split(z, s, p)
        /\ rcvd[g] \in Seq(Seq(TokenSet)) /\ rd[g] \in Seq(TokenSet) /\ inb[g] \in Seq(TokenSet)
        /\ RcvdFine(lim, s, rcvd[g]) /\ RdFine(z, lim, s, rcvd[g], rd[g])
        /\ ReadAt(g, p) \in Int /\ WriteAt(e, p) \in Int /\ p[Len(s)] \in Nat
        /\ Len(rcvd[g]) \in 0 .. Len(s)
    BY <1>1, SetupFacts, StateTypes, Places DEF Along
  <1>7. /\ st[g] \notin Gone => InFine(z, h, s, p, ReadAt(g, p), inb[g])
        /\ Lasts(g, e) => ReadAt(g, p) + Len(inb[g]) = WriteAt(e, p)
    BY DEF Along
  <1>8. WriteAt(e, p) = p[Len(s)] + 1
    <2>1. Len(<<>>) = 0
      OBVIOUS
    <2>2. WriteAt(e, p) = p[Len(s)] - 0 + 1
      BY <1>2, <2>1, WriteAtFacts
    <2>3. QED  BY <1>6, <2>2
  <1> HIDE DEF g, z, h, s, b, o, lim
  <1>9. PICK q : /\ Split(z, Append(s, b), q) /\ OutFine(z, h, Append(s, b), q, o)
                 /\ q[Len(Append(s, b))] - Len(o) = p[Len(s)] /\ q[Len(Append(s, b))] \in Nat
                 /\ \A k \in 0 .. Len(s) : q[k] = p[k]
                 /\ \A x \in Int : \A i \in Seq(TokenSet) :
                      InFine(z, h, s, p, x, i) => InFine(z, h, Append(s, b), q, x, i)
    BY <1>5, <1>6, SendFine
  <1>10. RcvdFine(lim, Append(s, b), rcvd[g]) /\ RdFine(z, lim, Append(s, b), rcvd[g], rd[g])
    BY <1>5, <1>6, GrowFine
  <1>11. ReadAt(g, q)' = ReadAt(g, p)
    <2>1. ReadAt(g, q)' = ReadAt(g, q)
      BY <1>2, ReadAtKept
    <2>2. q[Len(rcvd[g])] = p[Len(rcvd[g])]
      BY <1>6, <1>9
    <2>3. ReadAt(g, q) = ReadAt(g, p)
      BY <2>2 DEF ReadAt
    <2>4. QED  BY <2>1, <2>3
  <1>12. WriteAt(e, q)' = WriteAt(e, p)
    <2>1. WriteAt(e, q)' = q[Len(sent'[e])] - Len(out'[e]) + 1
      BY <1>2, WriteAtNext
    <2>2. WriteAt(e, q)' = p[Len(s)] + 1
      BY <1>3, <1>9, <2>1
    <2>3. QED  BY <1>8, <2>2
  <1>13. Lasts(g, e)' => Lasts(g, e)
    BY <1>2 DEF Lasts
  <1>14. st'[g] \notin Gone => InFine(z, h, Append(s, b), q, ReadAt(g, q)', inb'[g])
    BY <1>2, <1>6, <1>7, <1>9, <1>11
  <1>15. Lasts(g, e)' => ReadAt(g, q)' + Len(inb'[g]) = WriteAt(e, q)'
    BY <1>2, <1>7, <1>11, <1>12, <1>13
  <1>16. Along(g, e, q)'
    <2>1. /\ Split(SizeAt, sent'[e], q) /\ RcvdFine(maxrx(g), sent'[e], rcvd'[g])
          /\ RdFine(SizeAt, maxrx(g), sent'[e], rcvd'[g], rd'[g])
          /\ OutFine(SizeAt, connHeader(e), sent'[e], q, out'[e])
          /\ st'[g] \notin Gone =>
               InFine(SizeAt, connHeader(e), sent'[e], q, ReadAt(g, q)', inb'[g])
      BY <1>2, <1>3, <1>9, <1>10, <1>14 DEF z, lim, h
    <2>2. QED  BY <1>2, <1>15, <2>1, Rebuild
  <1>17. QED  BY <1>16 DEF g

LEMMA WriterWrites ==
  ASSUME TypeOK, NEW e \in End, SendWrite(e), NEW p, Along(Other(e), e, p)
  PROVE  Along(Other(e), e, p)'
  <1> DEFINE g == Other(e)
             t == Head(out[e])
  <1>1. g \in End /\ g # e /\ Other(g) = e /\ g[1] = e[1]
    BY OtherFacts
  <1>2. /\ st[e] = "open" /\ out[e] # <<>> /\ UNCHANGED <<setup, broken, st, rd, sent, rcvd>>
        /\ inb' = Write(e, t) /\ out' = [out EXCEPT ![e] = Tail(@)]
    BY DEF SendWrite, lVars
  <1>3. out'[e] = Tail(out[e]) /\ out[e] \in Seq(TokenSet)
    BY <1>2 DEF TypeOK
  <1>4. /\ SizeAt \in {1, 2} /\ sent[e] \in Seq(Seq(TokenSet)) /\ Split(SizeAt, sent[e], p)
        /\ OutFine(SizeAt, connHeader(e), sent[e], p, out[e]) /\ p[Len(sent[e])] \in Nat
    BY <1>1, Places DEF Along
  <1>5. /\ OutFine(SizeAt, connHeader(e), sent[e], p, Tail(out[e]))
        /\ FitsAt(SizeAt, connHeader(e), sent[e], p, p[Len(sent[e])] - Len(out[e]) + 1, t)
        /\ t \in TokenSet /\ Len(Tail(out[e])) = Len(out[e]) - 1 /\ Len(out[e]) \in Nat \ {0}
    BY <1>2, <1>3, <1>4, OutTail
  <1>6. WriteAt(e, p) = p[Len(sent[e])] - Len(out[e]) + 1
    BY <1>2, WriteAtFacts
  <1>7. WriteAt(e, p)' = p[Len(sent[e])] - (Len(out[e]) - 1) + 1
    <2>1. WriteAt(e, p)' = p[Len(sent'[e])] - Len(out'[e]) + 1
      BY <1>2, WriteAtNext
    <2>2. QED  BY <1>2, <1>3, <1>5, <2>1
  <1>8. WriteAt(e, p)' = WriteAt(e, p) + 1 /\ WriteAt(e, p) <= p[Len(sent[e])]
    BY <1>4, <1>5, <1>6, <1>7
  <1>9. inb'[g] = IF Cut(e) THEN inb[g] ELSE Append(inb[g], t)
    BY <1>2, InbFacts
  <1>10. Cut(e) = (g[1] \in broken \/ st[g] = "closed")
    BY <1>1 DEF Cut
  <1>11. KeepsRead(g) /\ UNCHANGED sent[e] /\ UNCHANGED st[g] /\ UNCHANGED <<setup, broken>>
    BY <1>2 DEF KeepsRead
  <1>12. st[e] \notin Gone /\ st'[e] # "none"
    BY <1>2 DEF Gone
  <1>13. Along(g, e, p) /\ FitsAt(SizeAt, connHeader(e), sent[e], p, WriteAt(e, p), t)
    BY <1>5, <1>6
  <1>14. OutFine(SizeAt, connHeader(e), sent[e], p, out'[e])
    BY <1>3, <1>5
  <1>15. \/ inb'[g] = Append(inb[g], t) /\ (g[1] \notin broken \/ st[e] = "none")
         \/ inb'[g] = Append(inb[g], t) /\ st[g] \in Gone
         \/ inb'[g] = inb[g] /\ (g[1] \in broken \/ st[g] = "closed")
    BY <1>9, <1>10
  <1>16. t \in TokenSet
    BY <1>5
  <1> HIDE DEF g, t
  <1>17. Along(g, e, p)'
    BY <1>1, <1>8, <1>11, <1>12, <1>13, <1>14, <1>15, <1>16, WriteOne
  <1>18. QED  BY <1>17 DEF g

LEMMA WriterStep ==
  ASSUME TypeOK, PhaseInv, NEW e \in End, LocalStep(e), NEW p, Along(Other(e), e, p)
  PROVE  \E q : Along(Other(e), e, q)'
  <1>1. Other(e) \in End /\ Other(e) # e
    BY OtherFacts
  <1>2. CASE ShakeStep(e)
    BY <1>2, WriterShakes
  <1>3. CASE EndClose(e) \/ SendErr(e) \/ RecvTooLong(e) \/ RecvErr(e)
    <2>1. Quits(e) /\ LocalFrame(e)
      BY <1>3, CloseFrame
    <2>2. KeepsRead(Other(e)) /\ UNCHANGED setup /\ UNCHANGED st[Other(e)]
      BY <1>1, <2>1 DEF LocalFrame, Alike, KeepsRead
    <2>3. Along(Other(e), e, p)'
      BY <1>1, <2>1, <2>2, WriterGone DEF Quits
    <2>4. QED  BY <2>3
  <1>4. CASE SendExpired(e)
    <2>1. UNCHANGED <<setup, broken, st, inb, rcvd, rd, sent, out>>
      BY <1>4 DEF SendExpired, lVars, ioVars
    <2>2. Along(Other(e), e, p)'
      BY <2>1, Still DEF KeepsRead, KeepsWrite
    <2>3. QED  BY <2>2
  <1>5. ASSUME NEW n \in Sizes, SendStart(e, n) PROVE \E q : Along(Other(e), e, q)'
    BY <1>5, WriterStarts
  <1>6. CASE SendWrite(e)
    BY <1>6, WriterWrites
  <1>7. CASE RecvStart(e) \/ RecvRead(e)
    <2>1. /\ LocalFrame(e) /\ st' = st /\ UNCHANGED <<out, sent>> /\ UNCHANGED inb[Other(e)]
      BY <1>1, <1>7, RecvFrame
    <2>2. KeepsRead(Other(e)) /\ KeepsWrite(e) /\ UNCHANGED <<setup, broken>>
      BY <1>1, <2>1 DEF LocalFrame, Alike, KeepsRead, KeepsWrite
    <2>3. Along(Other(e), e, p)'
      BY <2>1, <2>2, Still
    <2>4. QED  BY <2>3
  <1>8. QED  BY <1>2, <1>3, <1>4, <1>5, <1>6, <1>7 DEF LocalStep, SendStep, RecvStep

-----------------------------------------------------------------------------
(* The invariant is kept by every step.                                    *)

LEMMA LocalFlow ==
  ASSUME TypeOK, PhaseInv, FlowInv, NEW e \in End, LocalStep(e)
  PROVE  FlowInv'
  <1>1. LocalFrame(e)
    BY LocalFrames
  <1>2. UNCHANGED <<setup, broken>>
    BY <1>1 DEF LocalFrame
  <1>3. ASSUME NEW g \in End, Named(g)' PROVE \E q : Along(g, Other(g), q)'
    <2>1. Named(g)
      BY <1>2, <1>3, SetupStays
    <2>2. PICK p : Along(g, Other(g), p)
      BY <2>1 DEF FlowInv
    <2>3. CASE g = e
      BY <2>2, <2>3, ReaderStep
    <2>4. CASE g = Other(e)
      <3>1. Other(g) = e
        BY <2>4, OtherFacts
      <3>2. QED  BY <2>2, <2>4, <3>1, WriterStep
    <2>5. CASE g # e /\ g # Other(e)
      <3>1. Other(g) # e /\ Other(g) \in End
        BY <2>5, OtherFacts
      <3>2. KeepsRead(g) /\ KeepsWrite(Other(g)) /\ UNCHANGED <<st[g], st[Other(g)], inb[g]>>
        BY <1>1, <2>5, <3>1 DEF LocalFrame, Alike, KeepsRead, KeepsWrite
      <3>3. Along(g, Other(g), p)'
        BY <1>2, <2>2, <3>2, Still
      <3>4. QED  BY <3>3
    <2>6. QED  BY <2>3, <2>4, <2>5
  <1>4. QED  BY <1>3 DEF FlowInv

(* Nobody but its own step opens an end.                                   *)
LEMMA LocalPeer ==
  ASSUME TypeOK, PhaseInv, FlowInv, PeerInv, NEW e \in End, LocalStep(e)
  PROVE  PeerInv'
  <1>1. LocalFrame(e)
    BY LocalFrames
  <1>2. UNCHANGED <<setup, broken>>
    BY <1>1 DEF LocalFrame
  <1>3. ASSUME NEW g \in End, Named(g)', st'[g] = "open"
        PROVE  Number(Other(g))' = PeerNumber(g)'
    <2>1. Named(g) /\ Number(Other(g))' = Number(Other(g)) /\ PeerNumber(g)' = PeerNumber(g)
      BY <1>2, <1>3, SetupStays
    <2>2. CASE st[g] = "open"
      BY <2>1, <2>2 DEF PeerInv
    <2>3. CASE st[g] # "open"
      <3>1. g = e
        BY <1>1, <1>3, <2>3 DEF LocalFrame, Alike
      <3>2. ShakeStep(e)
        <4>1. CASE EndClose(e) \/ SendErr(e) \/ RecvTooLong(e) \/ RecvErr(e)
          BY <1>3, <3>1, <4>1, CloseFrame
        <4>2. CASE SendExpired(e) \/ (\E n \in Sizes : SendStart(e, n)) \/ SendWrite(e)
          BY <2>3, <3>1, <4>2, SendFrame
        <4>3. CASE RecvStart(e) \/ RecvRead(e)
          BY <2>3, <3>1, <4>3, RecvFrame
        <4>4. QED  BY <4>1, <4>2, <4>3 DEF LocalStep, SendStep, RecvStep
      <3>3. st[e] = "read" /\ inb[e] # <<>> /\ GoodHeader(e, Head(inb[e]))
        BY <1>3, <3>1, <3>2, ShakeCases, HandshakeFacts
      <3>4. PICK p : Along(e, Other(e), p)
        BY <2>1, <3>1 DEF FlowInv
      <3>5. ReadAt(e, p) = 0 /\ st[e] \notin Gone /\ Other(e) \in End
        BY <3>3, ReadAtFacts, OtherFacts DEF Gone
      <3>6. /\ InFine(SizeAt, connHeader(Other(e)), sent[Other(e)], p, 0, inb[e])
            /\ inb[e] \in Seq(TokenSet)
            /\ SizeAt \in {1, 2} /\ sent[Other(e)] \in Seq(Seq(TokenSet))
            /\ Split(SizeAt, sent[Other(e)], p)
        BY <3>4, <3>5, StateTypes, SetupFacts DEF Along
      <3>7. FitsAt(SizeAt, connHeader(Other(e)), sent[Other(e)], p, 0, Head(inb[e]))
        <4>1. PICK x \in Int : x = 0
          OBVIOUS
        <4>2. InFine(SizeAt, connHeader(Other(e)), sent[Other(e)], p, x, inb[e])
          BY <3>6, <4>1
        <4>3. FitsAt(SizeAt, connHeader(Other(e)), sent[Other(e)], p, x, Head(inb[e]))
          BY <3>3, <3>6, <4>1, <4>2, InTail
        <4>4. QED  BY <4>1, <4>3
      <3>8. Head(inb[e]) = connHeader(Other(e))
        BY <3>7 DEF FitsAt
      <3>9. Number(Other(e)) = PeerNumber(e)
        BY <3>3, <3>8 DEF GoodHeader, connHeader, Token
      <3>10. QED  BY <2>1, <3>1, <3>9
    <2>4. QED  BY <2>2, <2>3
  <1>4. QED  BY <1>3 DEF PeerInv

LEMMA LocalBacklog ==
  ASSUME TypeOK, PhaseInv, BacklogInv, NEW e \in End, LocalStep(e)
  PROVE  BacklogInv'
  <1>1. /\ backlog' = backlog /\ backlog \in Seq(Conn)
        /\ \A g \in End : (st'[g] = "none") = (st[g] = "none")
    BY LocalFrames DEF LocalFrame, Alike, TypeOK
  <1>2. \A c \in Conn : /\ (st'[<<c, "dial">>] = "none") = (st[<<c, "dial">>] = "none")
                        /\ (st'[<<c, "accept">>] = "none") = (st[<<c, "accept">>] = "none")
    BY <1>1, OtherFacts
  <1>3. \A i \in 1 .. Len(backlog) : backlog[i] \in Conn
    BY <1>1
  <1>4. QED  BY <1>1, <1>2, <1>3 DEF BacklogInv

(* Of an end that a step leaves alone.                                     *)
LEMMA PhaseKept ==
  ASSUME TypeOK, PhaseInv, UNCHANGED setup, broken \subseteq broken', NEW g \in End, Alike(g),
         st[Other(g)] = "closed" => st'[Other(g)] = "closed"
  PROVE  /\ st'[g] = "tls" => kind' = "tls"
         /\ st'[g] = "stranger" => ~Named(g)'
         /\ st'[g] = "lost" => Cut(g)'
         /\ st'[g] \notin {"open", "closed"} => Blank(g)'
         /\ reading'[g] = FALSE => rd'[g] = <<>>
  <1>1. kind' = kind /\ Named(g)' = Named(g)
    BY SetupStays
  <1>2. Cut(g) => Cut(g)'
    BY DEF Cut
  <1>3. UNCHANGED <<st[g], reading[g], rd[g]>> /\ (Blank(g) => Blank(g)')
    BY DEF Alike, Blank
  <1>4. QED  BY <1>1, <1>2, <1>3 DEF PhaseInv

LEMMA LocalPhase ==
  ASSUME TypeOK, PhaseInv, NEW e \in End, LocalStep(e)
  PROVE  PhaseInv'
  <1>1. LocalFrame(e)
    BY LocalFrames
  <1>2. UNCHANGED <<setup, broken>> /\ kind' = kind
    BY <1>1, SetupStays DEF LocalFrame
  <1>3. ASSUME NEW g \in End, g # e
        PROVE  /\ st'[g] = "tls" => kind' = "tls"
               /\ st'[g] = "stranger" => ~Named(g)'
               /\ st'[g] = "lost" => Cut(g)'
               /\ st'[g] \notin {"open", "closed"} => Blank(g)'
               /\ reading'[g] = FALSE => rd'[g] = <<>>
    <2>1. Other(g) \in End /\ Alike(g)
      BY <1>1, <1>3, OtherFacts DEF LocalFrame
    <2>2. st[Other(g)] = "closed" => st'[Other(g)] = "closed"
      BY <1>1, <2>1 DEF LocalFrame, Alike
    <2>3. QED  BY <1>2, <2>1, <2>2, PhaseKept
  <1>4. /\ st'[e] = "tls" => kind' = "tls"
        /\ st'[e] = "stranger" => ~Named(e)'
        /\ st'[e] = "lost" => Cut(e)'
        /\ st'[e] \notin {"open", "closed"} => Blank(e)'
        /\ reading'[e] = FALSE => rd'[e] = <<>>
    <2>1. CASE ShakeStep(e)
      <3>1. st[e] \in Busy
        BY <2>1, ShakeCases DEF Busy
      <3>2. PICK s \in {"write", "read", "open", "closed", "lost"} :
              Handshake(e, s) /\ (s = "lost" => Cut(e))
        BY <2>1, ShakeCases
      <3>3. /\ st'[e] = s /\ UNCHANGED <<out, reading, rd, sent, rcvd>>
            /\ UNCHANGED st[Other(e)]
        BY <3>2, HandshakeFacts, OtherFacts
      <3>4. Blank(e) /\ Blank(e)' /\ rd[e] = <<>>
        BY <3>1, <3>3, BlankFacts DEF Busy, Blank
      <3>5. Cut(e) => Cut(e)'
        BY <1>2, <3>3 DEF Cut
      <3>6. QED  BY <3>2, <3>3, <3>4, <3>5
    <2>2. CASE EndClose(e) \/ SendErr(e) \/ RecvTooLong(e) \/ RecvErr(e)
      <3>1. /\ st'[e] = "closed"
            /\ \/ reading'[e] = reading[e] /\ rd'[e] = rd[e]
               \/ reading'[e] = FALSE /\ rd'[e] = <<>>
        BY <2>2, CloseFrame
      <3>2. QED  BY <3>1 DEF PhaseInv
    <2>3. CASE SendExpired(e) \/ (\E n \in Sizes : SendStart(e, n)) \/ SendWrite(e)
      <3>1. st[e] = "open" /\ st' = st /\ UNCHANGED <<reading, rd>>
        BY <2>3, SendFrame
      <3>2. QED  BY <3>1 DEF PhaseInv
    <2>4. CASE RecvStart(e) \/ RecvRead(e)
      <3>1. st'[e] = "open"
        BY <2>4, RecvFrame
      <3>2. reading'[e] = FALSE => rd'[e] = <<>>
        <4>1. CASE RecvStart(e)
          BY <4>1 DEF RecvStart, TypeOK
        <4>2. CASE RecvRead(e) /\ Whole(Got(e))
          BY <4>2 DEF RecvRead, TypeOK
        <4>3. CASE RecvRead(e) /\ ~Whole(Got(e))
          BY <4>3 DEF RecvRead, CanRead, TypeOK
        <4>4. QED  BY <2>4, <4>1, <4>2, <4>3
      <3>3. QED  BY <3>1, <3>2
    <2>5. QED  BY <2>1, <2>2, <2>3, <2>4 DEF LocalStep, SendStep, RecvStep
  <1>5. QED  BY <1>3, <1>4 DEF PhaseInv

LEMMA EnterFlow ==
  ASSUME TypeOK, PhaseInv, FlowInv, NEW e \in End, NEW s \in {"tls", "write", "closed"},
         st[e] = "none", Enter(e, s), s = "tls" => kind = "tls", s = "write" => kind # "tls",
         UNCHANGED <<setup, broken, ioVars>>
  PROVE  FlowInv'
  <1>1. UNCHANGED <<setup, broken, out, reading, rd, sent, rcvd>>
    BY DEF ioVars
  <1>2. st'[e] = s /\ \A g \in End : g # e => UNCHANGED st[g]
    BY DEF Enter, TypeOK
  <1>3. /\ Other(e) \in End /\ Other(e) # e
        /\ \A g \in End : g # Other(e) => UNCHANGED inb[g]
        /\ inb'[Other(e)] = IF s = "tls" THEN Append(inb[Other(e)], Hello) ELSE inb[Other(e)]
    BY OtherFacts DEF Enter, TypeOK
  <1>4. \A g \in End : KeepsRead(g) /\ KeepsWrite(g)
    BY <1>1 DEF KeepsRead, KeepsWrite
  <1>5. Len(sent[e]) = 0 /\ Len(out[e]) = 0 /\ st[e] \notin Gone
    BY BlankFacts DEF Gone
  <1>6. ASSUME NEW g \in End, Named(g)' PROVE \E q : Along(g, Other(g), q)'
    <2>1. PICK p : Along(g, Other(g), p)
      BY <1>1, <1>6, SetupStays DEF FlowInv
    <2>2. Other(g) \in End /\ Other(Other(g)) = g
      BY OtherFacts
    <2>3. CASE g # e /\ g # Other(e)
      <3>1. Other(g) # e
        BY <2>2, <2>3
      <3>2. Along(g, Other(g), p)'
        BY <1>1, <1>2, <1>3, <1>4, <2>1, <2>2, <2>3, <3>1, Still
      <3>3. QED  BY <3>2
    <2>4. CASE g = e
      <3>1. CASE s = "closed"
        <4>1. st'[e] \in Gone /\ UNCHANGED rcvd[e] /\ rd'[e] = rd[e]
          BY <1>1, <1>2, <3>1 DEF Gone
        <4>2. Along(g, Other(g), p)'
          BY <1>1, <1>4, <2>1, <2>2, <2>4, <4>1, ReaderGone
        <4>3. QED  BY <4>2
      <3>2. CASE s # "closed"
        <4>1. ReadAt(e, p)' = ReadAt(e, p)
          BY <1>1, <1>2, <3>2, ReadAtFacts, ReadAtNext
        <4>2. UNCHANGED <<st[Other(g)], inb[e]>>
          BY <1>2, <1>3, <2>2, <2>4
        <4>3. Along(g, Other(g), p)'
          BY <1>1, <1>4, <1>5, <2>1, <2>2, <2>4, <4>1, <4>2, ReaderOn
        <4>4. QED  BY <4>3
      <3>3. QED  BY <3>1, <3>2
    <2>5. CASE g = Other(e)
      <3>1. Other(g) = e /\ Along(g, e, p) /\ UNCHANGED st[g]
        BY <1>2, <1>3, <2>1, <2>5, OtherFacts
      <3>2. CASE s = "closed"
        <4>1. st'[e] \in Gone /\ UNCHANGED inb[g] /\ UNCHANGED sent[e] /\ out'[e] = out[e]
          BY <1>1, <1>2, <1>3, <2>5, <3>2 DEF Gone
        <4>2. Along(g, e, p)'
          BY <1>1, <1>4, <3>1, <4>1, WriterGone
        <4>3. QED  BY <3>1, <4>2
      <3>3. CASE s = "write"
        <4>1. WriteAt(e, p)' = WriteAt(e, p) /\ st'[e] # "none" /\ UNCHANGED inb[g]
          BY <1>1, <1>2, <1>3, <2>5, <3>3, WriteAtFacts, WriteAtNext
        <4>2. Along(g, e, p)'
          BY <1>1, <1>4, <1>5, <3>1, <4>1, WriterOn
        <4>3. QED  BY <3>1, <4>2
      <3>4. CASE s = "tls"
        <4>1. WriteAt(e, p) = -1 /\ WriteAt(e, p)' = 0 /\ st'[e] # "none"
          BY <1>1, <1>2, <3>4, WriteAtFacts, WriteAtNext
        <4>2. p[Len(sent[e])] \in Nat /\ p[0] = 0
          BY <3>1, Places
        <4>3. FitsAt(SizeAt, connHeader(e), sent[e], p, WriteAt(e, p), Hello)
          BY <1>5, <4>1 DEF FitsAt
        <4>4. WriteAt(e, p) <= p[Len(sent[e])] /\ WriteAt(e, p)' = WriteAt(e, p) + 1
          BY <4>1, <4>2
        <4>5. inb'[g] = Append(inb[g], Hello) /\ UNCHANGED sent[e] /\ Hello \in TokenSet
          BY <1>1, <1>3, <2>5, <3>4, HeaderTypes
        <4>6. OutFine(SizeAt, connHeader(e), sent[e], p, out'[e])
          BY <1>1, <3>1 DEF Along
        <4>7. PICK t \in TokenSet : t = Hello
          BY <4>5
        <4>8. Along(g, e, p)'
          BY <1>1, <1>4, <1>5, <3>1, <4>1, <4>3, <4>4, <4>5, <4>6, <4>7, WriteOne
        <4>9. QED  BY <3>1, <4>8
      <3>5. QED  BY <3>2, <3>3, <3>4
    <2>6. QED  BY <2>3, <2>4, <2>5
  <1>7. QED  BY <1>6 DEF FlowInv

LEMMA EnterPhase ==
  ASSUME TypeOK, PhaseInv, PeerInv, NEW e \in End, NEW s \in {"tls", "write", "closed"},
         st[e] = "none", Enter(e, s), s = "tls" => kind = "tls",
         UNCHANGED <<setup, broken, ioVars>>
  PROVE  PhaseInv' /\ PeerInv'
  <1>1. UNCHANGED <<setup, broken, out, reading, rd, sent, rcvd>> /\ kind' = kind
    BY SetupStays DEF ioVars
  <1>2. st'[e] = s /\ \A g \in End : g # e => UNCHANGED st[g]
    BY DEF Enter, TypeOK
  <1>3. ASSUME NEW g \in End, g # e
        PROVE  /\ st'[g] = "tls" => kind' = "tls"
               /\ st'[g] = "stranger" => ~Named(g)'
               /\ st'[g] = "lost" => Cut(g)'
               /\ st'[g] \notin {"open", "closed"} => Blank(g)'
               /\ reading'[g] = FALSE => rd'[g] = <<>>
    <2>1. Alike(g) /\ (st[Other(g)] = "closed" => st'[Other(g)] = "closed")
      BY <1>1, <1>2, <1>3, OtherFacts DEF Alike
    <2>2. QED  BY <1>1, <2>1, PhaseKept
  <1>4. Blank(e) /\ Blank(e)' /\ rd[e] = <<>>
    BY <1>1, BlankFacts DEF Blank
  <1>5. PhaseInv'
    BY <1>1, <1>2, <1>3, <1>4 DEF PhaseInv
  <1>6. PeerInv'
    <2>1. ASSUME NEW g \in End, Named(g)', st'[g] = "open"
          PROVE  Number(Other(g))' = PeerNumber(g)'
      <3>1. st[g] = "open" /\ Named(g)
        BY <1>1, <1>2, <2>1, SetupStays
      <3>2. QED  BY <1>1, <3>1, SetupStays DEF PeerInv
    <2>2. QED  BY <2>1 DEF PeerInv
  <1>7. QED  BY <1>5, <1>6

(* The connection c joins the backlog, and its caller is in state s.       *)
LEMMA JoinBacklog ==
  ASSUME TypeOK, BacklogInv, NEW c \in Conn, st[<<c, "dial">>] = "none",
         backlog' = Append(backlog, c), NEW s \in States \ {"none"},
         st' = [st EXCEPT ![<<c, "dial">>] = s]
  PROVE  BacklogInv'
  <1>1. /\ backlog \in Seq(Conn) /\ Len(backlog) \in Nat /\ Len(backlog') = Len(backlog) + 1
        /\ backlog'[Len(backlog) + 1] = c
        /\ \A i \in 1 .. Len(backlog) : backlog'[i] = backlog[i] /\ backlog[i] \in Conn
    BY DEF TypeOK
  <1>2. \A d \in Conn : /\ st'[<<d, "accept">>] = st[<<d, "accept">>]
                        /\ st'[<<d, "dial">>] = IF d = c THEN s ELSE st[<<d, "dial">>]
    BY OtherFacts DEF TypeOK
  <1>3. /\ st[<<c, "accept">>] = "none"
        /\ \A i \in 1 .. Len(backlog) : backlog[i] # c
    BY DEF BacklogInv
  <1>4. \A i, j \in 1 .. Len(backlog') : backlog'[i] = backlog'[j] => i = j
    <2>1. ASSUME NEW i \in 1 .. Len(backlog) + 1, NEW j \in 1 .. Len(backlog) + 1,
                 backlog'[i] = backlog'[j]
          PROVE  i = j
      <3>1. CASE i \in 1 .. Len(backlog) /\ j \in 1 .. Len(backlog)
        BY <1>1, <2>1, <3>1 DEF BacklogInv
      <3>2. CASE i = Len(backlog) + 1 \/ j = Len(backlog) + 1
        BY <1>1, <1>3, <2>1, <3>2
      <3>3. Len(backlog) \in Nat
        BY <1>1
      <3>4. QED  BY <3>1, <3>2, <3>3
    <2>2. QED  BY <1>1, <2>1
  <1>5. \A i \in 1 .. Len(backlog') : st'[<<backlog'[i], "accept">>] = "none"
    <2>1. ASSUME NEW i \in 1 .. Len(backlog) + 1 PROVE st'[<<backlog'[i], "accept">>] = "none"
      <3>1. CASE i \in 1 .. Len(backlog)
        BY <1>1, <1>2, <3>1 DEF BacklogInv
      <3>2. CASE i = Len(backlog) + 1
        BY <1>1, <1>2, <1>3, <3>2
      <3>3. Len(backlog) \in Nat
        BY <1>1
      <3>4. QED  BY <3>1, <3>2, <3>3, SMTT(30)
    <2>2. QED  BY <1>1, <2>1
  <1>6. ASSUME NEW d \in Conn, st'[<<d, "dial">>] = "none"
        PROVE  /\ st'[<<d, "accept">>] = "none"
               /\ \A i \in 1 .. Len(backlog') : backlog'[i] # d
    <2>1. d # c /\ st[<<d, "dial">>] = "none"
      BY <1>2, <1>6
    <2>2. st[<<d, "accept">>] = "none" /\ \A i \in 1 .. Len(backlog) : backlog[i] # d
      BY <2>1 DEF BacklogInv
    <2>3. ASSUME NEW i \in 1 .. Len(backlog) + 1 PROVE backlog'[i] # d
      <3>1. CASE i \in 1 .. Len(backlog)
        BY <1>1, <2>2, <3>1
      <3>2. CASE i = Len(backlog) + 1
        BY <1>1, <2>1, <3>2
      <3>3. Len(backlog) \in Nat
        BY <1>1
      <3>4. QED  BY <3>1, <3>2, <3>3
    <2>4. QED  BY <1>1, <1>2, <2>2, <2>3
  <1>7. QED  BY <1>4, <1>5, <1>6 DEF BacklogInv

(* The first one leaves it.                                                *)
LEMMA LeaveBacklog ==
  ASSUME TypeOK, BacklogInv, backlog # <<>>, backlog' = Tail(backlog), NEW s,
         st' = [st EXCEPT ![<<Head(backlog), "accept">>] = s]
  PROVE  BacklogInv' /\ st[<<Head(backlog), "accept">>] = "none" /\ Head(backlog) \in Conn
  <1>1. /\ backlog \in Seq(Conn) /\ Len(backlog) \in Nat \ {0} /\ Len(backlog') = Len(backlog) - 1
        /\ \A i \in 1 .. Len(backlog) : backlog[i] \in Conn
        /\ \A i \in 1 .. Len(backlog) - 1 : backlog'[i] = backlog[i + 1]
        /\ Head(backlog) = backlog[1] /\ Head(backlog) \in Conn
    BY DEF TypeOK
  <1> DEFINE c == Head(backlog)
  <1>2. \A d \in Conn : /\ st'[<<d, "dial">>] = st[<<d, "dial">>]
                        /\ d # c => st'[<<d, "accept">>] = st[<<d, "accept">>]
    BY <1>1, OtherFacts DEF TypeOK
  <1>3. st[<<c, "accept">>] = "none" /\ 1 \in 1 .. Len(backlog)
    BY <1>1 DEF BacklogInv
  <1>4. \A i \in 1 .. Len(backlog) - 1 :
          i + 1 \in 1 .. Len(backlog) /\ i + 1 # 1 /\ backlog[i + 1] # c
    BY <1>1, <1>3 DEF BacklogInv
  <1>5. ASSUME NEW i \in 1 .. Len(backlog'), NEW j \in 1 .. Len(backlog'), backlog'[i] = backlog'[j]
        PROVE  i = j
    <2>1. i + 1 \in 1 .. Len(backlog) /\ j + 1 \in 1 .. Len(backlog) /\ backlog[i + 1] = backlog[j + 1]
      BY <1>1, <1>5
    <2>2. i + 1 = j + 1
      BY <2>1 DEF BacklogInv
    <2>3. QED  BY <1>1, <2>2
  <1>6. ASSUME NEW i \in 1 .. Len(backlog') PROVE st'[<<backlog'[i], "accept">>] = "none"
    <2>1. backlog'[i] = backlog[i + 1] /\ i + 1 \in 1 .. Len(backlog) /\ backlog[i + 1] # c
      BY <1>1, <1>4
    <2>2. st[<<backlog[i + 1], "accept">>] = "none" /\ backlog[i + 1] \in Conn
      BY <1>1, <2>1 DEF BacklogInv
    <2>3. QED  BY <1>2, <2>1, <2>2
  <1>7. ASSUME NEW d \in Conn, st'[<<d, "dial">>] = "none"
        PROVE  /\ st'[<<d, "accept">>] = "none"
               /\ \A i \in 1 .. Len(backlog') : backlog'[i] # d
    <2>1. /\ st[<<d, "accept">>] = "none"
          /\ \A i \in 1 .. Len(backlog) : backlog[i] # d
      BY <1>2, <1>7 DEF BacklogInv
    <2>2. d # c
      BY <1>1, <1>3, <2>1
    <2>3. \A i \in 1 .. Len(backlog) - 1 : backlog'[i] # d
      BY <1>1, <1>4, <2>1
    <2>4. QED  BY <1>1, <1>2, <2>1, <2>2, <2>3
  <1>8. QED  BY <1>1, <1>3, <1>5, <1>6, <1>7 DEF BacklogInv

LEMMA DialInv ==
  ASSUME TypeOK, StreamInv, NEW c \in Conn, DialForm(c)
  PROVE  StreamInv'
  <1> DEFINE e == <<c, "dial">>
  <1>1. e \in End /\ BacklogInv /\ PhaseInv /\ FlowInv /\ PeerInv
    BY OtherFacts DEF StreamInv
  <1>2. CASE DialErr(c)
    <2>1. /\ st[e] = "none" /\ Enter(e, "closed") /\ UNCHANGED <<setup, broken, ioVars, backlog>>
          /\ st' = [st EXCEPT ![e] = "closed"]
      BY <1>2 DEF DialErr, Enter, lVars
    <2>2. FlowInv' /\ PhaseInv' /\ PeerInv'
      BY <1>1, <2>1, EnterFlow, EnterPhase
    <2>3. BacklogInv'
      <3>1. \A d \in Conn : /\ st'[<<d, "accept">>] = st[<<d, "accept">>]
                            /\ st'[<<d, "dial">>] = "none" => st[<<d, "dial">>] = "none"
        BY <1>1, <2>1, OtherFacts DEF TypeOK
      <3>2. /\ backlog' = backlog /\ \A i \in 1 .. Len(backlog) : backlog[i] \in Conn
        BY <2>1 DEF TypeOK
      <3>3. QED  BY <1>1, <3>1, <3>2 DEF BacklogInv
    <2>4. QED  BY <2>2, <2>3 DEF StreamInv
  <1>3. ASSUME NEW s \in {"tls", "write", "closed"}, Connect(c, s),
               s = "tls" => kind = "tls", s = "write" => kind # "tls"
        PROVE  StreamInv'
    <2>1. /\ st[e] = "none" /\ Enter(e, s) /\ UNCHANGED <<setup, broken, ioVars>>
          /\ backlog' = Append(backlog, c) /\ st' = [st EXCEPT ![e] = s]
      BY <1>3 DEF Connect, Enter
    <2>2. FlowInv' /\ PhaseInv' /\ PeerInv'
      BY <1>1, <1>3, <2>1, EnterFlow, EnterPhase
    <2>3. s \in States \ {"none"}
      BY DEF States
    <2>4. BacklogInv'
      BY <1>1, <2>1, <2>3, JoinBacklog
    <2>5. QED  BY <2>2, <2>4 DEF StreamInv
  <1>4. QED  BY <1>2, <1>3 DEF DialForm

LEMMA AcceptInv ==
  ASSUME TypeOK, StreamInv, AcceptForm
  PROVE  StreamInv'
  <1> DEFINE e == <<Head(backlog), "accept">>
  <1>1. BacklogInv /\ PhaseInv /\ FlowInv /\ PeerInv
    BY DEF StreamInv
  <1>2. PICK s \in {"tls", "write", "closed"} :
          Take(s) /\ (s = "tls" => kind = "tls") /\ (s = "write" => kind # "tls")
    BY DEF AcceptForm
  <1>3. /\ backlog # <<>> /\ backlog' = Tail(backlog) /\ Enter(e, s)
        /\ UNCHANGED <<setup, broken, ioVars>> /\ st' = [st EXCEPT ![e] = s]
    BY <1>2 DEF Take, Enter
  <1>4. BacklogInv' /\ st[e] = "none" /\ Head(backlog) \in Conn
    BY <1>1, <1>3, LeaveBacklog
  <1>5. e \in End
    BY <1>4, OtherFacts
  <1>6. FlowInv' /\ PhaseInv' /\ PeerInv'
    BY <1>1, <1>2, <1>3, <1>4, <1>5, EnterFlow, EnterPhase
  <1>7. QED  BY <1>4, <1>6 DEF StreamInv

(* A step that does nothing to the named ends, except to break connections.*)
LEMMA OutsideStep ==
  ASSUME TypeOK, FlowInv, PhaseInv, PeerInv, UNCHANGED <<setup, ioVars>>, broken \subseteq broken',
         \A g \in End : Named(g) => UNCHANGED <<st[g], inb[g]>>,
         \A g \in End : ~Named(g) => \/ st'[g] = st[g] \/ st'[g] = "closed"
                                     \/ st[g] = "none" /\ st'[g] = "stranger",
         \A g \in End : st[g] = "closed" => st'[g] = "closed"
  PROVE  FlowInv' /\ PhaseInv' /\ PeerInv'
  <1>1. /\ UNCHANGED <<setup, out, reading, rd, sent, rcvd>> /\ kind' = kind
        /\ \A g : Named(g)' = Named(g) /\ Number(g)' = Number(g) /\ PeerNumber(g)' = PeerNumber(g)
    BY SetupStays DEF ioVars
  <1>2. \A g \in End : Other(g) \in End /\ (Named(Other(g)) = Named(g))
    BY OtherFacts DEF Named
  <1>3. ASSUME NEW g \in End, Named(g)' PROVE \E q : Along(g, Other(g), q)'
    <2>1. PICK p : Along(g, Other(g), p)
      BY <1>1, <1>3 DEF FlowInv
    <2>2. UNCHANGED <<st[g], st[Other(g)], inb[g]>>
      BY <1>1, <1>2, <1>3
    <2>3. KeepsRead(g) /\ KeepsWrite(Other(g))
      BY <1>1 DEF KeepsRead, KeepsWrite
    <2>4. Along(g, Other(g), p)'
      BY <1>1, <2>1, <2>2, <2>3, Still
    <2>5. QED  BY <2>4
  <1>4. ASSUME NEW g \in End
        PROVE  /\ st'[g] = "tls" => kind' = "tls"
               /\ st'[g] = "stranger" => ~Named(g)'
               /\ st'[g] = "lost" => Cut(g)'
               /\ st'[g] \notin {"open", "closed"} => Blank(g)'
               /\ reading'[g] = FALSE => rd'[g] = <<>>
    <2>1. CASE st'[g] = st[g]
      <3>1. Alike(g) /\ (st[Other(g)] = "closed" => st'[Other(g)] = "closed")
        BY <1>1, <1>2, <2>1 DEF Alike
      <3>2. QED  BY <1>1, <3>1, PhaseKept
    <2>2. CASE st'[g] # st[g]
      <3>1. ~Named(g) /\ (st'[g] = "closed" \/ (st[g] = "none" /\ st'[g] = "stranger"))
        BY <2>2
      <3>2. reading'[g] = FALSE => rd'[g] = <<>>
        BY <1>1 DEF PhaseInv
      <3>3. st'[g] = "stranger" => Blank(g)'
        <4>1. SUFFICES ASSUME st'[g] = "stranger" PROVE Blank(g)'
          OBVIOUS
        <4>2. st[g] = "none"
          BY <2>2, <3>1, <4>1
        <4>3. Blank(g)
          BY <4>2 DEF PhaseInv
        <4>4. QED  BY <1>1, <4>3 DEF Blank
      <3>4. QED  BY <1>1, <3>1, <3>2, <3>3
    <2>3. QED  BY <2>1, <2>2
  <1>5. ASSUME NEW g \in End, Named(g)', st'[g] = "open"
        PROVE  Number(Other(g))' = PeerNumber(g)'
    BY <1>1, <1>5 DEF PeerInv
  <1>6. QED  BY <1>3, <1>4, <1>5 DEF FlowInv, PhaseInv, PeerInv

LEMMA NetworkInv ==
  ASSUME TypeOK, StreamInv, NEW c \in Conn,
         Break(c) \/ StrangerCalls(c) \/ StrangerTalks(c) \/ StrangerLeaves(c)
  PROVE  StreamInv'
  <1> DEFINE e == <<c, "dial">>
             a == <<c, "accept">>
  <1>1. BacklogInv /\ PhaseInv /\ FlowInv /\ PeerInv
    BY DEF StreamInv
  <1>2. /\ e \in End /\ a \in End /\ Other(a) = e /\ Other(e) = a /\ e # a
        /\ e[1] = c /\ a[1] = c
    BY OtherFacts
  <1>3. CASE Break(c)
    <2>1. UNCHANGED <<setup, backlog, st, inb, ioVars>> /\ broken \subseteq broken'
      BY <1>3 DEF Break, lVars
    <2>2. FlowInv' /\ PhaseInv' /\ PeerInv'
      BY <1>1, <2>1, OutsideStep
    <2>3. BacklogInv'
      BY <1>1, <2>1 DEF BacklogInv
    <2>4. QED  BY <2>2, <2>3 DEF StreamInv
  <1>4. CASE StrangerCalls(c)
    <2>1. /\ UNCHANGED <<setup, broken, inb, ioVars>> /\ who[c] = "stranger" /\ st[e] = "none"
          /\ st' = [st EXCEPT ![e] = "stranger"] /\ backlog' = Append(backlog, c)
      BY <1>4 DEF StrangerCalls
    <2>2. ~Named(e) /\ \A g \in End : g # e => st'[g] = st[g]
      BY <1>2, <2>1 DEF Named, TypeOK
    <2>3. st'[e] = "stranger"
      BY <1>2, <2>1 DEF TypeOK
    <2>4. FlowInv' /\ PhaseInv' /\ PeerInv'
      <3>1. \A g \in End : Named(g) => UNCHANGED <<st[g], inb[g]>>
        BY <2>1, <2>2
      <3>2. \A g \in End : \/ st'[g] = st[g]
                           \/ st[g] = "none" /\ st'[g] = "stranger"
        BY <2>1, <2>2, <2>3
      <3>3. \A g \in End : st[g] = "closed" => st'[g] = "closed"
        BY <3>2
      <3>4. QED  BY <1>1, <2>1, <3>1, <3>2, <3>3, OutsideStep
    <2>5. "stranger" \in States \ {"none"}
      BY DEF States
    <2>6. BacklogInv'
      BY <1>1, <2>1, <2>5, JoinBacklog
    <2>7. QED  BY <2>4, <2>6 DEF StreamInv
  <1>5. CASE StrangerTalks(c)
    <2>1. PICK t : inb' = [inb EXCEPT ![a] = Append(@, t)]
      BY <1>2, <1>5 DEF StrangerTalks
    <2>2. UNCHANGED <<setup, broken, backlog, st, ioVars>> /\ st[Other(a)] = "stranger"
      BY <1>5 DEF StrangerTalks, lVars
    <2>3. ~Named(e)
      BY <1>1, <1>2, <2>2 DEF PhaseInv
    <2>4. ~Named(a)
      BY <1>2, <2>3 DEF Named
    <2>5. \A g \in End : Named(g) => UNCHANGED <<st[g], inb[g]>>
      BY <2>1, <2>2, <2>4 DEF TypeOK
    <2>6. FlowInv' /\ PhaseInv' /\ PeerInv'
      BY <1>1, <2>2, <2>5, OutsideStep
    <2>7. BacklogInv'
      BY <1>1, <2>2 DEF BacklogInv
    <2>8. QED  BY <2>6, <2>7 DEF StreamInv
  <1>6. CASE StrangerLeaves(c)
    <2>1. /\ UNCHANGED <<setup, broken, backlog, inb, ioVars>> /\ st[e] = "stranger"
          /\ st' = [st EXCEPT ![e] = "closed"]
      BY <1>6 DEF StrangerLeaves, lVars
    <2>2. ~Named(e)
      BY <1>1, <1>2, <2>1 DEF PhaseInv
    <2>3. st'[e] = "closed" /\ \A g \in End : g # e => st'[g] = st[g]
      BY <1>2, <2>1 DEF TypeOK
    <2>4. FlowInv' /\ PhaseInv' /\ PeerInv'
      <3>1. \A g \in End : Named(g) => UNCHANGED <<st[g], inb[g]>>
        BY <2>1, <2>2, <2>3
      <3>2. \A g \in End : st'[g] = st[g] \/ st'[g] = "closed"
        BY <2>3
      <3>3. \A g \in End : st[g] = "closed" => st'[g] = "closed"
        BY <3>2
      <3>4. QED  BY <1>1, <2>1, <3>1, <3>2, <3>3, OutsideStep
    <2>5. BacklogInv'
      <3>1. \A d \in Conn : /\ st'[<<d, "accept">>] = st[<<d, "accept">>]
                            /\ st'[<<d, "dial">>] = "none" => st[<<d, "dial">>] = "none"
        BY <1>2, <2>1, OtherFacts DEF TypeOK
      <3>2. /\ backlog' = backlog /\ \A i \in 1 .. Len(backlog) : backlog[i] \in Conn
        BY <2>1 DEF TypeOK
      <3>3. QED  BY <1>1, <3>1, <3>2 DEF BacklogInv
    <2>6. QED  BY <2>4, <2>5 DEF StreamInv
  <1>7. QED  BY <1>3, <1>4, <1>5, <1>6

LEMMA ListenInvs ==
  ASSUME TypeOK, StreamInv, ListenForm \/ UNCHANGED vars
  PROVE  StreamInv'
  <1>1. BacklogInv /\ PhaseInv /\ FlowInv /\ PeerInv
    BY DEF StreamInv
  <1>2. UNCHANGED <<setup, st, inb, ioVars>> /\ broken \subseteq broken'
    BY DEF ListenForm, SetTLSConfig, Listen, CloseListener, vars
  <1>3. FlowInv' /\ PhaseInv' /\ PeerInv'
    BY <1>1, <1>2, OutsideStep
  <1>4. backlog' = backlog \/ backlog' = <<>>
    BY DEF ListenForm, SetTLSConfig, Listen, CloseListener, vars, lVars
  <1>5. BacklogInv'
    <2>1. CASE backlog' = backlog
      BY <1>1, <1>2, <2>1 DEF BacklogInv
    <2>2. CASE backlog' = <<>>
      BY <1>1, <1>2, <2>2 DEF BacklogInv
    <2>3. QED  BY <1>4, <2>1, <2>2
  <1>6. QED  BY <1>3, <1>5 DEF StreamInv

LEMMA StreamStepInv == TypeOK /\ StreamInv /\ [Next]_vars => StreamInv'
  <1> SUFFICES ASSUME TypeOK, StreamInv, [Next]_vars PROVE StreamInv'
    OBVIOUS
  <1>1. CASE \E c \in Conn : Dial(c)
    BY <1>1, Forms, DialInv
  <1>2. CASE Accept
    BY <1>2, Forms, AcceptInv
  <1>3. CASE ListenForm \/ UNCHANGED vars
    BY <1>3, ListenInvs
  <1>4. CASE \E c \in Conn : Break(c) \/ StrangerCalls(c) \/ StrangerTalks(c) \/ StrangerLeaves(c)
    BY <1>4, NetworkInv
  <1>5. ASSUME NEW e \in End, LocalStep(e) PROVE StreamInv'
    BY <1>5, LocalFlow, LocalPeer, LocalBacklog, LocalPhase DEF StreamInv
  <1>6. ASSUME NEW e \in End,
               \/ ShakeStep(e) \/ EndClose(e)
               \/ SendExpired(e) \/ (\E n \in Sizes : SendStart(e, n))
               \/ SendStep(e) \/ RecvStart(e) \/ RecvStep(e)
        PROVE  StreamInv'
    BY <1>5, <1>6 DEF LocalStep
  <1>7. QED  BY <1>1, <1>2, <1>3, <1>4, <1>6, ListenForms DEF Next

LEMMA StreamInitInv == Init => StreamInv
  <1> SUFFICES ASSUME Init PROVE StreamInv
    OBVIOUS
  <1>1. TypeOK
    BY StreamInitType
  <1>2. Len(<<>>) = 0
    OBVIOUS
  <1>3. BacklogInv
    <2>1. backlog = <<>> /\ \A c \in Conn : st[<<c, "accept">>] = "none"
      BY OtherFacts DEF Init
    <2>2. Len(backlog) = 0 /\ 1 .. 0 = {}
      BY <1>2, <2>1
    <2>3. QED  BY <2>1, <2>2 DEF BacklogInv
  <1>4. ASSUME NEW e \in End
        PROVE  /\ st[e] = "none" /\ inb[e] = <<>> /\ out[e] = <<>> /\ reading[e] = FALSE
               /\ rd[e] = <<>> /\ sent[e] = <<>> /\ rcvd[e] = <<>>
    BY DEF Init
  <1>5. PhaseInv /\ PeerInv
    BY <1>4 DEF PhaseInv, PeerInv, Blank
  <1>6. ASSUME NEW e \in End PROVE \E p : Along(e, Other(e), p)
    <2> DEFINE f == Other(e)
               p == [k \in 0 .. 0 |-> 0]
    <2>1. f \in End
      BY OtherFacts
    <2>2. p \in [0 .. 0 -> Nat] /\ p[0] = 0
      OBVIOUS
    <2>3. /\ Len(sent[f]) = 0 /\ Len(out[f]) = 0 /\ Len(inb[e]) = 0 /\ Len(rd[e]) = 0
          /\ Len(rcvd[e]) = 0 /\ st[e] = "none" /\ st[f] = "none"
      BY <1>2, <1>4, <2>1
    <2>4. SizeAt \in {1, 2} /\ p[Len(sent[f])] = 0
      BY <1>1, <2>2, <2>3, SetupFacts
    <2> HIDE DEF f, p
    <2>5. Split(SizeAt, sent[f], p)
      BY <2>2, <2>3 DEF Split
    <2>6. RcvdFine(maxrx(e), sent[f], rcvd[e])
      BY <2>3 DEF RcvdFine
    <2>7. RdFine(SizeAt, maxrx(e), sent[f], rcvd[e], rd[e])
      BY <2>3, <2>4 DEF RdFine
    <2>8. ReadAt(e, p) \in {-1, 0} /\ WriteAt(f, p) = ReadAt(e, p)
      BY <2>3 DEF ReadAt, WriteAt
    <2>9. InFine(SizeAt, connHeader(f), sent[f], p, ReadAt(e, p), inb[e])
      BY <2>3, <2>4, <2>8 DEF InFine
    <2>10. OutFine(SizeAt, connHeader(f), sent[f], p, out[f])
      BY <2>3, <2>4 DEF OutFine
    <2>11. ReadAt(e, p) + Len(inb[e]) = WriteAt(f, p)
      BY <2>3, <2>8
    <2>12. Along(e, f, p)
      BY <2>5, <2>6, <2>7, <2>9, <2>10, <2>11 DEF Along
    <2>13. QED  BY <2>12 DEF f
  <1>7. QED  BY <1>3, <1>5, <1>6 DEF StreamInv, FlowInv

-----------------------------------------------------------------------------
(* Stream: the theorems.                                                   *)

(* Every variable of a stream transport keeps its type, and the invariant  *)
(* holds: what is on its way in each direction of a connection is what the *)
(* other end has written, in its place (conn.Send, conn.Recv, handshake).  *)
THEOREM StreamTypeCorrect == SafeSpec => [](TypeOK /\ StreamInv)
  <1>1. Init => TypeOK /\ StreamInv
    BY StreamInitType, StreamInitInv
  <1>2. TypeOK /\ StreamInv /\ [Next]_vars => (TypeOK /\ StreamInv)'
    BY StreamStepType, StreamStepInv
  <1>3. QED  BY <1>1, <1>2, PTL DEF SafeSpec

LEMMA InvAgrees == TypeOK /\ StreamInv => HandshakeAgrees
  <1> SUFFICES ASSUME TypeOK, StreamInv PROVE HandshakeAgrees
    OBVIOUS
  <1>1. ASSUME NEW e \in End
        PROVE  /\ (st[e] = "open" /\ who[e[1]] # "stranger") => Number(Other(e)) = PeerNumber(e)
               /\ st[e] = "lost" => Cut(e)
    BY DEF StreamInv, PhaseInv, PeerInv, Named
  <1>2. QED  BY <1>1 DEF HandshakeAgrees

(* An end that Dial or Accept hands out has the peer that its protocol     *)
(* expects, and one that is given up without a Close leaves nobody waiting *)
(* (handshake).                                                            *)
THEOREM EndsAgree == SafeSpec => []HandshakeAgrees
  BY StreamTypeCorrect, InvAgrees, PTL

LEMMA InvFramed == TypeOK /\ StreamInv => Framed
  <1> SUFFICES ASSUME TypeOK, StreamInv, NEW e \in End, who[e[1]] # "stranger"
               PROVE  /\ IsPrefix(rcvd[e], sent[Other(e)])
                      /\ \A i \in DOMAIN rcvd[e] : maxrx(e) > 0 => Len(rcvd[e][i]) <= maxrx(e)
    BY DEF Framed
  <1> DEFINE v == rcvd[e]
             s == sent[Other(e)]
  <1>1. PICK p : Along(e, Other(e), p)
    BY DEF StreamInv, FlowInv, Named
  <1>2. RcvdFine(maxrx(e), s, v)
    BY <1>1 DEF Along
  <1>3. /\ v \in Seq(Seq(TokenSet)) /\ s \in Seq(Seq(TokenSet))
        /\ Len(v) \in Nat /\ Len(s) \in Nat /\ DOMAIN v = 1 .. Len(v)
    BY OtherFacts, StateTypes
  <1> HIDE DEF v, s
  <1>4. Len(v) <= Len(s) /\ \A k \in 1 .. Len(v) : v[k] = s[k] /\ s[k] \in Seq(TokenSet)
    BY <1>2, <1>3 DEF RcvdFine
  <1>5. /\ SubSeq(s, 1, Len(v)) \in Seq(Seq(TokenSet)) /\ Len(SubSeq(s, 1, Len(v))) = Len(v)
        /\ \A k \in 1 .. Len(v) : SubSeq(s, 1, Len(v))[k] = s[k]
    <2>1. \A k \in 1 .. Len(v) : s[k] \in Seq(TokenSet)
      BY <1>4
    <2>2. 1 \in Int /\ Len(v) \in Int
      BY <1>3
    <2>3. /\ SubSeq(s, 1, Len(v)) \in Seq(Seq(TokenSet))
          /\ Len(SubSeq(s, 1, Len(v))) = IF 1 <= Len(v) THEN Len(v) - 1 + 1 ELSE 0
          /\ \A k \in 1 .. Len(v) - 1 + 1 : SubSeq(s, 1, Len(v))[k] = s[1 + k - 1]
      BY <2>1, <2>2, SubSeqProperties
    <2>4. Len(v) - 1 + 1 = Len(v) /\ \A k \in 1 .. Len(v) : 1 + k - 1 = k
      BY <1>3
    <2>5. QED  BY <1>3, <2>3, <2>4
  <1>6. v = SubSeq(s, 1, Len(v))
    BY <1>3, <1>4, <1>5, SeqEqual
  <1>7. SubSeq(v, 1, Len(v)) = v
    BY <1>3, SubSeqFull
  <1>8. IsPrefix(v, s)
    BY <1>4, <1>6, <1>7 DEF IsPrefix
  <1>9. \A i \in DOMAIN v : maxrx(e) > 0 => Len(v[i]) <= maxrx(e)
    BY <1>2, <1>3 DEF RcvdFine
  <1>10. QED  BY <1>8, <1>9 DEF v, s

(* What an end receives is what the other end has sent, message by message *)
(* from the first one on, and none is longer than OptionMaxRecvSize allows *)
(* (conn.Send, conn.Recv, pipe.SendMsg, pipe.RecvMsg).                     *)
THEOREM MessagesFramed == SafeSpec => []Framed
  BY StreamTypeCorrect, InvFramed, PTL

=============================================================================
