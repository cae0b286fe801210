---------------------------- MODULE LingerProofs ----------------------------
(***************************************************************************)
(* What is proved about the way out of a broadcasting socket (Linger), for *)
(* any number of threads, peers and messages, and queues of any length:    *)
(* the type invariant, what Close delivers within its linger time, and the *)
(* reference counts.                                                       *)
(***************************************************************************)
EXTENDS Linger, FiniteSetTheorems, TLAPS

Elems(s) == {s[i] : i \in 1 .. Len(s)}

(* The sender has a message from the moment it takes it until it has       *)
(* offered it to all, and its waiter counts it until it returns.           *)
SenderInv ==
  /\ spc = "cast" <=> sm # 0
  /\ cnt = IF spc = "exit" THEN 0 ELSE 1

(* Where a message is that was accepted before Close.                      *)
AcceptInv ==
  /\ \A m \in Msg : acc[m] <= gen
  /\ \A m \in Msg : acc[m] # 0 => m \in cast \/ m = sm \/ m \in Elems(uwq[acc[m]])

(* How far the messages of the last queue are when Close is.               *)
CloseInv ==
  /\ cgen <= gen
  /\ cpc = "drain1" => \A m \in Msg : acc[m] <= cgen
  /\ closed /\ ~expired => \A m \in Msg : acc[m] = gen => m \in cast \/ m = sm
  /\ cpc \in {"shutdown", "sweep", "done"} /\ ~expired => spc = "exit"

(* What a connected peer was promised is sent or still on its way.         *)
PeerInv ==
  \A p \in Pipe :
    /\ up[p] # "closed" => owed[p] \subseteq sent[p] \union Elems(q[p]) \union {hand[p]}
    /\ up[p] = "up" /\ cpc \notin {"shutdown", "sweep", "done"} => p \in eps
    /\ /\ up[p] = "up" /\ ~expired
       /\ cpc \in {"sweep", "done"} \/ (cpc = "shutdown" /\ p \notin left)
       => q[p] = <<>>

DeliverInv == SenderInv /\ AcceptInv /\ CloseInv /\ PeerInv

-----------------------------------------------------------------------------
(* A message that is not yet accepted is nowhere.                          *)
FreshInv ==
  /\ sm <= nmsg
  /\ \A g \in Gen : \A m \in Elems(uwq[g]) : m <= nmsg
  /\ \A p \in Pipe : hand[p] <= nmsg /\ \A m \in Elems(q[p]) : m <= nmsg

Places(f, m) == UNION {{<<x, i>> : i \in {k \in 1 .. Len(f[x]) : f[x][k] = m}} : x \in DOMAIN f}

Hands(m) == {p \in Pipe : hand[p] = m}

(* RefsHeld, in parts.                                                     *)
RefInv ==
  \A m \in Msg :
    refs[m] = Cardinality(Places(uwq, m)) + Cardinality(Places(q, m)) + Cardinality(Hands(m))
              + (IF sm = m THEN 1 ELSE 0)

-----------------------------------------------------------------------------
(* Lemmas about queues.                                                    *)

LEMMA QueueType ==
  ASSUME NEW S, NEW s \in Seq(S)
  PROVE  /\ s # <<>> => Head(s) \in S /\ Tail(s) \in Seq(S) /\ Len(Tail(s)) = Len(s) - 1
         /\ \A m \in S : Append(s, m) \in Seq(S) /\ Len(Append(s, m)) = Len(s) + 1
         /\ Len(s) \in Nat
  OBVIOUS

LEMMA EmptyQueue == \A S : <<>> \in Seq(S) /\ Len(<<>>) = 0 /\ Elems(<<>>) = {}
  BY DEF Elems

LEMMA TakesOut ==
  ASSUME NEW S, NEW s \in Seq(S), s # <<>>
  PROVE  Elems(s) = {Head(s)} \union Elems(Tail(s))
  <1>1. /\ Len(s) \in Nat /\ Len(s) >= 1 /\ Head(s) = s[1] /\ Len(Tail(s)) = Len(s) - 1
        /\ \A i \in 1 .. Len(s) - 1 : Tail(s)[i] = s[i + 1] /\ i + 1 \in 1 .. Len(s)
        /\ \A i \in 1 .. Len(s) : i = 1 \/ (i - 1 \in 1 .. Len(s) - 1 /\ (i - 1) + 1 = i)
    OBVIOUS
  <1>2. Elems(s) \subseteq {Head(s)} \union Elems(Tail(s))
    <2>1. ASSUME NEW i \in 1 .. Len(s), i # 1 PROVE s[i] \in Elems(Tail(s))
      <3>1. PICK j \in 1 .. Len(s) - 1 : j + 1 = i
        BY <1>1, <2>1
      <3> QED
        BY <1>1, <3>1 DEF Elems
    <2> QED
      BY <1>1, <2>1 DEF Elems
  <1>3. Elems(Tail(s)) \subseteq Elems(s) /\ Head(s) \in Elems(s)
    BY <1>1 DEF Elems
  <1> QED
    BY <1>2, <1>3

LEMMA PutsIn ==
  ASSUME NEW S, NEW s \in Seq(S), NEW m \in S
  PROVE  Elems(Append(s, m)) = Elems(s) \union {m}
  <1>1. /\ Len(s) \in Nat /\ Len(Append(s, m)) = Len(s) + 1 /\ Append(s, m)[Len(s) + 1] = m
        /\ \A i \in 1 .. Len(s) : Append(s, m)[i] = s[i]
        /\ \A i \in 1 .. Len(s) + 1 : i \in 1 .. Len(s) \/ i = Len(s) + 1
        /\ 1 .. Len(s) \subseteq 1 .. Len(s) + 1 /\ Len(s) + 1 \in 1 .. Len(s) + 1
    OBVIOUS
  <1>2. Elems(Append(s, m)) \subseteq Elems(s) \union {m}
    BY <1>1 DEF Elems
  <1>3. Elems(s) \union {m} \subseteq Elems(Append(s, m))
    BY <1>1 DEF Elems
  <1> QED
    BY <1>2, <1>3

-----------------------------------------------------------------------------
(* Lemmas about the places that hold a message, in a family of queues.     *)

Queues(D) == [D -> Seq(Msg)]

(* From f to g, the message k was appended to the queues of T.             *)
Appended(f, g, D, T, k) == \A x \in D : g[x] = IF x \in T THEN Append(f[x], k) ELSE f[x]

(* From f to g, a message was taken off the queue of y.                    *)
TakenOff(f, g, D, y) == \A x \in D : g[x] = IF x = y THEN Tail(f[x]) ELSE f[x]

LEMMA PlacesAre ==
  ASSUME NEW S, NEW D, NEW f \in [D -> Seq(S)], NEW m
  PROVE  /\ \A x \in D : \A i \in 1 .. Len(f[x]) : f[x][i] = m => <<x, i>> \in Places(f, m)
         /\ \A pl \in Places(f, m) :
              /\ pl = <<pl[1], pl[2]>> /\ pl[1] \in D /\ pl[2] \in 1 .. Len(f[pl[1]])
              /\ f[pl[1]][pl[2]] = m
  BY DEF Places

LEMMA PlacesFinite ==
  ASSUME NEW S, NEW D, NEW f \in [D -> Seq(S)], NEW m, IsFiniteSet(D),
         NEW n \in Nat, \A x \in D : Len(f[x]) <= n
  PROVE  IsFiniteSet(Places(f, m)) /\ Cardinality(Places(f, m)) \in Nat
  <1>1. IsFiniteSet(1 .. n)
    BY FS_Interval
  <1>2. IsFiniteSet(D \X (1 .. n))
    BY <1>1, FS_Product
  <1>3. Places(f, m) \subseteq D \X (1 .. n)
    <2> SUFFICES ASSUME NEW pl \in Places(f, m) PROVE pl \in D \X (1 .. n)
      OBVIOUS
    <2>1. /\ pl = <<pl[1], pl[2]>> /\ pl[1] \in D /\ pl[2] \in 1 .. Len(f[pl[1]])
      BY PlacesAre
    <2>2. Len(f[pl[1]]) \in Nat /\ Len(f[pl[1]]) <= n
      BY <2>1
    <2>3. pl[2] \in 1 .. n
      BY <2>1, <2>2
    <2> QED
      BY <2>1, <2>3
  <1> QED
    BY <1>2, <1>3, FS_Subset, FS_CardinalityType

LEMMA PlacesAppend ==
  ASSUME NEW D, NEW f \in Queues(D), NEW g \in Queues(D), NEW m, NEW k \in Msg,
         NEW T \in SUBSET D, IsFiniteSet(T), IsFiniteSet(Places(f, m)),
         Appended(f, g, D, T, k)
  PROVE  Cardinality(Places(g, m)) =
           Cardinality(Places(f, m)) + (IF k = m THEN Cardinality(T) ELSE 0)
  <1> USE DEF Queues, Appended
  <1> DEFINE N == {<<x, Len(f[x]) + 1>> : x \in T}
             h == [x \in T |-> <<x, Len(f[x]) + 1>>]
  <1>8. /\ \A x \in D : \A i \in 1 .. Len(f[x]) : f[x][i] = m => <<x, i>> \in Places(f, m)
        /\ \A pl \in Places(f, m) :
             /\ pl = <<pl[1], pl[2]>> /\ pl[1] \in D /\ pl[2] \in 1 .. Len(f[pl[1]])
             /\ f[pl[1]][pl[2]] = m
    BY PlacesAre, SMTT(30)
  <1>9. /\ \A x \in D : \A i \in 1 .. Len(g[x]) : g[x][i] = m => <<x, i>> \in Places(g, m)
        /\ \A pl \in Places(g, m) :
             /\ pl = <<pl[1], pl[2]>> /\ pl[1] \in D /\ pl[2] \in 1 .. Len(g[pl[1]])
             /\ g[pl[1]][pl[2]] = m
    BY DEF Places
  <1>1. \A x \in D :
          /\ Len(f[x]) \in Nat
          /\ x \notin T => g[x] = f[x]
          /\ x \in T => /\ Len(g[x]) = Len(f[x]) + 1 /\ g[x][Len(f[x]) + 1] = k
                        /\ \A i \in 1 .. Len(f[x]) : g[x][i] = f[x][i]
    <2> SUFFICES ASSUME NEW x \in D
                 PROVE  /\ Len(f[x]) \in Nat
                        /\ x \notin T => g[x] = f[x]
                        /\ x \in T => /\ Len(g[x]) = Len(f[x]) + 1 /\ g[x][Len(f[x]) + 1] = k
                                      /\ \A i \in 1 .. Len(f[x]) : g[x][i] = f[x][i]
      OBVIOUS
    <2>1. f[x] \in Seq(Msg)
      OBVIOUS
    <2>2. /\ Len(f[x]) \in Nat /\ Len(Append(f[x], k)) = Len(f[x]) + 1
          /\ Append(f[x], k)[Len(f[x]) + 1] = k
          /\ \A i \in 1 .. Len(f[x]) : Append(f[x], k)[i] = f[x][i]
      BY <2>1
    <2> QED
      BY <2>2
  <1>2. h \in Bijection(T, N)
    BY DEF Bijection, Injection, Surjection, IsInjective
  <1>3. IsFiniteSet(N) /\ Cardinality(N) = Cardinality(T)
    BY <1>2, FS_Bijection DEF ExistsBijection
  <1>4. Places(f, m) \subseteq Places(g, m)
    <2> SUFFICES ASSUME NEW pl \in Places(f, m) PROVE pl \in Places(g, m)
      OBVIOUS
    <2>1. /\ pl = <<pl[1], pl[2]>> /\ pl[1] \in D /\ pl[2] \in 1 .. Len(f[pl[1]])
          /\ f[pl[1]][pl[2]] = m
      BY <1>8
    <2>2. pl[2] \in 1 .. Len(g[pl[1]]) /\ g[pl[1]][pl[2]] = m
      BY <1>1, <2>1
    <2> QED
      BY <1>9, <2>1, <2>2
  <1>5. \A pl \in Places(g, m) : pl \in Places(f, m) \/ (pl \in N /\ k = m)
    <2> SUFFICES ASSUME NEW pl \in Places(g, m) PROVE pl \in Places(f, m) \/ (pl \in N /\ k = m)
      OBVIOUS
    <2>1. /\ pl = <<pl[1], pl[2]>> /\ pl[1] \in D /\ pl[2] \in 1 .. Len(g[pl[1]])
          /\ g[pl[1]][pl[2]] = m
      BY <1>9
    <2>2. CASE pl[2] \in 1 .. Len(f[pl[1]])
      BY <1>1, <1>8, <2>1, <2>2
    <2>3. CASE pl[2] \notin 1 .. Len(f[pl[1]])
      <3>1. pl[1] \in T /\ pl[2] = Len(f[pl[1]]) + 1
        BY <1>1, <2>1, <2>3
      <3> QED
        BY <1>1, <2>1, <3>1
    <2> QED
      BY <2>2, <2>3
  <1>6. CASE k = m
    <2>1. N \subseteq Places(g, m)
      <3> SUFFICES ASSUME NEW x \in T PROVE <<x, Len(f[x]) + 1>> \in Places(g, m)
        OBVIOUS
      <3>1. Len(f[x]) + 1 \in 1 .. Len(g[x])
        BY <1>1
      <3> QED
        BY <1>1, <1>6, <1>9, <3>1
    <2>2. Places(g, m) = Places(f, m) \union N
      BY <1>4, <1>5, <2>1
    <2>3. Places(f, m) \intersect N = {}
      <3> SUFFICES ASSUME NEW x \in T, <<x, Len(f[x]) + 1>> \in Places(f, m) PROVE FALSE
        OBVIOUS
      <3>1. PICK pl \in Places(f, m) : pl = <<x, Len(f[x]) + 1>>
        OBVIOUS
      <3>2. pl[1] = x /\ pl[2] = Len(f[x]) + 1
        BY <3>1
      <3>3. Len(f[x]) + 1 \in 1 .. Len(f[x])
        BY <1>8, <3>2
      <3> QED
        BY <1>1, <3>3
    <2> HIDE DEF N
    <2>4. Cardinality(Places(f, m) \union N) =
            Cardinality(Places(f, m)) + Cardinality(N) - Cardinality(Places(f, m) \intersect N)
      BY <1>3, FS_Union
    <2>5. Cardinality(Places(f, m)) \in Nat /\ Cardinality(T) \in Nat
      BY FS_CardinalityType
    <2> QED
      <3>1. Cardinality(Places(f, m) \intersect N) = 0
        BY <2>3, FS_EmptySet
      <3>2. Cardinality(Places(g, m)) = Cardinality(Places(f, m)) + Cardinality(T) - 0
        BY <1>3, <2>2, <2>4, <3>1
      <3> QED
        BY <1>6, <2>5, <3>2
  <1>7. CASE k # m
    <2>1. Places(g, m) = Places(f, m)
      BY <1>4, <1>5, <1>7
    <2>2. Cardinality(Places(f, m)) \in Nat
      BY FS_CardinalityType
    <2> QED
      BY <1>7, <2>1, <2>2
  <1> QED
    BY <1>6, <1>7

LEMMA PlacesTail ==
  ASSUME NEW D, NEW f \in Queues(D), NEW g \in Queues(D), NEW m, NEW y \in D, f[y] # <<>>,
         TakenOff(f, g, D, y), IsFiniteSet(Places(f, m))
  PROVE  Cardinality(Places(f, m)) =
           Cardinality(Places(g, m)) + (IF Head(f[y]) = m THEN 1 ELSE 0)
  <1> USE DEF Queues, TakenOff
  <1> DEFINE V == Places(f, m) \ {<<y, 1>>}
             W == Places(g, m)
             h == [pl \in V |-> IF pl[1] = y THEN <<y, pl[2] - 1>> ELSE pl]
  <1>8. /\ \A x \in D : \A i \in 1 .. Len(f[x]) : f[x][i] = m => <<x, i>> \in Places(f, m)
        /\ \A pl \in Places(f, m) :
             /\ pl = <<pl[1], pl[2]>> /\ pl[1] \in D /\ pl[2] \in 1 .. Len(f[pl[1]])
             /\ f[pl[1]][pl[2]] = m
    BY DEF Places
  <1>9. /\ \A x \in D : \A i \in 1 .. Len(g[x]) : g[x][i] = m => <<x, i>> \in Places(g, m)
        /\ \A pl \in Places(g, m) :
             /\ pl = <<pl[1], pl[2]>> /\ pl[1] \in D /\ pl[2] \in 1 .. Len(g[pl[1]])
             /\ g[pl[1]][pl[2]] = m
    BY DEF Places
  <1>1. /\ Len(f[y]) \in Nat /\ Len(f[y]) >= 1 /\ Head(f[y]) = f[y][1]
        /\ Len(g[y]) = Len(f[y]) - 1 /\ \A i \in 1 .. Len(f[y]) - 1 : g[y][i] = f[y][i + 1]
        /\ \A x \in D : x # y => g[x] = f[x]
    <2>1. f[y] \in Seq(Msg) /\ g[y] = Tail(f[y])
      OBVIOUS
    <2>2. /\ Len(f[y]) \in Nat /\ Len(f[y]) >= 1 /\ Head(f[y]) = f[y][1]
          /\ Len(Tail(f[y])) = Len(f[y]) - 1
          /\ \A i \in 1 .. Len(f[y]) - 1 : Tail(f[y])[i] = f[y][i + 1]
      BY <2>1
    <2> QED
      BY <2>1, <2>2
  <1>2. ASSUME NEW pl \in V
        PROVE  h[pl] \in W /\ h[pl] = IF pl[1] = y THEN <<y, pl[2] - 1>> ELSE pl
    <2>1. /\ pl = <<pl[1], pl[2]>> /\ pl[1] \in D /\ pl[2] \in 1 .. Len(f[pl[1]])
          /\ f[pl[1]][pl[2]] = m /\ pl # <<y, 1>>
      BY <1>8
    <2>4. h[pl] = IF pl[1] = y THEN <<y, pl[2] - 1>> ELSE pl
      OBVIOUS
    <2> HIDE DEF h
    <2>2. CASE pl[1] = y
      <3>1. pl[2] # 1 /\ pl[2] \in 1 .. Len(f[y]) /\ f[y][pl[2]] = m
        BY <2>1, <2>2
      <3>2. pl[2] - 1 \in 1 .. Len(f[y]) - 1 /\ (pl[2] - 1) + 1 = pl[2]
        BY <1>1, <3>1
      <3>3. g[y][pl[2] - 1] = m
        BY <1>1, <3>1, <3>2
      <3> QED
        <4>1. <<y, pl[2] - 1>> \in W
          BY <1>1, <1>9, <3>2, <3>3
        <4> QED
          BY <2>2, <2>4, <4>1
    <2>3. CASE pl[1] # y
      <3>1. g[pl[1]] = f[pl[1]]
        BY <1>1, <2>1, <2>3
      <3>2. <<pl[1], pl[2]>> \in Places(g, m)
        BY <1>9, <2>1, <3>1
      <3> QED
        BY <2>1, <2>3, <2>4, <3>2
    <2> QED
      BY <2>2, <2>3
  <1>3. ASSUME NEW pl \in V, NEW pm \in V, h[pl] = h[pm]
        PROVE  pl = pm
    <2>1. /\ pl = <<pl[1], pl[2]>> /\ pl[2] \in Nat /\ pm = <<pm[1], pm[2]>> /\ pm[2] \in Nat
      BY <1>8
    <2>2. /\ h[pl] = IF pl[1] = y THEN <<y, pl[2] - 1>> ELSE pl
          /\ h[pm] = IF pm[1] = y THEN <<y, pm[2] - 1>> ELSE pm
      BY <1>2
    <2>3. (pl[1] = y) <=> (pm[1] = y)
      BY <1>3, <2>1, <2>2
    <2>4. CASE pl[1] = y
      <3>1. <<y, pl[2] - 1>> = <<y, pm[2] - 1>>
        BY <1>3, <2>2, <2>3, <2>4
      <3>2. pl[2] - 1 = pm[2] - 1
        BY <3>1
      <3>3. pl[2] = pm[2] /\ pl[1] = pm[1]
        BY <2>1, <2>3, <2>4, <3>2
      <3> QED
        BY <2>1, <3>3, Zenon
    <2>5. CASE pl[1] # y
      BY <1>3, <2>2, <2>3, <2>5
    <2> QED
      BY <2>4, <2>5
  <1>4. ASSUME NEW pw \in W
        PROVE  \E pl \in V : h[pl] = pw
    <2>1. /\ pw = <<pw[1], pw[2]>> /\ pw[1] \in D /\ pw[2] \in 1 .. Len(g[pw[1]])
          /\ g[pw[1]][pw[2]] = m
      BY <1>9
    <2>2. CASE pw[1] = y
      <3>1. pw[2] + 1 \in 1 .. Len(f[y]) /\ f[y][pw[2] + 1] = m /\ pw[2] \in Nat /\ pw[2] # 0
        BY <1>1, <2>1, <2>2
      <3>2. <<y, pw[2] + 1>> \in Places(f, m)
        BY <1>8, <3>1
      <3>3. PICK pl : pl = <<y, pw[2] + 1>>
        OBVIOUS
      <3>4. pl[1] = y /\ pl[2] = pw[2] + 1 /\ pl # <<y, 1>>
        BY <3>1, <3>3
      <3>5. pl \in V
        BY <3>2, <3>3, <3>4
      <3>6. h[pl] = <<y, (pw[2] + 1) - 1>>
        BY <1>2, <3>4, <3>5
      <3> HIDE DEF h, V
      <3>7. h[pl] = pw
        BY <2>1, <2>2, <3>1, <3>6
      <3> QED
        BY <3>5, <3>7
    <2>3. CASE pw[1] # y
      <3>1. pw \in Places(f, m) /\ pw # <<y, 1>>
        BY <1>1, <1>8, <2>1, <2>3
      <3>2. h[pw] = pw
        BY <1>2, <2>3, <3>1
      <3> QED
        BY <3>1, <3>2
    <2> QED
      BY <2>2, <2>3
  <1>5. h \in Bijection(V, W)
    <2>1. h \in [V -> W]
      BY <1>2
    <2> HIDE DEF h, V, W
    <2> QED
      BY <1>3, <1>4, <2>1 DEF Bijection, Injection, Surjection, IsInjective
  <1>6. /\ IsFiniteSet(V)
        /\ Cardinality(V) = IF <<y, 1>> \in Places(f, m) THEN Cardinality(Places(f, m)) - 1
                                                         ELSE Cardinality(Places(f, m))
    BY FS_RemoveElement
  <1>7. Cardinality(W) = Cardinality(V)
    BY <1>5, <1>6, FS_Bijection DEF ExistsBijection
  <1>10. <<y, 1>> \in Places(f, m) <=> Head(f[y]) = m
    <2>1. Head(f[y]) = m => <<y, 1>> \in Places(f, m)
      <3>1. 1 \in 1 .. Len(f[y])
        BY <1>1
      <3> QED
        BY <1>1, <1>8, <3>1
    <2>2. ASSUME <<y, 1>> \in Places(f, m) PROVE Head(f[y]) = m
      <3>1. PICK pl \in Places(f, m) : pl = <<y, 1>>
        BY <2>2
      <3>2. pl[1] = y /\ pl[2] = 1
        BY <3>1
      <3> QED
        BY <1>1, <1>8, <3>2
    <2> QED
      BY <2>1, <2>2
  <1>11. Cardinality(Places(f, m)) \in Nat
    BY FS_CardinalityType
  <1> QED
    BY <1>6, <1>7, <1>10, <1>11

-----------------------------------------------------------------------------
(* The type invariant.                                                     *)

LEMMA CountsAre ==
  ASSUME TypeOK, NEW m
  PROVE  /\ IsFiniteSet(Places(uwq, m)) /\ Cardinality(Places(uwq, m)) \in Nat
         /\ IsFiniteSet(Places(q, m)) /\ Cardinality(Places(q, m)) \in Nat
         /\ IsFiniteSet(Hands(m)) /\ Cardinality(Hands(m)) \in Nat
  <1>1. IsFiniteSet(Gen) /\ IsFiniteSet(Pipe)
    BY LingerAssumption, FS_Interval DEF Gen
  <1>2. IsFiniteSet(Places(uwq, m)) /\ Cardinality(Places(uwq, m)) \in Nat
    BY <1>1, LingerAssumption, PlacesFinite DEF TypeOK
  <1>3. IsFiniteSet(Places(q, m)) /\ Cardinality(Places(q, m)) \in Nat
    BY <1>1, LingerAssumption, PlacesFinite DEF TypeOK
  <1>4. Hands(m) \in SUBSET Pipe
    BY DEF Hands
  <1> QED
    BY <1>1, <1>2, <1>3, <1>4, FS_Subset, FS_CardinalityType

(* Whoever holds a message has counted it, and may free it.                *)
LEMMA HeldCounts ==
  ASSUME TypeOK, RefInv, NEW m \in Msg, sm = m \/ \E p \in Pipe : hand[p] = m
  PROVE  refs[m] \in Nat /\ refs[m] >= 1
  <1>1. /\ Cardinality(Places(uwq, m)) \in Nat /\ Cardinality(Places(q, m)) \in Nat
        /\ IsFiniteSet(Hands(m)) /\ Cardinality(Hands(m)) \in Nat
    BY CountsAre
  <1>2. refs[m] = Cardinality(Places(uwq, m)) + Cardinality(Places(q, m)) + Cardinality(Hands(m))
                  + (IF sm = m THEN 1 ELSE 0)
    BY DEF RefInv
  <1>3. CASE sm = m
    BY <1>1, <1>2, <1>3
  <1>4. CASE \E p \in Pipe : hand[p] = m
    <2>1. Hands(m) # {}
      BY <1>4 DEF Hands
    <2>2. Cardinality(Hands(m)) # 0
      BY <1>1, <2>1, FS_EmptySet
    <2> QED
      BY <1>1, <1>2, <2>2
  <1> QED
    BY <1>3, <1>4

LEMMA InitType == Init => TypeOK
  <1> SUFFICES ASSUME Init PROVE TypeOK
    OBVIOUS
  <1> USE LingerAssumption
  <1>1. uwq \in [Gen -> Seq(Msg)] /\ \A g \in Gen : Len(uwq[g]) <= UwqLen
    BY EmptyQueue DEF Init
  <1>2. q \in [Pipe -> Seq(Msg)] /\ \A p \in Pipe : Len(q[p]) <= QLen
    BY EmptyQueue DEF Init
  <1>3. /\ thr \in [Thread -> 0 .. MaxGen] /\ acc \in [Msg -> 0 .. MaxGen] /\ refs \in [Msg -> Nat]
        /\ hand \in [Pipe -> 0 .. MaxMsg]
    BY DEF Init
  <1>4. active \in BOOLEAN /\ crashed \in BOOLEAN /\ expired \in BOOLEAN
    BY DEF Init
  <1>5. gen \in Gen /\ sq \in Gen /\ cgen \in Gen /\ nmsg \in 0 .. MaxMsg /\ sm \in 0 .. MaxMsg
    BY DEF Init, Gen
  <1>6. /\ spc \in {"sel", "cast", "exit"} /\ cast \subseteq Msg /\ cnt \in {0, 1}
        /\ cpc \in {"idle", "drain1", "drain2", "wait", "shutdown", "sweep", "done"}
    BY DEF Init
  <1>7. /\ up \in [Pipe -> {"none", "up", "closed"}] /\ qclosed \in [Pipe -> BOOLEAN]
        /\ owed \in [Pipe -> SUBSET Msg] /\ sent \in [Pipe -> SUBSET Msg]
    BY DEF Init
  <1>8. eps \subseteq Pipe /\ ended \subseteq Pipe /\ left \subseteq Pipe
    BY DEF Init
  <1> QED
    BY <1>1, <1>2, <1>3, <1>4, <1>5, <1>6, <1>7, <1>8 DEF TypeOK

LEMMA StepType ==
  ASSUME TypeOK, SenderInv, RefInv, [Next]_vars
  PROVE  TypeOK'
  <1> USE LingerAssumption DEF TypeOK, sockVars, thrVars, sndVars, peerVars, clsVars
  <1>m. \A m \in 0 .. MaxMsg : m # 0 => m \in Msg
    BY DEF Msg
  <1>g. Gen \subseteq 0 .. MaxGen
    BY DEF Gen
  <1>z. 0 \in 0 .. MaxGen /\ 0 \in 0 .. MaxMsg
    OBVIOUS
  <1>1. ASSUME NEW t \in Thread, SendEnter(t) \/ SendPanic(t) \/ SendFail(t) PROVE TypeOK'
    <2>3. PICK n \in 0 .. MaxGen : thr' = [thr EXCEPT ![t] = n]
      BY <1>1, <1>g, <1>z DEF SendEnter, SendPanic, SendFail, SendLeave
    <2>1. thr' \in [Thread -> 0 .. MaxGen]
      BY <2>3
    <2>2. crashed' \in BOOLEAN
      BY <1>1 DEF SendEnter, SendPanic, SendFail
    <2> QED
      BY <1>1, <2>1, <2>2, ZenonT(30) DEF SendEnter, SendPanic, SendFail
  <1>2. ASSUME NEW t \in Thread, SendOk(t) PROVE TypeOK'
    <2>1. nmsg + 1 \in Msg /\ nmsg + 1 \in 0 .. MaxMsg
      BY <1>2 DEF SendOk, Msg
    <2>6. /\ thr' = [thr EXCEPT ![t] = 0] /\ refs' = [refs EXCEPT ![nmsg + 1] = 1]
          /\ \E n \in 0 .. MaxGen : acc' = [acc EXCEPT ![nmsg + 1] = n]
      BY <1>2, <1>g, <1>z DEF SendOk, SendLeave, NewMessage
    <2>2. thr' \in [Thread -> 0 .. MaxGen] /\ acc' \in [Msg -> 0 .. MaxGen] /\ refs' \in [Msg -> Nat]
      BY <1>z, <2>6
    <2>3. uwq' = [uwq EXCEPT ![gen] = Append(@, nmsg + 1)] /\ Len(uwq[gen]) < UwqLen
      BY <1>2 DEF SendOk
    <2>4. /\ Append(uwq[gen], nmsg + 1) \in Seq(Msg)
          /\ Len(Append(uwq[gen], nmsg + 1)) = Len(uwq[gen]) + 1 /\ Len(uwq[gen]) \in Nat
      BY <2>1, QueueType
    <2>5. uwq' \in [Gen -> Seq(Msg)] /\ \A g \in Gen : Len(uwq'[g]) <= UwqLen
      BY <2>3, <2>4
    <2> QED
      BY <1>2, <2>1, <2>2, <2>5 DEF SendOk
  <1>3. CASE SetWriteQLen
    <2>1. gen' \in Gen
      BY <1>3 DEF SetWriteQLen, Gen
    <2> QED
      BY <1>3, <2>1 DEF SetWriteQLen
  <1>4. CASE Dial
    BY <1>4 DEF Dial
  <1>5. ASSUME NEW p \in Pipe, AddEndpoint(p) \/ PipeDown(p) \/ RemoveEndpoint(p) PROVE TypeOK'
    <2>1. up' \in [Pipe -> {"none", "up", "closed"}] /\ qclosed' \in [Pipe -> BOOLEAN]
      BY <1>5 DEF AddEndpoint, PipeDown, RemoveEndpoint
    <2>2. eps' \subseteq Pipe
      BY <1>5 DEF AddEndpoint, PipeDown, RemoveEndpoint
    <2>3. CASE AddEndpoint(p)
      BY <2>1, <2>2, <2>3, ZenonT(30) DEF AddEndpoint
    <2>4. CASE PipeDown(p)
      BY <2>1, <2>2, <2>4, ZenonT(30) DEF PipeDown
    <2>5. CASE RemoveEndpoint(p)
      BY <2>1, <2>2, <2>5, ZenonT(30) DEF RemoveEndpoint
    <2> QED
      BY <1>5, <2>3, <2>4, <2>5
  <1>6. CASE SndTake
    <2>1. /\ Head(uwq[sq]) \in Msg /\ Tail(uwq[sq]) \in Seq(Msg)
          /\ Len(Tail(uwq[sq])) = Len(uwq[sq]) - 1 /\ Len(uwq[sq]) \in Nat
      BY <1>6, QueueType DEF SndTake
    <2>2. uwq' \in [Gen -> Seq(Msg)] /\ \A g \in Gen : Len(uwq'[g]) <= UwqLen
      BY <1>6, <2>1 DEF SndTake
    <2>3. sm' \in 0 .. MaxMsg
      BY <1>6, <2>1 DEF SndTake, Msg
    <2> QED
      BY <1>6, <2>2, <2>3 DEF SndTake
  <1>7. CASE SndNil
    BY <1>7 DEF SndNil, SendChannel
  <1>8. CASE SndCast
    <2> DEFINE to == {p \in eps : HasRoom(p)}
    <2>1. sm \in Msg
      BY <1>8, <1>m DEF SndCast, SenderInv
    <2>2. IsFiniteSet(to) /\ Cardinality(to) \in Nat
      BY FS_Subset, FS_CardinalityType
    <2>3. refs[sm] \in Nat /\ refs[sm] >= 1
      BY <2>1, HeldCounts
    <2>4. refs' = Free(Dup(refs, sm, Cardinality(to)), sm)
      BY <1>8 DEF SndCast
    <2>5. \A p \in Pipe : /\ Append(q[p], sm) \in Seq(Msg)
                          /\ Len(Append(q[p], sm)) = Len(q[p]) + 1 /\ Len(q[p]) \in Nat
      BY <2>1, QueueType
    <2>6. q' = [p \in Pipe |-> IF p \in to THEN Append(q[p], sm) ELSE q[p]]
      BY <1>8 DEF SndCast
    <2>7. \A p \in to : Len(q[p]) < QLen
      BY DEF HasRoom
    <2>8. owed' = [p \in Pipe |-> IF p \in to THEN owed[p] \union {sm} ELSE owed[p]]
      BY <1>8 DEF SndCast
    <2> HIDE DEF to
    <2>9. refs' \in [Msg -> Nat]
      BY <2>1, <2>2, <2>3, <2>4 DEF Free, Dup
    <2>10. q' \in [Pipe -> Seq(Msg)] /\ \A p \in Pipe : Len(q'[p]) <= QLen
      BY <2>5, <2>6, <2>7
    <2>11. owed' \in [Pipe -> SUBSET Msg]
      BY <2>1, <2>8
    <2> QED
      BY <1>8, <2>1, <2>9, <2>10, <2>11, SMTT(30) DEF SndCast
  <1>9. CASE SndExit
    <2>1. cnt' \in {0, 1}
      BY <1>9 DEF SndExit, Done, SenderInv
    <2> QED
      BY <1>9, <2>1 DEF SndExit
  <1>10. ASSUME NEW p \in Pipe, PeerTake(p) PROVE TypeOK'
    <2>1. /\ Head(q[p]) \in Msg /\ Tail(q[p]) \in Seq(Msg)
          /\ Len(Tail(q[p])) = Len(q[p]) - 1 /\ Len(q[p]) \in Nat
      BY <1>10, QueueType DEF PeerTake
    <2>2. q' \in [Pipe -> Seq(Msg)] /\ \A r \in Pipe : Len(q'[r]) <= QLen
      BY <1>10, <2>1 DEF PeerTake
    <2>4. hand' = [hand EXCEPT ![p] = Head(q[p])] /\ Head(q[p]) \in 0 .. MaxMsg
      BY <1>10, <2>1 DEF PeerTake, Msg
    <2>3. hand' \in [Pipe -> 0 .. MaxMsg]
      BY <2>4
    <2> QED
      BY <1>10, <2>2, <2>3 DEF PeerTake
  <1>11. ASSUME NEW p \in Pipe, PeerNil(p) PROVE TypeOK'
    BY <1>11 DEF PeerNil
  <1>12. ASSUME NEW p \in Pipe, PeerSend(p) \/ PeerFail(p) PROVE TypeOK'
    <2>1. hand[p] \in Msg
      BY <1>12, <1>m DEF PeerSend, PeerFail
    <2>2. refs[hand[p]] \in Nat /\ refs[hand[p]] >= 1
      BY <2>1, HeldCounts
    <2>6. /\ refs' = [refs EXCEPT ![hand[p]] = @ - 1] /\ hand' = [hand EXCEPT ![p] = 0]
          /\ \E S \in {{}, {hand[p]}} : sent' = [sent EXCEPT ![p] = @ \union S]
          /\ ended' \in {ended, ended \union {p}}
      <3>1. CASE PeerSend(p)
        BY <3>1 DEF PeerSend, Free
      <3>2. CASE PeerFail(p)
        <4>1. sent = [sent EXCEPT ![p] = @ \union {}]
          OBVIOUS
        <4> QED
          BY <3>2, <4>1 DEF PeerFail, Free
      <3> QED
        BY <1>12, <3>1, <3>2
    <2>3. refs' \in [Msg -> Nat]
      BY <2>1, <2>2, <2>6
    <2>4. hand' \in [Pipe -> 0 .. MaxMsg]
      BY <1>z, <2>6
    <2>5. sent' \in [Pipe -> SUBSET Msg] /\ ended' \subseteq Pipe
      BY <2>1, <2>6
    <2> QED
      BY <1>12, <2>3, <2>4, <2>5, ZenonT(30) DEF PeerSend, PeerFail
  <1>13. CASE CloseCall \/ Expire \/ CloseMark \/ CloseDrained
    BY <1>13, ZenonT(30) DEF CloseCall, Expire, CloseMark, CloseDrained
  <1>14. CASE ShutdownTake \/ CloseSweep \/ CloseReturn
    BY <1>14 DEF ShutdownTake, CloseSweep, CloseReturn
  <1>15. ASSUME NEW p \in Pipe, ShutdownPeer(p) \/ SweepPipe(p) PROVE TypeOK'
    BY <1>15 DEF ShutdownPeer, SweepPipe, CloseQueue
  <1>16. CASE UNCHANGED vars
    BY <1>16 DEF vars
  <1> QED
    BY <1>1, <1>2, <1>3, <1>4, <1>5, <1>6, <1>7, <1>8, <1>9, <1>10, <1>11, <1>12, <1>13, <1>14,
       <1>15, <1>16 DEF Next, SndStep, PeerStep, CloseStep

-----------------------------------------------------------------------------
(* Delivery: what each part of the invariant needs, action by action.      *)

LEMMA InitDeliver == Init => DeliverInv
  <1> SUFFICES ASSUME Init PROVE DeliverInv
    OBVIOUS
  <1>1. SenderInv
    BY DEF Init, SenderInv
  <1>2. AcceptInv
    BY DEF Init, AcceptInv
  <1>3. CloseInv
    BY DEF Init, CloseInv, closed
  <1>4. PeerInv
    BY DEF Init, PeerInv
  <1> QED
    BY <1>1, <1>2, <1>3, <1>4 DEF DeliverInv

LEMMA StepSender ==
  ASSUME TypeOK, SenderInv, [Next]_vars
  PROVE  SenderInv'
  <1> USE DEF SenderInv, sockVars, thrVars, sndVars, peerVars, clsVars
  <1>1. CASE UNCHANGED <<spc, sm, cnt>>
    BY <1>1
  <1>2. CASE SndTake
    <2>1. uwq[sq] \in Seq(Msg) /\ uwq[sq] # <<>>
      BY <1>2 DEF SndTake, TypeOK
    <2>2. Head(uwq[sq]) \in Msg
      BY <2>1, QueueType
    <2>3. Head(uwq[sq]) # 0
      BY <2>2 DEF Msg
    <2> QED
      BY <1>2, <2>3 DEF SndTake
  <1>3. CASE SndCast
    BY <1>3 DEF SndCast
  <1>4. CASE SndExit
    BY <1>4 DEF SndExit, Done
  <1>5. SndTake \/ SndCast \/ SndExit \/ UNCHANGED <<spc, sm, cnt>>
    <2>1. ASSUME NEW t \in Thread, SendEnter(t) \/ SendOk(t) \/ SendPanic(t) \/ SendFail(t)
          PROVE  UNCHANGED <<spc, sm, cnt>>
      BY <2>1 DEF SendEnter, SendOk, SendPanic, SendFail
    <2>2. ASSUME NEW p \in Pipe, AddEndpoint(p) \/ PipeDown(p) \/ RemoveEndpoint(p)
          PROVE  UNCHANGED <<spc, sm, cnt>>
      BY <2>2 DEF AddEndpoint, PipeDown, RemoveEndpoint
    <2>3. ASSUME NEW p \in Pipe, PeerStep(p) \/ PeerSend(p)
          PROVE  UNCHANGED <<spc, sm, cnt>>
      BY <2>3 DEF PeerStep, PeerTake, PeerNil, PeerFail, PeerSend
    <2>4. ASSUME SetWriteQLen \/ Dial \/ SndNil \/ CloseCall \/ Expire
          PROVE  UNCHANGED <<spc, sm, cnt>>
      BY <2>4 DEF SetWriteQLen, Dial, SndNil, CloseCall, Expire
    <2>5. ASSUME CloseStep PROVE UNCHANGED <<spc, sm, cnt>>
      BY <2>5 DEF CloseStep, CloseMark, CloseDrained, ShutdownTake, CloseSweep, CloseReturn,
                  ShutdownPeer, SweepPipe
    <2> QED
      BY <2>1, <2>2, <2>3, <2>4, <2>5 DEF Next, SndStep, vars
  <1> QED
    BY <1>1, <1>2, <1>3, <1>4, <1>5


LEMMA StepAccept ==
  ASSUME TypeOK, SenderInv, AcceptInv, [Next]_vars
  PROVE  AcceptInv'
  <1> USE DEF AcceptInv, sockVars, thrVars, sndVars, peerVars, clsVars
  <1>1. CASE UNCHANGED <<gen, uwq, acc, sm, cast>>
    BY <1>1
  <1>2. ASSUME NEW t \in Thread, SendOk(t) PROVE AcceptInv'
    <2>5. nmsg + 1 \in Msg /\ gen \in Gen /\ gen \in Nat
      BY <1>2, LingerAssumption DEF SendOk, TypeOK, Msg, Gen
    <2>6. /\ uwq' = [uwq EXCEPT ![gen] = Append(@, nmsg + 1)]
          /\ acc' = [acc EXCEPT ![nmsg + 1] = IF cpc = "idle" THEN gen ELSE 0]
          /\ UNCHANGED <<gen, sm, cast>>
      BY <1>2 DEF SendOk
    <2>1. /\ nmsg + 1 \in Msg /\ uwq' = [uwq EXCEPT ![gen] = Append(@, nmsg + 1)]
          /\ acc' = [acc EXCEPT ![nmsg + 1] = IF cpc = "idle" THEN gen ELSE 0]
          /\ UNCHANGED <<gen, sm, cast>> /\ gen \in Gen /\ gen \in Nat
      BY <2>5, <2>6
    <2>2. Elems(uwq'[gen]) = Elems(uwq[gen]) \union {nmsg + 1}
      BY <2>1, PutsIn DEF TypeOK
    <2>3. \A m \in Msg : acc'[m] <= gen
      BY <2>1 DEF TypeOK
    <2>4. ASSUME NEW m \in Msg, acc'[m] # 0
          PROVE  m \in cast \/ m = sm \/ m \in Elems(uwq'[acc'[m]])
      <3>1. CASE m = nmsg + 1
        BY <2>1, <2>2, <2>4, <3>1 DEF TypeOK
      <3>2. CASE m # nmsg + 1
        <4>1. acc'[m] = acc[m] /\ acc[m] \in Gen
          BY <2>1, <2>4, <3>2, SMTT(30) DEF TypeOK, Gen
        <4>2. Elems(uwq[acc[m]]) \subseteq Elems(uwq'[acc[m]])
          BY <2>1, <2>2, <4>1 DEF TypeOK
        <4> QED
          BY <2>4, <4>1, <4>2
      <3> QED
        BY <3>1, <3>2
    <2> QED
      BY <2>1, <2>3, <2>4
  <1>3. CASE SetWriteQLen
    BY <1>3 DEF SetWriteQLen, TypeOK, Gen
  <1>4. CASE SndTake
    <2>1. /\ sm' = Head(uwq[sq]) /\ uwq' = [uwq EXCEPT ![sq] = Tail(@)] /\ uwq[sq] # <<>>
          /\ UNCHANGED <<gen, acc, cast>> /\ sm = 0
      BY <1>4 DEF SndTake, SenderInv
    <2>2. Elems(uwq[sq]) = {sm'} \union Elems(uwq'[sq])
      BY <2>1, TakesOut DEF TypeOK
    <2>3. ASSUME NEW m \in Msg, acc[m] # 0
          PROVE  m \in cast \/ m = sm' \/ m \in Elems(uwq'[acc[m]])
      <3>4. m # 0
        BY DEF Msg
      <3>5. acc[m] \in 0 .. MaxGen
        BY DEF TypeOK
      <3>1. m # sm /\ acc[m] \in Gen
        BY <2>1, <2>3, <3>4, <3>5, LingerAssumption DEF Gen
      <3>2. CASE acc[m] = sq
        BY <2>2, <2>3, <3>1, <3>2
      <3>3. CASE acc[m] # sq
        BY <2>1, <2>3, <3>1, <3>3 DEF TypeOK
      <3> QED
        BY <3>2, <3>3
    <2> QED
      BY <2>1, <2>3
  <1>5. CASE SndCast
    BY <1>5 DEF SndCast
  <1>6. \/ \E t \in Thread : SendOk(t)
        \/ SetWriteQLen \/ SndTake \/ SndCast \/ UNCHANGED <<gen, uwq, acc, sm, cast>>
    <2>1. ASSUME NEW t \in Thread, SendEnter(t) \/ SendPanic(t) \/ SendFail(t)
          PROVE  UNCHANGED <<gen, uwq, acc, sm, cast>>
      BY <2>1 DEF SendEnter, SendPanic, SendFail
    <2>2. ASSUME NEW p \in Pipe, AddEndpoint(p) \/ PipeDown(p) \/ RemoveEndpoint(p)
          PROVE  UNCHANGED <<gen, uwq, acc, sm, cast>>
      BY <2>2 DEF AddEndpoint, PipeDown, RemoveEndpoint
    <2>3. ASSUME NEW p \in Pipe, PeerStep(p) \/ PeerSend(p)
          PROVE  UNCHANGED <<gen, uwq, acc, sm, cast>>
      BY <2>3 DEF PeerStep, PeerTake, PeerNil, PeerFail, PeerSend
    <2>4. ASSUME Dial \/ SndNil \/ SndExit \/ CloseCall \/ Expire
          PROVE  UNCHANGED <<gen, uwq, acc, sm, cast>>
      BY <2>4 DEF Dial, SndNil, SndExit, CloseCall, Expire
    <2>5. ASSUME CloseStep PROVE UNCHANGED <<gen, uwq, acc, sm, cast>>
      BY <2>5 DEF CloseStep, CloseMark, CloseDrained, ShutdownTake, CloseSweep, CloseReturn,
                  ShutdownPeer, SweepPipe
    <2> QED
      BY <2>1, <2>2, <2>3, <2>4, <2>5 DEF Next, SndStep, vars
  <1> QED
    BY <1>1, <1>2, <1>3, <1>4, <1>5, <1>6

(* What Close has still to do.                                             *)
LEMMA StepClose ==
  ASSUME TypeOK, SenderInv, AcceptInv, CloseInv, [Next]_vars
  PROVE  CloseInv'
  <1> USE DEF closed, sockVars, thrVars, sndVars, peerVars, clsVars
  <1>0. gen \in Nat /\ cgen \in Nat /\ \A m \in Msg : acc[m] \in Nat /\ acc[m] <= gen
    BY DEF TypeOK, Gen, AcceptInv
  <1>1. CASE UNCHANGED <<gen, acc, sm, cast, spc, cpc, cgen, expired>>
    BY <1>1 DEF CloseInv
  <1>2. ASSUME NEW t \in Thread, SendOk(t) PROVE CloseInv'
    <2>1. nmsg + 1 \in Msg
      BY <1>2, LingerAssumption DEF SendOk, TypeOK, Msg
    <2>2. /\ acc' = [acc EXCEPT ![nmsg + 1] = IF cpc = "idle" THEN gen ELSE 0]
          /\ UNCHANGED <<gen, sm, cast, spc, cpc, cgen, expired>>
      BY <1>2 DEF SendOk
    <2>3. /\ acc'[nmsg + 1] = IF cpc = "idle" THEN gen ELSE 0
          /\ \A m \in Msg : m # nmsg + 1 => acc'[m] = acc[m]
      BY <2>1, <2>2 DEF TypeOK
    <2>4. gen # 0
      BY DEF TypeOK, Gen
    <2> QED
      BY <1>0, <2>2, <2>3, <2>4 DEF CloseInv
  <1>3. CASE SetWriteQLen
    <2>1. /\ gen' = gen + 1 /\ UNCHANGED <<acc, sm, cast, spc, cpc, cgen, expired>>
      BY <1>3 DEF SetWriteQLen
    <2>2. \A m \in Msg : acc[m] # gen'
      BY <1>0, <2>1
    <2> QED
      BY <1>0, <2>1, <2>2 DEF CloseInv
  <1>4. CASE SndTake
    <2>1. UNCHANGED <<gen, acc, cast, cpc, cgen, expired>> /\ sm = 0 /\ spc = "sel" /\ spc' = "cast"
      BY <1>4 DEF SndTake, SenderInv
    <2>2. \A m \in Msg : m # 0
      BY DEF Msg
    <2> QED
      BY <2>1, <2>2 DEF CloseInv
  <1>5. CASE SndCast
    BY <1>5 DEF SndCast, CloseInv
  <1>6. CASE SndExit
    BY <1>6 DEF SndExit, CloseInv
  <1>7. CASE CloseCall
    BY <1>0, <1>7 DEF CloseCall, CloseInv
  <1>8. CASE Expire
    BY <1>8 DEF Expire, CloseInv
  <1>9. CASE CloseMark
    <2>1. /\ cpc = "drain1" /\ cpc' = "drain2" /\ cgen' = gen /\ (uwq[cgen] = <<>> \/ expired)
          /\ UNCHANGED <<gen, acc, sm, cast, spc, expired>>
      BY <1>9 DEF CloseMark, DrainChannel
    <2>2. ASSUME ~expired, NEW m \in Msg, acc[m] = gen PROVE m \in cast \/ m = sm
      <3>1. acc[m] = cgen /\ acc[m] # 0
        BY <1>0, <2>1, <2>2 DEF CloseInv, TypeOK, Gen
      <3>2. Elems(uwq[acc[m]]) = {}
        BY <2>1, <2>2, <3>1, EmptyQueue
      <3> QED
        BY <3>1, <3>2 DEF AcceptInv
    <2> QED
      BY <1>0, <2>1, <2>2 DEF CloseInv
  <1>10. CASE CloseDrained
    BY <1>10 DEF CloseDrained, CloseInv
  <1>11. CASE ShutdownTake
    BY <1>11 DEF ShutdownTake, WaitAbsTimeout, SenderInv, CloseInv
  <1>12. CASE CloseSweep \/ CloseReturn
    BY <1>12 DEF CloseSweep, CloseReturn, CloseInv
  <1>13. \/ \E t \in Thread : SendOk(t)
         \/ SetWriteQLen \/ SndTake \/ SndCast \/ SndExit \/ CloseCall \/ Expire
         \/ CloseMark \/ CloseDrained \/ ShutdownTake \/ CloseSweep \/ CloseReturn
         \/ UNCHANGED <<gen, acc, sm, cast, spc, cpc, cgen, expired>>
    <2>1. ASSUME NEW t \in Thread, SendEnter(t) \/ SendPanic(t) \/ SendFail(t)
          PROVE  UNCHANGED <<gen, acc, sm, cast, spc, cpc, cgen, expired>>
      BY <2>1 DEF SendEnter, SendPanic, SendFail
    <2>2. ASSUME NEW p \in Pipe, AddEndpoint(p) \/ PipeDown(p) \/ RemoveEndpoint(p)
          PROVE  UNCHANGED <<gen, acc, sm, cast, spc, cpc, cgen, expired>>
      BY <2>2 DEF AddEndpoint, PipeDown, RemoveEndpoint
    <2>3. ASSUME NEW p \in Pipe, PeerStep(p) \/ PeerSend(p)
          PROVE  UNCHANGED <<gen, acc, sm, cast, spc, cpc, cgen, expired>>
      BY <2>3 DEF PeerStep, PeerTake, PeerNil, PeerFail, PeerSend
    <2>4. ASSUME Dial \/ SndNil
          PROVE  UNCHANGED <<gen, acc, sm, cast, spc, cpc, cgen, expired>>
      BY <2>4 DEF Dial, SndNil
    <2>5. ASSUME NEW p \in Pipe, ShutdownPeer(p) \/ SweepPipe(p)
          PROVE  UNCHANGED <<gen, acc, sm, cast, spc, cpc, cgen, expired>>
      BY <2>5 DEF ShutdownPeer, SweepPipe
    <2>6. CASE UNCHANGED vars
      BY <2>6 DEF vars
    <2> QED
      BY <2>1, <2>2, <2>3, <2>4, <2>5, <2>6 DEF Next, SndStep, CloseStep
  <1> QED
    BY <1>1, <1>2, <1>3, <1>4, <1>5, <1>6, <1>7, <1>8, <1>9, <1>10, <1>11, <1>12, <1>13

(* What a peer was promised.                                               *)
LEMMA StepPeer ==
  ASSUME TypeOK, SenderInv, CloseInv, PeerInv, [Next]_vars
  PROVE  PeerInv'
  <1> USE DEF closed, sockVars, thrVars, sndVars, peerVars, clsVars
  <1>1. CASE UNCHANGED <<up, eps, q, hand, owed, sent, expired>> /\ UNCHANGED <<cpc, left>>
    BY <1>1 DEF PeerInv
  <1>2. ASSUME NEW p \in Pipe, AddEndpoint(p) \/ PipeDown(p) \/ RemoveEndpoint(p) PROVE PeerInv'
    <2>1. UNCHANGED <<q, hand, owed, sent, expired, cpc, left>>
      BY <1>2 DEF AddEndpoint, PipeDown, RemoveEndpoint
    <2>2. CASE AddEndpoint(p)
      <3>1. /\ up' = [up EXCEPT ![p] = "up"] /\ eps' = eps \union {p}
            /\ cpc \in {"idle", "drain1"} /\ up[p] = "none"
        BY <2>2 DEF AddEndpoint
      <3> QED
        BY <2>1, <3>1 DEF PeerInv, TypeOK
    <2>3. CASE PipeDown(p)
      <3>1. up' = [up EXCEPT ![p] = "closed"] /\ eps' = eps
        BY <2>3 DEF PipeDown
      <3> QED
        BY <2>1, <3>1 DEF PeerInv, TypeOK
    <2>4. CASE RemoveEndpoint(p)
      <3>1. up' = up /\ eps' = eps \ {p} /\ up[p] = "closed"
        BY <2>4 DEF RemoveEndpoint
      <3> QED
        BY <2>1, <3>1 DEF PeerInv
    <2> QED
      BY <1>2, <2>2, <2>3, <2>4
  <1>3. CASE SndCast
    <2> DEFINE to == {p \in eps : HasRoom(p)}
    <2>1. sm \in Msg /\ spc = "cast"
      BY <1>3 DEF SndCast, SenderInv, TypeOK, Msg
    <2>2. /\ q' = [p \in Pipe |-> IF p \in to THEN Append(q[p], sm) ELSE q[p]]
          /\ owed' = [p \in Pipe |-> IF p \in to THEN owed[p] \union {sm} ELSE owed[p]]
          /\ UNCHANGED <<up, eps, hand, sent, expired, cpc, left>>
      BY <1>3 DEF SndCast
    <2> HIDE DEF to
    <2>3. ASSUME NEW p \in Pipe, up[p] # "closed"
          PROVE  owed'[p] \subseteq sent[p] \union Elems(q'[p]) \union {hand[p]}
      <3>1. owed[p] \subseteq sent[p] \union Elems(q[p]) \union {hand[p]}
        BY <2>3 DEF PeerInv
      <3>2. CASE p \in to
        <4>1. Elems(q'[p]) = Elems(q[p]) \union {sm}
          BY <2>1, <2>2, <3>2, PutsIn DEF TypeOK
        <4>2. owed'[p] = owed[p] \union {sm}
          BY <2>2, <3>2
        <4> QED
          BY <3>1, <4>1, <4>2
      <3>3. CASE p \notin to
        BY <2>2, <3>1, <3>3
      <3> QED
        BY <3>2, <3>3
    <2>4. cpc \in {"shutdown", "sweep", "done"} => expired
      BY <2>1 DEF CloseInv
    <2> QED
      BY <2>2, <2>3, <2>4 DEF PeerInv
  <1>4. ASSUME NEW p \in Pipe, PeerTake(p) PROVE PeerInv'
    <2>1. /\ hand[p] = 0 /\ q[p] # <<>> /\ q[p] \in Seq(Msg)
          /\ hand'[p] = Head(q[p]) /\ q'[p] = Tail(q[p])
          /\ \A r \in Pipe : r # p => hand'[r] = hand[r] /\ q'[r] = q[r]
          /\ UNCHANGED <<up, eps, owed, sent, expired, cpc, left>>
      BY <1>4 DEF PeerTake, TypeOK
    <2>2. Elems(q[p]) = {hand'[p]} \union Elems(q'[p])
      BY <2>1, TakesOut
    <2>3. owed[p] \subseteq Msg /\ 0 \notin Msg
      BY DEF TypeOK, Msg
    <2>4. up[p] # "closed" => owed[p] \subseteq sent[p] \union Elems(q'[p]) \union {hand'[p]}
      BY <2>1, <2>2, <2>3 DEF PeerInv
    <2> QED
      BY <2>1, <2>4 DEF PeerInv
  <1>5. ASSUME NEW p \in Pipe, PeerSend(p) PROVE PeerInv'
    <2>1. /\ sent'[p] = sent[p] \union {hand[p]}
          /\ \A r \in Pipe : r # p => hand'[r] = hand[r] /\ sent'[r] = sent[r]
          /\ UNCHANGED <<up, eps, q, owed, expired, cpc, left>>
      BY <1>5 DEF PeerSend, TypeOK
    <2>2. up[p] # "closed" => owed[p] \subseteq sent'[p] \union Elems(q[p]) \union {hand'[p]}
      BY <2>1 DEF PeerInv
    <2> QED
      BY <2>1, <2>2 DEF PeerInv
  <1>6. ASSUME NEW p \in Pipe, PeerFail(p) PROVE PeerInv'
    <2>1. /\ up[p] = "closed" /\ \A r \in Pipe : r # p => hand'[r] = hand[r]
          /\ UNCHANGED <<up, eps, q, owed, sent, expired, cpc, left>>
      BY <1>6 DEF PeerFail, TypeOK
    <2> QED
      BY <2>1 DEF PeerInv
  <1>7. CASE CloseCall \/ CloseMark \/ CloseDrained \/ Expire
    <2>1. /\ UNCHANGED <<up, eps, q, hand, owed, sent, left>> /\ (~expired' => ~expired)
          /\ \/ UNCHANGED cpc
             \/ cpc \in {"idle", "drain1", "drain2"} /\ cpc' \in {"drain1", "drain2", "wait"}
      BY <1>7 DEF CloseCall, CloseMark, CloseDrained, Expire
    <2> QED
      BY <2>1 DEF PeerInv, TypeOK
  <1>8. CASE ShutdownTake
    <2>1. /\ cpc = "wait" /\ cpc' = "shutdown" /\ eps' = {} /\ left' = eps
          /\ UNCHANGED <<up, q, hand, owed, sent, expired>>
      BY <1>8 DEF ShutdownTake
    <2> QED
      BY <2>1 DEF PeerInv
  <1>9. ASSUME NEW p \in Pipe, ShutdownPeer(p) PROVE PeerInv'
    <2>1. /\ cpc = "shutdown" /\ (q[p] = <<>> \/ expired) /\ left' = left \ {p}
          /\ UNCHANGED <<up, eps, q, hand, owed, sent, expired, cpc>>
      BY <1>9 DEF ShutdownPeer, QueueDrained, DrainChannel
    <2> QED
      BY <2>1 DEF PeerInv
  <1>10. CASE CloseSweep
    <2>1. /\ cpc = "shutdown" /\ left = {} /\ cpc' = "sweep"
          /\ UNCHANGED <<up, eps, q, hand, owed, sent, expired>>
      BY <1>10 DEF CloseSweep
    <2> QED
      BY <2>1 DEF PeerInv
  <1>11. ASSUME NEW p \in Pipe, SweepPipe(p) PROVE PeerInv'
    <2>1. /\ cpc = "sweep" /\ up' = [up EXCEPT ![p] = "closed"]
          /\ UNCHANGED <<eps, q, hand, owed, sent, expired, cpc>>
      BY <1>11 DEF SweepPipe
    <2> QED
      BY <2>1 DEF PeerInv, TypeOK
  <1>12. CASE CloseReturn
    <2>1. /\ cpc = "sweep" /\ cpc' = "done" /\ UNCHANGED <<up, eps, q, hand, owed, sent, expired>>
      BY <1>12 DEF CloseReturn
    <2> QED
      BY <2>1 DEF PeerInv
  <1>13. ASSUME NEW t \in Thread, SendEnter(t) \/ SendOk(t) \/ SendPanic(t) \/ SendFail(t)
         PROVE  UNCHANGED <<up, eps, q, hand, owed, sent, expired>> /\ UNCHANGED <<cpc, left>>
    BY <1>13 DEF SendEnter, SendOk, SendPanic, SendFail
  <1>14. ASSUME SetWriteQLen \/ Dial \/ SndTake \/ SndNil \/ SndExit \/ UNCHANGED vars
         PROVE  UNCHANGED <<up, eps, q, hand, owed, sent, expired>> /\ UNCHANGED <<cpc, left>>
    BY <1>14 DEF SetWriteQLen, Dial, SndTake, SndNil, SndExit, vars
  <1>15. ASSUME NEW p \in Pipe, PeerNil(p)
         PROVE  UNCHANGED <<up, eps, q, hand, owed, sent, expired>> /\ UNCHANGED <<cpc, left>>
    BY <1>15 DEF PeerNil
  <1> QED
    BY <1>1, <1>2, <1>3, <1>4, <1>5, <1>6, <1>7, <1>8, <1>9, <1>10, <1>11, <1>12, <1>13, <1>14,
       <1>15 DEF Next, SndStep, PeerStep, CloseStep

-----------------------------------------------------------------------------
(* The places of messages.                                                 *)

LEMMA InitRefs == Init => FreshInv /\ RefInv
  <1> SUFFICES ASSUME Init PROVE FreshInv /\ RefInv
    OBVIOUS
  <1>1. FreshInv
    <2>1. sm = 0 /\ nmsg = 0 /\ \A p \in Pipe : hand[p] = 0
      BY DEF Init
    <2>2. \A g \in Gen : Elems(uwq[g]) = {}
      BY EmptyQueue DEF Init
    <2>3. \A p \in Pipe : Elems(q[p]) = {}
      BY EmptyQueue DEF Init
    <2> QED
      BY <2>1, <2>2, <2>3 DEF FreshInv
  <1>2. ASSUME NEW m \in Msg
        PROVE  refs[m] = Cardinality(Places(uwq, m)) + Cardinality(Places(q, m))
                         + Cardinality(Hands(m)) + (IF sm = m THEN 1 ELSE 0)
    <2>1. \A g \in Gen : 1 .. Len(uwq[g]) = {}
      BY EmptyQueue DEF Init
    <2>2. \A p \in Pipe : 1 .. Len(q[p]) = {}
      BY EmptyQueue DEF Init
    <2>3. DOMAIN uwq = Gen /\ DOMAIN q = Pipe
      BY DEF Init
    <2>4. Places(uwq, m) = {}
      BY <2>1, <2>3 DEF Places
    <2>5. Places(q, m) = {}
      BY <2>2, <2>3 DEF Places
    <2>6. Hands(m) = {} /\ sm # m /\ refs[m] = 0
      BY DEF Hands, Init, Msg
    <2>7. Cardinality({}) = 0
      BY FS_EmptySet
    <2> QED
      BY <2>4, <2>5, <2>6, <2>7
  <1> QED
    BY <1>1, <1>2 DEF RefInv

LEMMA StepFresh ==
  ASSUME TypeOK, SenderInv, FreshInv, [Next]_vars
  PROVE  FreshInv'
  <1> USE DEF sockVars, thrVars, sndVars, peerVars, clsVars
  <1>1. CASE UNCHANGED <<uwq, nmsg, sm, q, hand>>
    BY <1>1 DEF FreshInv
  <1>2. ASSUME NEW t \in Thread, SendOk(t) PROVE FreshInv'
    <2>1. nmsg + 1 \in Msg /\ nmsg \in Nat /\ sm \in Nat
      BY <1>2, LingerAssumption DEF SendOk, TypeOK, Msg
    <2>2. /\ uwq' = [uwq EXCEPT ![gen] = Append(@, nmsg + 1)]
          /\ nmsg' = nmsg + 1 /\ UNCHANGED <<sm, q, hand>>
      BY <1>2 DEF SendOk
    <2>3. Elems(uwq'[gen]) = Elems(uwq[gen]) \union {nmsg + 1}
      BY <2>1, <2>2, PutsIn DEF TypeOK
    <2>4. \A g \in Gen : g # gen => uwq'[g] = uwq[g]
      BY <2>2 DEF TypeOK
    <2>5. /\ \A g \in Gen : \A m \in Elems(uwq[g]) : m \in Nat
          /\ \A p \in Pipe : hand[p] \in Nat /\ \A m \in Elems(q[p]) : m \in Nat
      <3>1. ASSUME NEW s \in Seq(Msg), NEW m \in Elems(s) PROVE m \in Nat
        <4>1. PICK i \in 1 .. Len(s) : m = s[i]
          BY DEF Elems
        <4>2. s[i] \in Msg
          OBVIOUS
        <4> QED
          BY <4>1, <4>2 DEF Msg
      <3>2. \A p \in Pipe : hand[p] \in Nat
        BY DEF TypeOK
      <3> QED
        BY <3>1, <3>2 DEF TypeOK
    <2>6. \A g \in Gen : \A m \in Elems(uwq'[g]) : m <= nmsg + 1
      BY <2>1, <2>3, <2>4, <2>5 DEF FreshInv
    <2>7. \A p \in Pipe : hand[p] <= nmsg + 1 /\ \A m \in Elems(q[p]) : m <= nmsg + 1
      BY <2>1, <2>5 DEF FreshInv
    <2> QED
      BY <2>1, <2>2, <2>6, <2>7 DEF FreshInv
  <1>3. CASE SndTake
    <2>1. /\ sm' = Head(uwq[sq]) /\ uwq' = [uwq EXCEPT ![sq] = Tail(@)] /\ uwq[sq] # <<>>
          /\ UNCHANGED <<nmsg, q, hand>>
      BY <1>3 DEF SndTake
    <2>2. Elems(uwq[sq]) = {sm'} \union Elems(uwq'[sq]) /\ sq \in Gen
      BY <2>1, TakesOut DEF TypeOK
    <2>3. \A g \in Gen : g # sq => uwq'[g] = uwq[g]
      BY <2>1 DEF TypeOK
    <2> QED
      BY <2>1, <2>2, <2>3 DEF FreshInv
  <1>4. CASE SndCast
    <2> DEFINE to == {p \in eps : HasRoom(p)}
    <2>1. sm \in Msg
      BY <1>4 DEF SndCast, SenderInv, TypeOK, Msg
    <2>2. /\ q' = [p \in Pipe |-> IF p \in to THEN Append(q[p], sm) ELSE q[p]]
          /\ sm' = 0 /\ UNCHANGED <<uwq, nmsg, hand>>
      BY <1>4 DEF SndCast
    <2> HIDE DEF to
    <2>3. ASSUME NEW p \in Pipe PROVE Elems(q'[p]) \subseteq Elems(q[p]) \union {sm}
      <3>1. Elems(Append(q[p], sm)) = Elems(q[p]) \union {sm}
        BY <2>1, PutsIn DEF TypeOK
      <3> QED
        BY <2>2, <3>1
    <2>4. 0 <= nmsg
      BY DEF TypeOK
    <2> QED
      BY <2>2, <2>3, <2>4 DEF FreshInv
  <1>5. ASSUME NEW p \in Pipe, PeerTake(p) PROVE FreshInv'
    <2>1. /\ q[p] # <<>> /\ q[p] \in Seq(Msg)
          /\ hand'[p] = Head(q[p]) /\ q'[p] = Tail(q[p])
          /\ \A r \in Pipe : r # p => hand'[r] = hand[r] /\ q'[r] = q[r]
          /\ UNCHANGED <<uwq, nmsg, sm>>
      BY <1>5 DEF PeerTake, TypeOK
    <2>2. Elems(q[p]) = {hand'[p]} \union Elems(q'[p])
      BY <2>1, TakesOut
    <2> QED
      BY <2>1, <2>2 DEF FreshInv
  <1>6. ASSUME NEW p \in Pipe, PeerSend(p) \/ PeerFail(p) PROVE FreshInv'
    <2>1. /\ hand' = [hand EXCEPT ![p] = 0] /\ UNCHANGED <<uwq, nmsg, sm, q>>
      BY <1>6 DEF PeerSend, PeerFail
    <2>2. 0 <= nmsg
      BY DEF TypeOK
    <2> QED
      BY <2>1, <2>2 DEF FreshInv, TypeOK
  <1>7. ASSUME NEW t \in Thread, SendEnter(t) \/ SendPanic(t) \/ SendFail(t)
        PROVE  UNCHANGED <<uwq, nmsg, sm, q, hand>>
    BY <1>7 DEF SendEnter, SendPanic, SendFail
  <1>8. ASSUME NEW p \in Pipe, AddEndpoint(p) \/ PipeDown(p) \/ RemoveEndpoint(p) \/ PeerNil(p)
        PROVE  UNCHANGED <<uwq, nmsg, sm, q, hand>>
    BY <1>8 DEF AddEndpoint, PipeDown, RemoveEndpoint, PeerNil
  <1>9. ASSUME SetWriteQLen \/ Dial \/ SndNil \/ SndExit \/ CloseCall \/ Expire \/ UNCHANGED vars
        PROVE  UNCHANGED <<uwq, nmsg, sm, q, hand>>
    BY <1>9 DEF SetWriteQLen, Dial, SndNil, SndExit, CloseCall, Expire, vars
  <1>10. ASSUME CloseStep PROVE UNCHANGED <<uwq, nmsg, sm, q, hand>>
    BY <1>10 DEF CloseStep, CloseMark, CloseDrained, ShutdownTake, CloseSweep, CloseReturn,
                 ShutdownPeer, SweepPipe
  <1> QED
    BY <1>1, <1>2, <1>3, <1>4, <1>5, <1>6, <1>7, <1>8, <1>9, <1>10 DEF Next, SndStep, PeerStep

LEMMA FreshNowhere ==
  ASSUME TypeOK, FreshInv, NEW m \in Msg, m > nmsg
  PROVE  /\ Cardinality(Places(uwq, m)) = 0 /\ Cardinality(Places(q, m)) = 0
         /\ Cardinality(Hands(m)) = 0 /\ sm # m
  <1>1. /\ m \in Nat /\ nmsg \in Nat /\ sm \in Nat /\ \A p \in Pipe : hand[p] \in Nat
    BY DEF TypeOK, Msg
  <1>2. sm # m /\ Hands(m) = {}
    BY <1>1 DEF FreshInv, Hands
  <1>3. uwq \in [Gen -> Seq(Msg)] /\ q \in [Pipe -> Seq(Msg)]
    BY DEF TypeOK
  <1>4. ~ m <= nmsg
    BY <1>1
  <1>5. Places(uwq, m) = {}
    <2> SUFFICES ASSUME NEW pl \in Places(uwq, m) PROVE FALSE
      OBVIOUS
    <2>1. pl[1] \in Gen /\ pl[2] \in 1 .. Len(uwq[pl[1]]) /\ uwq[pl[1]][pl[2]] = m
      BY <1>3, PlacesAre
    <2>2. m \in Elems(uwq[pl[1]])
      BY <2>1 DEF Elems
    <2> QED
      BY <1>4, <2>1, <2>2 DEF FreshInv
  <1>6. Places(q, m) = {}
    <2> SUFFICES ASSUME NEW pl \in Places(q, m) PROVE FALSE
      OBVIOUS
    <2>1. pl[1] \in Pipe /\ pl[2] \in 1 .. Len(q[pl[1]]) /\ q[pl[1]][pl[2]] = m
      BY <1>3, PlacesAre
    <2>2. m \in Elems(q[pl[1]])
      BY <2>1 DEF Elems
    <2> QED
      BY <1>4, <2>1, <2>2 DEF FreshInv
  <1> QED
    BY <1>2, <1>5, <1>6, FS_EmptySet

(* A reference is counted when a copy is put somewhere, and freed when the *)
(* copy is gone.                                                           *)
LEMMA StepRefs ==
  ASSUME TypeOK, TypeOK', SenderInv, FreshInv, RefInv, [Next]_vars
  PROVE  RefInv'
  <1> USE DEF sockVars, thrVars, sndVars, peerVars, clsVars
  <1> DEFINE H(m) == {p \in Pipe : hand'[p] = m}
             Goal(m) == refs'[m] = Cardinality(Places(uwq', m)) + Cardinality(Places(q', m))
                                   + Cardinality(H(m)) + (IF sm' = m THEN 1 ELSE 0)
  <1>a. SUFFICES ASSUME NEW m \in Msg PROVE Goal(m)
    BY DEF RefInv, Hands, Places
  <1>b. /\ IsFiniteSet(Places(uwq, m)) /\ Cardinality(Places(uwq, m)) \in Nat
        /\ IsFiniteSet(Places(q, m)) /\ Cardinality(Places(q, m)) \in Nat
        /\ IsFiniteSet(Hands(m)) /\ Cardinality(Hands(m)) \in Nat
    BY CountsAre
  <1>c. /\ uwq \in [Gen -> Seq(Msg)] /\ uwq' \in [Gen -> Seq(Msg)]
        /\ q \in [Pipe -> Seq(Msg)] /\ q' \in [Pipe -> Seq(Msg)]
        /\ refs \in [Msg -> Nat] /\ hand \in [Pipe -> 0 .. MaxMsg]
        /\ IsFiniteSet(Gen) /\ IsFiniteSet(Pipe)
    <2>1. IsFiniteSet(Gen) /\ IsFiniteSet(Pipe)
      BY LingerAssumption, FS_Interval DEF Gen
    <2>2. uwq \in [Gen -> Seq(Msg)] /\ q \in [Pipe -> Seq(Msg)]
      BY DEF TypeOK
    <2>3. uwq' \in [Gen -> Seq(Msg)] /\ q' \in [Pipe -> Seq(Msg)]
      BY DEF TypeOK
    <2>4. refs \in [Msg -> Nat] /\ hand \in [Pipe -> 0 .. MaxMsg]
      BY DEF TypeOK
    <2> QED
      BY <2>1, <2>2, <2>3, <2>4
  <1>k. /\ uwq \in Queues(Gen) /\ uwq' \in Queues(Gen)
        /\ q \in Queues(Pipe) /\ q' \in Queues(Pipe)
    BY <1>c DEF Queues
  <1>d. /\ \A g \in Gen : Len(uwq'[g]) <= UwqLen
        /\ \A p \in Pipe : Len(q'[p]) <= QLen
        /\ UwqLen \in Nat /\ QLen \in Nat
    BY LingerAssumption DEF TypeOK
  <1>e. Cardinality(Places(uwq', m)) \in Nat /\ Cardinality(Places(q', m)) \in Nat
    BY <1>c, <1>d, PlacesFinite
  <1>f. IsFiniteSet(H(m)) /\ Cardinality(H(m)) \in Nat
    BY <1>c, FS_Subset, FS_CardinalityType
  <1>h. refs[m] = Cardinality(Places(uwq, m)) + Cardinality(Places(q, m)) + Cardinality(Hands(m))
                  + (IF sm = m THEN 1 ELSE 0)
    BY DEF RefInv
  <1>i. hand' = hand => H(m) = Hands(m)
    BY DEF Hands
  <1>j. 0 # m
    BY DEF Msg
  <1> HIDE DEF H
  <1>1. CASE UNCHANGED <<refs, uwq, q, hand, sm>>
    BY <1>1, <1>h, <1>i
  <1>2. ASSUME NEW t \in Thread, SendOk(t) PROVE Goal(m)
    <2>1. nmsg \in Nat /\ nmsg + 1 \in Msg /\ gen \in Gen
      BY <1>2, LingerAssumption DEF SendOk, TypeOK, Msg
    <2>2. /\ uwq' = [uwq EXCEPT ![gen] = Append(@, nmsg + 1)]
          /\ refs' = [refs EXCEPT ![nmsg + 1] = 1] /\ UNCHANGED <<sm, q, hand>>
      BY <1>2 DEF SendOk, NewMessage
    <2>3. Appended(uwq, uwq', Gen, {gen}, nmsg + 1)
      BY <1>c, <2>1, <2>2 DEF Appended
    <2>4. {gen} \in SUBSET Gen /\ IsFiniteSet({gen}) /\ Cardinality({gen}) = 1
      BY <2>1, FS_Singleton
    <2>5. Cardinality(Places(uwq', m)) =
            Cardinality(Places(uwq, m)) + (IF nmsg + 1 = m THEN Cardinality({gen}) ELSE 0)
      BY <1>b, <1>k, <2>1, <2>3, <2>4, PlacesAppend
    <2>6. CASE m = nmsg + 1
      <3>1. /\ Cardinality(Places(uwq, m)) = 0 /\ Cardinality(Places(q, m)) = 0
            /\ Cardinality(Hands(m)) = 0 /\ sm # m
        <4>1. m > nmsg
          BY <2>1, <2>6
        <4> QED
          BY <4>1, FreshNowhere
      <3>2. refs'[m] = 1
        BY <1>c, <2>1, <2>2, <2>6
      <3> QED
        BY <1>i, <2>2, <2>4, <2>5, <2>6, <3>1, <3>2
    <2>7. CASE m # nmsg + 1
      <3>1. refs'[m] = refs[m]
        BY <1>c, <2>1, <2>2, <2>7
      <3> QED
        BY <1>b, <1>h, <1>i, <2>2, <2>5, <2>7, <3>1
    <2> QED
      BY <2>6, <2>7
  <1>3. CASE SndTake
    <2>1. /\ sm' = Head(uwq[sq]) /\ uwq' = [uwq EXCEPT ![sq] = Tail(@)] /\ uwq[sq] # <<>>
          /\ UNCHANGED <<refs, q, hand>> /\ sm = 0 /\ sq \in Gen
      BY <1>3 DEF SndTake, SenderInv, TypeOK
    <2>2. Cardinality(Places(uwq, m)) =
            Cardinality(Places(uwq', m)) + (IF Head(uwq[sq]) = m THEN 1 ELSE 0)
      <3>1. TakenOff(uwq, uwq', Gen, sq)
        BY <1>c, <2>1 DEF TakenOff
      <3> QED
        BY <1>b, <1>k, <2>1, <3>1, PlacesTail
    <2> QED
      BY <1>b, <1>e, <1>h, <1>i, <1>j, <2>1, <2>2
  <1>4. CASE SndCast
    <2> DEFINE to == {p \in eps : HasRoom(p)}
    <2>1. sm \in Msg
      BY <1>4 DEF SndCast, SenderInv, TypeOK, Msg
    <2>2. /\ q' = [p \in Pipe |-> IF p \in to THEN Append(q[p], sm) ELSE q[p]]
          /\ refs' = Free(Dup(refs, sm, Cardinality(to)), sm)
          /\ sm' = 0 /\ UNCHANGED <<uwq, hand>>
      BY <1>4 DEF SndCast
    <2>3. to \in SUBSET Pipe
      BY DEF TypeOK
    <2>4. IsFiniteSet(to) /\ Cardinality(to) \in Nat
      BY <1>c, <2>3, FS_Subset, FS_CardinalityType
    <2> HIDE DEF to
    <2>5. Appended(q, q', Pipe, to, sm)
      BY <2>2 DEF Appended
    <2>6. Cardinality(Places(q', m)) =
            Cardinality(Places(q, m)) + (IF sm = m THEN Cardinality(to) ELSE 0)
      BY <1>b, <1>k, <2>1, <2>3, <2>4, <2>5, PlacesAppend
    <2>7. refs'[m] = IF m = sm THEN refs[m] + Cardinality(to) - 1 ELSE refs[m]
      <3>1. PICK d : d = Dup(refs, sm, Cardinality(to))
        OBVIOUS
      <3>2. /\ DOMAIN d = Msg /\ d[sm] = refs[sm] + Cardinality(to)
            /\ m # sm => d[m] = refs[m]
        BY <1>c, <2>1, <3>1 DEF Dup
      <3>3. refs' = [d EXCEPT ![sm] = @ - 1]
        BY <2>2, <3>1 DEF Free
      <3>4. refs'[m] = IF m = sm THEN d[sm] - 1 ELSE d[m]
        BY <2>1, <3>2, <3>3
      <3>5. refs[sm] \in Nat
        BY <1>c, <2>1
      <3> QED
        BY <2>4, <3>2, <3>4, <3>5
    <2> QED
      BY <1>b, <1>h, <1>i, <1>j, <2>2, <2>4, <2>6, <2>7
  <1>5. ASSUME NEW p \in Pipe, PeerTake(p) PROVE Goal(m)
    <2>1. /\ q[p] # <<>> /\ q' = [q EXCEPT ![p] = Tail(@)]
          /\ hand' = [hand EXCEPT ![p] = Head(q[p])] /\ hand[p] = 0
          /\ UNCHANGED <<refs, uwq, sm>>
      BY <1>5 DEF PeerTake
    <2>2. Cardinality(Places(q, m)) =
            Cardinality(Places(q', m)) + (IF Head(q[p]) = m THEN 1 ELSE 0)
      <3>1. TakenOff(q, q', Pipe, p)
        BY <1>c, <2>1 DEF TakenOff
      <3>2. q[p] # <<>> /\ p \in Pipe /\ IsFiniteSet(Places(q, m))
        BY <1>b, <2>1
      <3> QED
        BY <1>k, <3>1, <3>2, PlacesTail
    <2>3. CASE Head(q[p]) = m
      <3>1. H(m) = Hands(m) \union {p} /\ p \notin Hands(m)
        BY <1>c, <1>j, <2>1, <2>3 DEF H, Hands
      <3>2. Cardinality(H(m)) = Cardinality(Hands(m)) + 1
        BY <1>b, <3>1, FS_AddElement
      <3> QED
        BY <1>b, <1>e, <1>h, <2>1, <2>2, <2>3, <3>2
    <2>4. CASE Head(q[p]) # m
      <3>1. H(m) = Hands(m)
        BY <1>c, <1>j, <2>1, <2>4 DEF H, Hands
      <3> QED
        BY <1>b, <1>e, <1>h, <2>1, <2>2, <2>4, <3>1
    <2> QED
      BY <2>3, <2>4
  <1>6. ASSUME NEW p \in Pipe, PeerSend(p) \/ PeerFail(p) PROVE Goal(m)
    <2>1. /\ hand' = [hand EXCEPT ![p] = 0] /\ refs' = [refs EXCEPT ![hand[p]] = @ - 1]
          /\ UNCHANGED <<uwq, q, sm>> /\ hand[p] # 0
      BY <1>6 DEF PeerSend, PeerFail, Free
    <2>2. CASE hand[p] = m
      <3>1. H(m) = Hands(m) \ {p} /\ p \in Hands(m)
        BY <1>c, <1>j, <2>1, <2>2 DEF H, Hands
      <3>2. Cardinality(H(m)) = Cardinality(Hands(m)) - 1
        BY <1>b, <3>1, FS_RemoveElement
      <3>3. refs'[m] = refs[m] - 1
        BY <1>c, <2>1, <2>2
      <3> QED
        BY <1>b, <1>h, <2>1, <3>2, <3>3
    <2>3. CASE hand[p] # m
      <3>1. H(m) = Hands(m)
        BY <1>c, <1>j, <2>1, <2>3 DEF H, Hands
      <3>2. refs'[m] = refs[m]
        BY <1>c, <2>1, <2>3
      <3> QED
        BY <1>h, <2>1, <3>1, <3>2
    <2> QED
      BY <2>2, <2>3
  <1> HIDE DEF Goal
  <1>7. ASSUME NEW t \in Thread, SendEnter(t) \/ SendPanic(t) \/ SendFail(t)
        PROVE  UNCHANGED <<refs, uwq, q, hand, sm>>
    BY <1>7 DEF SendEnter, SendPanic, SendFail
  <1>8. ASSUME NEW p \in Pipe, AddEndpoint(p) \/ PipeDown(p) \/ RemoveEndpoint(p) \/ PeerNil(p)
        PROVE  UNCHANGED <<refs, uwq, q, hand, sm>>
    BY <1>8 DEF AddEndpoint, PipeDown, RemoveEndpoint, PeerNil
  <1>9. ASSUME SetWriteQLen \/ Dial \/ SndNil \/ SndExit \/ CloseCall \/ Expire \/ UNCHANGED vars
        PROVE  UNCHANGED <<refs, uwq, q, hand, sm>>
    BY <1>9 DEF SetWriteQLen, Dial, SndNil, SndExit, CloseCall, Expire, vars
  <1>10. ASSUME CloseStep PROVE UNCHANGED <<refs, uwq, q, hand, sm>>
    BY <1>10 DEF CloseStep, CloseMark, CloseDrained, ShutdownTake, CloseSweep, CloseReturn,
                 ShutdownPeer, SweepPipe
  <1> QED
    BY <1>1, <1>2, <1>3, <1>4, <1>5, <1>6, <1>7, <1>8, <1>9, <1>10 DEF Next, SndStep, PeerStep

-----------------------------------------------------------------------------
(* The theorems.                                                           *)

(* All the model's variables keep their types, and the invariant holds     *)
(* that the other two theorems need (SendMsg, the senders, Close).         *)
THEOREM TypeCorrect == SafeSpec => [](TypeOK /\ DeliverInv /\ FreshInv /\ RefInv)
  <1> DEFINE Inv == TypeOK /\ DeliverInv /\ FreshInv /\ RefInv
  <1>1. Init => Inv
    BY InitType, InitDeliver, InitRefs
  <1>2. ASSUME Inv, [Next]_vars PROVE Inv'
    <2>1. TypeOK /\ SenderInv /\ AcceptInv /\ CloseInv /\ PeerInv /\ FreshInv /\ RefInv
      BY <1>2 DEF DeliverInv
    <2>2. TypeOK'
      BY <1>2, <2>1, StepType
    <2>3. SenderInv' /\ AcceptInv'
      BY <1>2, <2>1, StepSender, StepAccept
    <2>4. CloseInv' /\ PeerInv'
      BY <1>2, <2>1, StepClose, StepPeer
    <2>5. FreshInv' /\ RefInv'
      BY <1>2, <2>1, <2>2, StepFresh, StepRefs
    <2> QED
      BY <2>2, <2>3, <2>4, <2>5 DEF DeliverInv
  <1> QED
    BY <1>1, <1>2, PTL DEF SafeSpec

(* Close within its linger time loses nothing that was in the last queue   *)
(* and leaves each connected peer at most the message in its sender's hand *)
(* (Close, DrainChannel, Shutdown).                                        *)
THEOREM CloseDelivers == SafeSpec => []LingerDelivers
  <1>1. ASSUME TypeOK, DeliverInv PROVE LingerDelivers
    <2> DEFINE early == {m \in Msg : acc[m] = gen}
    <2> SUFFICES ASSUME cpc \in {"sweep", "done"}, ~expired
                 PROVE  /\ early \subseteq cast
                        /\ \A p \in Pipe : up[p] = "up" =>
                             Cardinality((owed[p] \intersect early) \ sent[p]) <= 1
      BY DEF LingerDelivers
    <2>1. spc = "exit" /\ sm = 0
      BY <1>1 DEF DeliverInv, CloseInv, SenderInv
    <2>2. early \subseteq cast
      BY <1>1, <2>1 DEF DeliverInv, CloseInv, closed, Msg
    <2>3. ASSUME NEW p \in Pipe, up[p] = "up"
          PROVE  Cardinality((owed[p] \intersect early) \ sent[p]) <= 1
      <3>1. q[p] = <<>> /\ owed[p] \subseteq sent[p] \union Elems(q[p]) \union {hand[p]}
        BY <1>1, <2>3 DEF DeliverInv, PeerInv
      <3>2. Elems(q[p]) = {}
        BY <3>1, EmptyQueue
      <3>3. (owed[p] \intersect early) \ sent[p] \subseteq {hand[p]}
        BY <3>1, <3>2
      <3>4. IsFiniteSet({hand[p]}) /\ Cardinality({hand[p]}) = 1
        BY FS_Singleton
      <3> HIDE DEF early
      <3> QED
        BY <3>3, <3>4, FS_Subset
    <2> QED
      BY <2>2, <2>3
  <1> QED
    BY <1>1, TypeCorrect, PTL

(* The reference count of a message is the number of places that hold it   *)
(* (Dup, Free, the senders).                                               *)
THEOREM RefCounts == SafeSpec => []RefsHeld
  <1>1. RefInv => RefsHeld
    BY DEF RefInv, RefsHeld, Places, Hands
  <1> QED
    BY <1>1, TypeCorrect, PTL

=============================================================================
