--------------------------- MODULE PatternsProofs ---------------------------
(***************************************************************************)
(* What is proved about the one-way patterns (Patterns), for any finite    *)
(* set of nodes, any links between them, devices and queue lengths: the    *)
(* type invariant, that a connection is served, and that where the links   *)
(* form no cycle a message reaches an application once, in order, and      *)
(* never its sender, and counts its hops.                                  *)
(***************************************************************************)
EXTENDS Patterns, FiniteSetTheorems, WellFoundedInduction, TLAPS

Made == {l \in Link : conn[l] # "none"}

(* Reachability without recursion: a set is closed if it has both nodes of *)
(* a link or none; every closed set that contains o contains what o        *)
(* reaches.                                                                *)
Closed(X, L) == \A l \in L : l \intersect X # {} => l \subseteq X
Reach(o, L) == {n \in Node : \A X \in SUBSET Node : o \in X /\ Closed(X, L) => n \in X}

(* The nodes that o reaches other than through h.                          *)
Avoiding(h) == {l \in Made : h \notin l}
From(o, h) == Reach(o, Avoiding(h))

(* The link from h to n leads away from o; o reaches n only through h.     *)
Outward(o, h, n) == {h, n} \in Made /\ h # n /\ h \in From(o, n)
Beyond(o, h, n) == n # h /\ n \notin From(o, h)

-----------------------------------------------------------------------------
(* Links and reachability.                                                 *)

LEMMA LinkFacts ==
  /\ \A l \in Link : \E n, k \in Node : n # k /\ l = {n, k}
  /\ \A n, k : {n, k} \in Made => n \in Node /\ k \in Node /\ n # k
  /\ \A l \in Made : l \in Link
  <1>1. \A l \in Link : \E n, k \in Node : n # k /\ l = {n, k}
    BY PatternAssumption
  <1>2. ASSUME NEW n, NEW k, {n, k} \in Link PROVE n \in Node /\ k \in Node /\ n # k
    <2>1. PICK x, y \in Node : x # y /\ {n, k} = {x, y}
      BY <1>1, <1>2
    <2> QED
      BY <2>1
  <1> QED
    BY <1>1, <1>2 DEF Made

(* What o reaches is closed, and contains o.                               *)
LEMMA ReachFacts ==
  ASSUME NEW o \in Node, NEW L
  PROVE  /\ o \in Reach(o, L) /\ Reach(o, L) \subseteq Node
         /\ \A n, k \in Node : n \in Reach(o, L) /\ {n, k} \in L => k \in Reach(o, L)
  <1>1. o \in Reach(o, L) /\ Reach(o, L) \subseteq Node
    BY DEF Reach
  <1>2. ASSUME NEW n \in Node, NEW k \in Node, n \in Reach(o, L), {n, k} \in L
        PROVE  k \in Reach(o, L)
    <2> SUFFICES ASSUME NEW X \in SUBSET Node, o \in X, Closed(X, L) PROVE k \in X
      BY <1>2 DEF Reach
    <2>1. n \in X
      BY <1>2 DEF Reach
    <2>2. {n, k} \intersect X # {}
      BY <2>1
    <2>3. {n, k} \subseteq X
      BY <1>2, <2>2 DEF Closed
    <2> QED
      BY <2>3
  <1> QED
    BY <1>1, <1>2

LEMMA FromFacts ==
  ASSUME NEW o \in Node, NEW h \in Node
  PROVE  /\ o \in From(o, h) /\ From(o, h) \subseteq Node
         /\ \A n, k : /\ n \in From(o, h) /\ {n, k} \in Made /\ n # h /\ k # h
                      => k \in From(o, h)
         /\ \A n : n \in From(h, h) => n = h
  <1>1. o \in From(o, h) /\ From(o, h) \subseteq Node
    BY ReachFacts DEF From
  <1>2. ASSUME NEW n, NEW k, n \in From(o, h), {n, k} \in Made, n # h, k # h
        PROVE  k \in From(o, h)
    <2>1. {n, k} \in Avoiding(h)
      BY <1>2 DEF Avoiding
    <2> QED
      BY <1>2, <2>1, LinkFacts, ReachFacts DEF From
  <1>3. ASSUME NEW n, n \in From(h, h) PROVE n = h
    <2>1. Closed({h}, Avoiding(h)) /\ {h} \in SUBSET Node
      BY DEF Closed, Avoiding
    <2> QED
      BY <1>3, <2>1 DEF From, Reach
  <1> QED
    BY <1>1, <1>2, <1>3

(* A path from o that avoids h does not meet what o reaches only by h.     *)
LEMMA FromWider ==
  ASSUME NEW o \in Node, NEW h \in Node, NEW n \in Node, n \notin From(o, h)
  PROVE  From(o, h) \subseteq From(o, n)
  <1> SUFFICES ASSUME NEW k \in From(o, h), NEW X \in SUBSET Node,
                      o \in X, Closed(X, Avoiding(n))
               PROVE  k \in X
    BY DEF From, Reach
  <1> DEFINE Y == X \intersect From(o, h)
  <1>1. ASSUME NEW l \in Avoiding(h), NEW x \in l, x \in Y PROVE l \subseteq Y
    <2>1. PICK y \in Node : l = {x, y}
      <3>1. l \in Link
        BY DEF Avoiding, Made
      <3> QED
        BY <3>1, LinkFacts
    <2>2. x # h /\ y # h /\ {x, y} \in Made
      BY <2>1 DEF Avoiding
    <2>3. y \in From(o, h)
      BY <1>1, <2>2, FromFacts
    <2>4. l \in Avoiding(n)
      BY <1>1, <2>1, <2>3 DEF Avoiding
    <2>5. l \subseteq X
      BY <1>1, <2>4 DEF Closed
    <2> QED
      BY <1>1, <2>1, <2>3, <2>5
  <1>2. Closed(Y, Avoiding(h))
    BY <1>1 DEF Closed
  <1>3. Y \in SUBSET Node /\ o \in Y
    BY FromFacts
  <1> QED
    BY <1>2, <1>3 DEF From, Reach

-----------------------------------------------------------------------------
(* Where the links form no cycle.                                          *)

(* The links P connect v and n.                                            *)
Joined(P, v, n) == \A X \in SUBSET Node : Closed(X, P) => (v \in X <=> n \in X)

LEMMA FromJoined ==
  ASSUME NEW o \in Node, NEW h \in Node, NEW v \in From(o, h), NEW n \in From(o, h)
  PROVE  Joined(Avoiding(h), v, n)
  <1> SUFFICES ASSUME NEW X \in SUBSET Node, Closed(X, Avoiding(h))
               PROVE  v \in X <=> n \in X
    BY DEF Joined
  <1>1. v \in Node /\ n \in Node
    BY FromFacts
  <1>2. CASE o \in X
    BY <1>2 DEF From, Reach
  <1>3. CASE o \notin X
    <2>1. ASSUME NEW l \in Avoiding(h), l \intersect (Node \ X) # {}
          PROVE  l \subseteq Node \ X
      <3>1. l \subseteq Node
        <4>1. l \in Link
          BY DEF Avoiding, Made
        <4> QED
          BY <4>1, LinkFacts
      <3>2. ~(l \subseteq X)
        BY <2>1
      <3>3. l \intersect X = {}
        BY <3>2 DEF Closed
      <3> QED
        BY <3>1, <3>3
    <2>2. Closed(Node \ X, Avoiding(h))
      BY <2>1 DEF Closed
    <2> QED
      BY <1>1, <1>3, <2>2 DEF From, Reach
  <1> QED
    BY <1>2, <1>3

(* A link with an end of its own does not help to connect.                 *)
LEMMA PruneJoined ==
  ASSUME NEW P \in SUBSET Made, NEW v \in Node, NEW n \in Node, Joined(P, v, n),
         NEW x \in Node \ {v, n}, NEW l \in P, x \in l, \A k \in P \ {l} : x \notin k
  PROVE  Joined(P \ {l}, v, n)
  <1> SUFFICES ASSUME NEW X \in SUBSET Node, Closed(X, P \ {l})
               PROVE  v \in X <=> n \in X
    BY DEF Joined
  <1>1. PICK y \in Node : l = {x, y} /\ y # x
    <2>1. l \in Link
      BY DEF Made
    <2> QED
      BY <2>1, LinkFacts
  <1> DEFINE Y == IF y \in X THEN X \union {x} ELSE X \ {x}
  <1>2. Y \in SUBSET Node /\ \A z \in Node \ {x} : z \in Y <=> z \in X
    OBVIOUS
  <1>3. ASSUME NEW k \in P, k \intersect Y # {} PROVE k \subseteq Y
    <2>1. CASE k = l
      BY <1>1, <1>3, <2>1
    <2>2. CASE k # l
      <3>1. x \notin k
        BY <2>2
      <3>2. k \intersect X # {}
        BY <1>3, <3>1
      <3>3. k \subseteq X
        BY <2>2, <3>2 DEF Closed
      <3> QED
        BY <3>1, <3>3
    <2> QED
      BY <2>1, <2>2
  <1>4. Closed(Y, P)
    BY <1>3 DEF Closed
  <1>5. v \in Y <=> n \in Y
    BY <1>2, <1>4 DEF Joined
  <1> QED
    BY <1>2, <1>5

(* Among the sets of links that connect v and n there is a smallest.       *)
LEMMA LeastJoined ==
  ASSUME NEW S, IsFiniteSet(S), NEW v, NEW n, Joined(S, v, n)
  PROVE  \E P \in SUBSET S :
           Joined(P, v, n) /\ \A Q \in SUBSET P : Joined(Q, v, n) => Q = P
  <1> DEFINE T == {P \in SUBSET S : Joined(P, v, n)}
             R == StrictSubsetOrdering(S)
  <1>1. IsWellFoundedOn(R, SUBSET S)
    BY FS_StrictSubsetOrderingWellFounded, FS_FiniteSubsetsOfFinite
  <1>2. T \subseteq SUBSET S /\ S \in T
    OBVIOUS
  <1>3. PICK P \in T : \A Q \in T : <<Q, P>> \notin R
    <2> HIDE DEF T, R
    <2> QED
      BY <1>1, <1>2, WFMin
  <1>4. ASSUME NEW Q \in SUBSET P, Joined(Q, v, n) PROVE Q = P
    <2>1. Q \in T
      BY <1>4
    <2>2. Q # P => <<Q, P>> \in R
      BY <2>1 DEF StrictSubsetOrdering
    <2> QED
      BY <1>3, <2>1, <2>2
  <1> QED
    BY <1>3, <1>4

LEMMA MadeFinite == IsFiniteSet(Made)
  <1>1. Made \in SUBSET (SUBSET Node)
    <2>1. \A l \in Link : l \subseteq Node
      BY LinkFacts
    <2> QED
      BY <2>1 DEF Made
  <1>2. IsFiniteSet(SUBSET Node)
    BY PatternAssumption, FS_SUBSET
  <1> QED
    BY <1>1, <1>2, FS_Subset

(* Of two neighbours of h, whoever reaches one without h reaches the other *)
(* only through h.                                                         *)
LEMMA Acyclic ==
  ASSUME Forest, NEW o \in Node, NEW h, NEW n, NEW v, {h, n} \in Made, {h, v} \in Made,
         n # v, v \in From(o, h)
  PROVE  n \notin From(o, h)
  <1> SUFFICES ASSUME n \in From(o, h) PROVE FALSE
    OBVIOUS
  <1>1. h \in Node /\ n \in Node /\ v \in Node /\ h # n /\ h # v
    BY LinkFacts
  <1>2. PICK P \in SUBSET Avoiding(h) :
          Joined(P, v, n) /\ \A Q \in SUBSET P : Joined(Q, v, n) => Q = P
    <2>1. Joined(Avoiding(h), v, n)
      BY <1>1, FromJoined
    <2>2. IsFiniteSet(Avoiding(h))
      BY MadeFinite, FS_Subset DEF Avoiding
    <2> QED
      BY <2>1, <2>2, LeastJoined
  <1> DEFINE L == P \union {{h, n}, {h, v}}
  <1>3. P \in SUBSET Made /\ \A l \in P : h \notin l
    BY DEF Avoiding
  <1>4. L \in SUBSET Made /\ L # {}
    BY <1>3
  <1>5. PICK x \in Node : Cardinality({l \in L : x \in l}) = 1
    <2>1. L \in (SUBSET Made) \ {{}}
      BY <1>4
    <2> HIDE DEF L
    <2> QED
      BY <2>1 DEF Forest, Made
  <1>6. PICK l : {k \in L : x \in k} = {l}
    <2>1. {k \in L : x \in k} \in SUBSET Made
      BY <1>4
    <2> HIDE DEF L
    <2>2. IsFiniteSet({k \in L : x \in k})
      BY <2>1, MadeFinite, FS_Subset
    <2> QED
      BY <1>5, <2>2, FS_Singleton
  <1>7. l \in L /\ x \in l /\ \A k \in L : x \in k => k = l
    BY <1>6
  <1>8. x # h
    <2>1. {h, n} # {h, v}
      BY <1>1
    <2> QED
      BY <1>7, <2>1
  <1>9. ASSUME NEW z \in {n, v}, x = z PROVE FALSE
    <2>1. l = {h, z}
      BY <1>7, <1>9
    <2>2. \A k \in P : z \notin k
      BY <1>3, <1>7, <1>9, <2>1
    <2>3. Closed({z}, P) /\ {z} \in SUBSET Node
      BY <1>1, <2>2 DEF Closed
    <2> QED
      BY <1>2, <2>3 DEF Joined
  <1>10. x \in Node \ {v, n} /\ l \in P /\ \A k \in P \ {l} : x \notin k
    BY <1>1, <1>7, <1>8, <1>9
  <1>11. Joined(P \ {l}, v, n)
    BY <1>1, <1>2, <1>3, <1>7, <1>10, PruneJoined
  <1> QED
    BY <1>2, <1>10, <1>11

Direct == proto \in {"pipeline", "pair", "pubsub"}

(* What comes to h from v, or from h itself, leaves it for other nodes.    *)
LEMMA Forward ==
  ASSUME Forest, NEW o \in Node, NEW h, NEW n, NEW v, Outward(o, v, h),
         {h, n} \in Made, n # v
  PROVE  Outward(o, h, n) /\ Beyond(o, h, n)
  <1>1. h \in Node /\ n \in Node /\ v \in Node /\ h # n /\ h # v
        /\ {h, v} \in Made /\ v \in From(o, h)
    <2>1. {h, v} = {v, h}
      OBVIOUS
    <2> QED
      BY <2>1, LinkFacts DEF Outward
  <1>2. n \notin From(o, h)
    BY <1>1, Acyclic
  <1>3. v \in From(o, n)
    BY <1>1, <1>2, FromWider
  <1>4. h \in From(o, n)
    <2>1. {v, h} \in Made
      BY DEF Outward
    <2> QED
      BY <1>1, <1>3, <2>1, FromFacts
  <1> QED
    BY <1>1, <1>2, <1>4 DEF Outward, Beyond

LEMMA Leave ==
  ASSUME NEW o, NEW n, {o, n} \in Made
  PROVE  Outward(o, o, n) /\ Beyond(o, o, n)
  <1>1. o \in Node /\ n \in Node /\ o # n
    BY LinkFacts
  <1> QED
    BY <1>1, FromFacts DEF Outward, Beyond

(* A node has one way back to o.                                           *)
LEMMA OneParent ==
  ASSUME Forest, NEW o \in Node, NEW n, NEW h, NEW v, Outward(o, h, n), Outward(o, v, n)
  PROVE  h = v
  <1>1. {n, h} = {h, n} /\ {n, v} = {v, n}
    OBVIOUS
  <1> QED
    BY <1>1, Acyclic DEF Outward

(* Outward is away from o, and what is beyond n is beyond h.               *)
LEMMA OutwardFacts ==
  ASSUME NEW o \in Node, NEW h, NEW n, Outward(o, h, n)
  PROVE  /\ h \in Node /\ n \in Node /\ h # n /\ n # o /\ {h, n} \in Made
         /\ \A k \in Node : k # n /\ {h, k} \in Made => k \in From(o, n)
         /\ \A k \in Node : k # h /\ Beyond(o, k, n) => Beyond(o, k, h)
         /\ Beyond(o, h, n) => \A k \in Node : Beyond(o, n, k) => Beyond(o, h, k)
  <1>1. h \in Node /\ n \in Node /\ h # n /\ {h, n} \in Made /\ h \in From(o, n)
    BY LinkFacts DEF Outward
  <1>2. n # o
    BY <1>1, FromFacts
  <1>3. ASSUME NEW k \in Node, k # n, {h, k} \in Made PROVE k \in From(o, n)
    BY <1>1, <1>3, FromFacts
  <1>4. ASSUME NEW k \in Node, k # h, Beyond(o, k, n) PROVE Beyond(o, k, h)
    BY <1>1, <1>4, FromFacts DEF Beyond
  <1>5. ASSUME Beyond(o, h, n), NEW k \in Node, Beyond(o, n, k) PROVE Beyond(o, h, k)
    <2>1. k \notin From(o, h)
      BY <1>1, <1>5, FromWider DEF Beyond
    <2>2. k # h
      BY <1>1, <1>5 DEF Beyond
    <2> QED
      BY <2>1, <2>2 DEF Beyond
  <1> QED
    BY <1>1, <1>2, <1>3, <1>4, <1>5

-----------------------------------------------------------------------------
(* Where the messages are.                                                 *)

Tame == Forest \/ Direct

Elems(s) == {s[i] : i \in 1 .. Len(s)}
Ids(s) == {c.id : c \in Elems(s)}

(* The messages at the places that they pass on their way to n and at n.   *)
Place(n, k) ==
  CASE k = 1 -> UNION {Ids(q[h][n]) : h \in Node}
    [] k = 2 -> {m \in Msg : \E h \in Node : in[n][h].id = m}
    [] k = 3 -> Ids(urq[n])
    [] k = 4 -> {c.id : c \in fwd[n]}
    [] k = 5 -> Ids(uwq[n])
    [] OTHER -> {m \in Msg : got[n][m] > 0}
Places == 1 .. 6
All(n) == UNION {Place(n, k) : k \in Places}

Relays(n) == proto = "bus" /\ n \in Device

(* What n may yet pass on.                                                 *)
Leaving(n) == IF Relays(n) THEN 1 .. 5 ELSE {1, 2, 5}
Coming(n) == UNION {Place(n, k) : k \in Leaving(n)}

(* i and j are the same, or their order has to be kept.                    *)
Before(i, j) ==
  i = j \/ (i < j /\ origin[i] = origin[j] /\ (proto = "bus" => Device = {}))

Sorted(s) == \A x, y \in 1 .. Len(s) : x < y => ~Before(s[y].id, s[x].id)

(* Nothing is known of a message before it is sent.                        *)
FreshInv ==
  /\ \A n \in Node : \A m \in All(n) : m <= nmsg
  /\ \A m \in 1 .. nmsg : origin[m] \in Node

EpInv == \A n \in Node : \A k \in eps[n] : {n, k} \in Made

(* Messages move away from where they were sent.                           *)
LinkFine(h, n, c) == Outward(origin[c.id], h, n) /\ (Direct => h = origin[c.id])
UpFine(n, c) == n # origin[c.id] /\ (proto = "bus" => Outward(origin[c.id], c.via, n))
FwdFine(n, c) == Relays(n) /\ Outward(origin[c.id], c.via, n)
DownFine(n, c) == (n = origin[c.id] /\ c.via = NoNode) \/ FwdFine(n, c)

AwayInv ==
  \A n \in Node :
    /\ \A h \in Node :
         /\ \A c \in Elems(q[h][n]) : LinkFine(h, n, c)
         /\ in[n][h] # NoMsg => LinkFine(h, n, in[n][h])
    /\ \A c \in Elems(urq[n]) : UpFine(n, c)
    /\ \A c \in fwd[n] : FwdFine(n, c)
    /\ \A c \in Elems(uwq[n]) : DownFine(n, c)
    /\ \A m \in Msg : got[n][m] > 0 => n # origin[m] /\ ~Relays(n)

(* At a node a message is in one place, and behind earlier ones.           *)
PlaceInv ==
  \A n \in Node : \A k, l \in Places : k < l =>
    \A i \in Place(n, k), j \in Place(n, l) : ~Before(i, j)

(* It is there once, and in order.                                         *)
OnceInv ==
  \A n \in Node :
    /\ Sorted(uwq[n]) /\ Sorted(urq[n]) /\ \A h \in Node : Sorted(q[h][n])
    /\ \A c, d \in fwd[n] : c.id = d.id => c = d
    /\ \A m \in Msg : got[n][m] <= 1

(* What a node may yet pass on is not known beyond it.                     *)
BeyondInv ==
  \A h, n \in Node : \A i \in Coming(h), j \in All(n) :
    Before(i, j) => ~Beyond(origin[i], h, n)

(* PUSH and PAIR: a message is at one node.                                *)
Solo == proto \in {"pipeline", "pair"}
SoloInv ==
  Solo => /\ \A h, n \in Node : q[h][n] = <<>>
          /\ \A h, n \in Node : \A m \in All(h) : m \in All(n) => h = n

WayInv == AwayInv /\ PlaceInv /\ OnceInv /\ BeyondInv /\ SoloInv
PathInv == Tame => FreshInv /\ WayInv

-----------------------------------------------------------------------------
(* Lemmas about the places.                                                *)

LEMMA SeqFacts ==
  ASSUME NEW S, NEW s \in Seq(S), s # <<>>
  PROVE  /\ Head(s) \in S /\ Tail(s) \in Seq(S) /\ Head(s) = s[1]
         /\ Len(s) \in Nat \ {0} /\ Len(Tail(s)) = Len(s) - 1
         /\ \A i \in 1 .. Len(Tail(s)) : i + 1 \in 1 .. Len(s) /\ Tail(s)[i] = s[i + 1]
  OBVIOUS

LEMMA AppendFacts ==
  ASSUME NEW S, NEW s \in Seq(S), NEW x \in S
  PROVE  /\ Append(s, x) \in Seq(S) /\ Len(s) \in Nat /\ Len(Append(s, x)) = Len(s) + 1
         /\ Append(s, x)[Len(s) + 1] = x
         /\ \A i \in 1 .. Len(s) : Append(s, x)[i] = s[i]
  OBVIOUS

LEMMA ElemsFacts ==
  ASSUME NEW S, NEW s \in Seq(S)
  PROVE  /\ Elems(<<>>) = {} /\ Elems(s) \subseteq S
         /\ \A x \in S : Elems(Append(s, x)) = Elems(s) \union {x}
         /\ s # <<>> => Head(s) \in Elems(s) /\ Elems(Tail(s)) \subseteq Elems(s)
  <1>1. Elems(<<>>) = {} /\ Elems(s) \subseteq S
    BY DEF Elems
  <1>2. ASSUME NEW x \in S PROVE Elems(Append(s, x)) = Elems(s) \union {x}
    <2>1. 1 .. Len(s) + 1 = (1 .. Len(s)) \union {Len(s) + 1}
      OBVIOUS
    <2> QED
      BY <2>1, AppendFacts DEF Elems
  <1>3. ASSUME s # <<>> PROVE Head(s) \in Elems(s) /\ Elems(Tail(s)) \subseteq Elems(s)
    <2>1. 1 \in 1 .. Len(s)
      BY <1>3
    <2> QED
      BY <1>3, <2>1, SeqFacts DEF Elems
  <1> QED
    BY <1>1, <1>2, <1>3

(* Of the places, when a message c is appended or the head taken.          *)
LEMMA IdsFacts ==
  ASSUME NEW s \in Seq(Copy)
  PROVE  /\ Ids(<<>>) = {} /\ Ids(s) \subseteq Msg
         /\ \A c \in Copy : Ids(Append(s, c)) = Ids(s) \union {c.id}
         /\ s # <<>> => Head(s).id \in Ids(s) /\ Ids(Tail(s)) \subseteq Ids(s)
  <1>1. \A c \in Copy : c.id \in Msg
    BY DEF Copy
  <1>2. Ids(<<>>) = {} /\ Ids(s) \subseteq Msg
    BY <1>1, ElemsFacts DEF Ids
  <1>3. ASSUME NEW c \in Copy PROVE Ids(Append(s, c)) = Ids(s) \union {c.id}
    <2>1. Elems(Append(s, c)) = Elems(s) \union {c}
      BY ElemsFacts
    <2> QED
      BY <2>1 DEF Ids
  <1>4. ASSUME s # <<>> PROVE Head(s).id \in Ids(s) /\ Ids(Tail(s)) \subseteq Ids(s)
    <2>1. Head(s) \in Elems(s) /\ Elems(Tail(s)) \subseteq Elems(s)
      BY <1>4, ElemsFacts
    <2> QED
      BY <2>1 DEF Ids
  <1> QED
    BY <1>2, <1>3, <1>4

LEMMA SortedTail ==
  ASSUME NEW s \in Seq(Copy), s # <<>>, Sorted(s)
  PROVE  Sorted(Tail(s)) /\ \A i \in Ids(Tail(s)) : ~Before(i, Head(s).id)
  <1>1. ASSUME NEW x \in 1 .. Len(Tail(s)), NEW y \in 1 .. Len(Tail(s)), x < y
        PROVE  ~Before(Tail(s)[y].id, Tail(s)[x].id)
    <2>1. x + 1 < y + 1 /\ Tail(s)[x] = s[x + 1] /\ Tail(s)[y] = s[y + 1]
          /\ x + 1 \in 1 .. Len(s) /\ y + 1 \in 1 .. Len(s)
      BY <1>1, SeqFacts
    <2> QED
      BY <2>1 DEF Sorted
  <1>2. ASSUME NEW i \in Ids(Tail(s)) PROVE ~Before(i, Head(s).id)
    <2>1. PICK x \in 1 .. Len(Tail(s)) : i = Tail(s)[x].id
      BY DEF Ids, Elems
    <2>2. 1 < x + 1 /\ Tail(s)[x] = s[x + 1] /\ Head(s) = s[1]
          /\ x + 1 \in 1 .. Len(s) /\ 1 \in 1 .. Len(s)
      BY SeqFacts
    <2> QED
      BY <2>1, <2>2 DEF Sorted
  <1> QED
    BY <1>1, <1>2 DEF Sorted

LEMMA SortedAppend ==
  ASSUME NEW s \in Seq(Copy), NEW c \in Copy, Sorted(s), \A i \in Ids(s) : ~Before(c.id, i)
  PROVE  Sorted(Append(s, c))
  <1> SUFFICES ASSUME NEW x \in 1 .. Len(s) + 1, NEW y \in 1 .. Len(s) + 1, x < y
               PROVE  ~Before(Append(s, c)[y].id, Append(s, c)[x].id)
    BY AppendFacts DEF Sorted
  <1>1. x \in 1 .. Len(s) /\ Append(s, c)[x] = s[x]
    BY AppendFacts
  <1>2. CASE y \in 1 .. Len(s)
    BY <1>1, <1>2, AppendFacts DEF Sorted
  <1>3. CASE y = Len(s) + 1
    <2>1. s[x].id \in Ids(s)
      BY <1>1 DEF Ids, Elems
    <2> QED
      BY <1>1, <1>3, <2>1, AppendFacts
  <1> QED
    BY <1>2, <1>3, AppendFacts

LEMMA SortedEmpty == Sorted(<<>>)
  BY DEF Sorted

(* What is at a node is a message.                                         *)
LEMMA PlaceType ==
  ASSUME TypeOK
  PROVE  \A n \in Node : \A k \in Places : Place(n, k) \subseteq Msg
  <1> SUFFICES ASSUME NEW n \in Node, NEW k \in Places PROVE Place(n, k) \subseteq Msg
    OBVIOUS
  <1>1. CASE k \in {1, 3, 5}
    <2>1. /\ urq[n] \in Seq(Copy) /\ uwq[n] \in Seq(Copy)
          /\ \A h \in Node : q[h][n] \in Seq(Copy)
      BY DEF TypeOK
    <2>2. \A h \in Node : Ids(q[h][n]) \subseteq Msg
      BY <2>1, IdsFacts
    <2> QED
      BY <1>1, <2>1, <2>2, IdsFacts DEF Place
  <1>2. CASE k = 4
    <2>1. \A c \in fwd[n] : c.id \in Msg
      BY DEF TypeOK, Copy
    <2> QED
      BY <1>2, <2>1 DEF Place
  <1>3. CASE k \in {2, 6}
    BY <1>3 DEF Place
  <1> QED
    BY <1>1, <1>2, <1>3 DEF Places

-----------------------------------------------------------------------------
(* The step of a message i from its place a at h: to place b at h, or to   *)
(* the place r of the nodes N, which h leads to, or both, or to nowhere.   *)

Same == Made' = Made /\ UNCHANGED <<origin, proto, nmsg>>

LEMMA SameFacts ==
  ASSUME Same
  PROVE  /\ \A o, h : From(o, h)' = From(o, h)
         /\ \A o, h, n : Outward(o, h, n)' <=> Outward(o, h, n)
         /\ \A o, h, n : Beyond(o, h, n)' <=> Beyond(o, h, n)
         /\ \A i, j : Before(i, j)' <=> Before(i, j)
         /\ \A n : (Relays(n)' <=> Relays(n)) /\ Leaving(n)' = Leaving(n)
         /\ (Direct' <=> Direct) /\ (Solo' <=> Solo)
  <1>1. \A o, h : From(o, h)' = From(o, h)
    BY DEF Same, From, Reach, Avoiding
  <1> QED
    BY <1>1 DEF Same, Outward, Beyond, Before, Relays, Leaving, Direct, Solo


-----------------------------------------------------------------------------
(* The type invariant.                                                     *)

LEMMA QCell ==
  ASSUME TypeOK, NEW n \in Node, NEW k \in Node, NEW s \in Seq(Copy), q' = [q EXCEPT ![n][k] = s]
  PROVE  /\ q' \in [Node -> [Node -> Seq(Copy)]] /\ q'[n][k] = s
         /\ \A h, j \in Node : h # n \/ j # k => q'[h][j] = q[h][j]
  <1>1. q \in [Node -> [Node -> Seq(Copy)]]
    BY DEF TypeOK
  <1>2. [q[n] EXCEPT ![k] = s] \in [Node -> Seq(Copy)]
    BY <1>1
  <1> QED
    BY <1>1, <1>2

LEMMA InCell ==
  ASSUME TypeOK, NEW n \in Node, NEW k \in Node, NEW c \in Copy \union {NoMsg},
         in' = [in EXCEPT ![n][k] = c]
  PROVE  /\ in' \in [Node -> [Node -> Copy \union {NoMsg}]] /\ in'[n][k] = c
         /\ \A h, j \in Node : h # n \/ j # k => in'[h][j] = in[h][j]
  <1>1. in \in [Node -> [Node -> Copy \union {NoMsg}]]
    BY DEF TypeOK
  <1>2. [in[n] EXCEPT ![k] = c] \in [Node -> Copy \union {NoMsg}]
    BY <1>1
  <1> QED
    BY <1>1, <1>2

LEMMA CopyFacts ==
  /\ \A c \in Copy : c.id \in Msg /\ c.id \in Nat \ {0} /\ c # NoMsg
  /\ \A c \in Copy : NextHop(c) \in Copy /\ NextHop(c).id = c.id /\ NextHop(c).via = c.via
  /\ \A c \in Copy, k \in Node : LET d == [c EXCEPT !.via = k] IN
       d \in Copy /\ d.id = c.id /\ d.via = k
  <1>1. \A c \in Copy : c.id \in Msg /\ c.id \in Nat \ {0}
    BY PatternAssumption DEF Copy, Msg
  <1>2. NoMsg.id = 0
    BY DEF NoMsg
  <1>3. \A c \in Copy :
          NextHop(c) \in Copy /\ NextHop(c).id = c.id /\ NextHop(c).via = c.via
    BY DEF Copy, NextHop
  <1>4. ASSUME NEW c \in Copy, NEW k \in Node
        PROVE  LET d == [c EXCEPT !.via = k] IN d \in Copy /\ d.id = c.id /\ d.via = k
    BY DEF Copy
  <1> QED
    BY <1>1, <1>2, <1>3, <1>4

LEMMA OfferFacts ==
  ASSUME TypeOK, NEW n \in Node, NEW c \in Copy, NEW S
  PROVE  /\ Offer(n, c, S) \in [Node -> Seq(Copy)]
         /\ \A k \in Node : Offer(n, c, S)[k] = q[n][k]
                            \/ (k \in S /\ Offer(n, c, S)[k] = Append(q[n][k], c))
  <1>1. \A k \in Node : q[n][k] \in Seq(Copy)
    BY DEF TypeOK
  <1>2. \A k \in Node : Append(q[n][k], c) \in Seq(Copy)
    BY <1>1, AppendFacts
  <1> QED
    BY <1>1, <1>2 DEF Offer

LEMMA QRow ==
  ASSUME TypeOK, NEW n \in Node, NEW c \in Copy, NEW S, q' = [q EXCEPT ![n] = Offer(n, c, S)]
  PROVE  /\ q' \in [Node -> [Node -> Seq(Copy)]]
         /\ \A h, k \in Node :
              \/ q'[h][k] = q[h][k]
              \/ h = n /\ k \in S /\ q'[h][k] = Append(q[h][k], c)
  <1>1. q \in [Node -> [Node -> Seq(Copy)]]
    BY DEF TypeOK
  <1> QED
    BY <1>1, OfferFacts

LEMMA InitType == Init => TypeOK
  <1> SUFFICES ASSUME Init PROVE TypeOK
    OBVIOUS
  <1>1. proto \in Protocol /\ ttl \in Nat
    BY PatternAssumption DEF Init
  <1>2. /\ conn \in [Link -> {"none", "up", "down"}]
        /\ called \in [Node -> [Node -> {"none", "added", "removed"}]]
        /\ eps \in [Node -> SUBSET Node]
    BY DEF Init
  <1>3. /\ uwq \in [Node -> Seq(Copy)] /\ urq \in [Node -> Seq(Copy)]
        /\ q \in [Node -> [Node -> Seq(Copy)]] /\ subs \in [Node -> Seq(Topic)]
    BY DEF Init
  <1>4. in \in [Node -> [Node -> Copy \union {NoMsg}]] /\ fwd \in [Node -> SUBSET Copy]
    BY DEF Init
  <1>5. /\ nmsg \in 0 .. MaxMsg /\ origin \in [Msg -> Node \union {NoNode}]
        /\ got \in [Node -> [Msg -> 0 .. 2]]
    BY PatternAssumption DEF Init
  <1> QED
    BY <1>1, <1>2, <1>3, <1>4, <1>5 DEF TypeOK

(* The steps of connections.                                               *)
LEMMA LinkType ==
  ASSUME TypeOK, NEW l \in Link, Dial(l) \/ PipeDown(l)
  PROVE  TypeOK'
  <1>1. /\ conn' \in [Link -> {"none", "up", "down"}]
        /\ UNCHANGED <<proto, ttl, called, eps, uwq, urq, q, in, fwd, appVars>>
    BY DEF Dial, PipeDown, TypeOK
  <1> QED
    BY <1>1 DEF TypeOK, appVars

LEMMA EndpointType ==
  ASSUME TypeOK, NEW n \in Node, NEW k \in Node, AddEndpoint(n, k) \/ RemoveEndpoint(n, k)
  PROVE  TypeOK'
  <1>1. CASE AddEndpoint(n, k)
    <2>1. /\ called' \in [Node -> [Node -> {"none", "added", "removed"}]]
          /\ {n, k} \in Link
          /\ UNCHANGED <<proto, ttl, uwq, urq, q, in, fwd, appVars>>
      BY <1>1 DEF AddEndpoint, TypeOK
    <2>2. \/ Enlist(n, k)
          \/ conn' = [conn EXCEPT ![{n, k}] = "down"] /\ UNCHANGED eps
      BY <1>1 DEF AddEndpoint, PushAdd, PubAdd, BusAdd, StarAdd, PairAdd
    <2>3. conn' \in [Link -> {"none", "up", "down"}] /\ eps' \in [Node -> SUBSET Node]
      <3>1. /\ conn \in [Link -> {"none", "up", "down"}] /\ eps \in [Node -> SUBSET Node]
            /\ eps[n] \union {k} \in SUBSET Node
        BY DEF TypeOK
      <3> QED
        BY <2>1, <2>2, <3>1 DEF Enlist
    <2> QED
      BY <2>1, <2>3 DEF TypeOK, appVars
  <1>2. CASE RemoveEndpoint(n, k)
    <2>1. /\ called' \in [Node -> [Node -> {"none", "added", "removed"}]]
          /\ eps' \in [Node -> SUBSET Node]
      BY <1>2 DEF RemoveEndpoint, Delist, DropPeer, TypeOK
    <2>2. UNCHANGED q \/ CloseQueue(n, k)
      BY <1>2 DEF RemoveEndpoint, PushRemove, PairRemove, PubRemove, BusRemove, StarRemove
    <2>3. q' \in [Node -> [Node -> Seq(Copy)]]
      <3>1. <<>> \in Seq(Copy) /\ q \in [Node -> [Node -> Seq(Copy)]]
        BY DEF TypeOK
      <3>2. [q[n] EXCEPT ![k] = <<>>] \in [Node -> Seq(Copy)]
        BY <3>1
      <3> QED
        BY <2>2, <3>1, <3>2 DEF CloseQueue
    <2>4. UNCHANGED <<proto, ttl, conn, uwq, urq, in, fwd, appVars>>
      BY <1>2 DEF RemoveEndpoint
    <2> QED
      BY <2>1, <2>3, <2>4 DEF TypeOK, appVars
  <1> QED
    BY <1>1, <1>2

(* The steps of the application.                                           *)
LEMMA AppType ==
  ASSUME TypeOK, NEW n \in Node,
         \/ Send(n) \/ Recv(n)
         \/ \E s \in Topic : Subscribe(n, s) \/ Unsubscribe(n, s + 1)
  PROVE  TypeOK'
  <1>1. CASE Send(n)
    <2>1. PICK t \in Topic :
            uwq' = [uwq EXCEPT ![n] =
                      Append(@, [id |-> nmsg + 1, hops |-> 0, via |-> NoNode, topic |-> t])]
      <3>1. 0 \in Topic
        BY PatternAssumption DEF Topic
      <3> QED
        BY <1>1, <3>1 DEF Send
    <2>2. nmsg + 1 \in Msg /\ nmsg' \in 0 .. MaxMsg
      BY <1>1, PatternAssumption DEF Send, TypeOK, Msg
    <2>3. [id |-> nmsg + 1, hops |-> 0, via |-> NoNode, topic |-> t] \in Copy
      BY <2>2 DEF Copy
    <2>4. uwq' \in [Node -> Seq(Copy)]
      BY <2>1, <2>3, AppendFacts DEF TypeOK
    <2>5. origin' \in [Msg -> Node \union {NoNode}]
      BY <1>1 DEF Send, TypeOK
    <2>6. UNCHANGED <<proto, ttl, connVars, urq, q, in, fwd, subs, got>>
      BY <1>1 DEF Send
    <2> QED
      BY <2>2, <2>4, <2>5, <2>6 DEF TypeOK, connVars
  <1>2. CASE Recv(n)
    <2>1. Head(urq[n]).id \in Msg /\ Tail(urq[n]) \in Seq(Copy)
      BY <1>2, SeqFacts, CopyFacts DEF Recv, TypeOK
    <2>2. urq' \in [Node -> Seq(Copy)]
      BY <1>2, <2>1 DEF Recv, TypeOK
    <2>3. got' \in [Node -> [Msg -> 0 .. 2]]
      <3> DEFINE i == Head(urq[n]).id
      <3>1. got' = [got EXCEPT ![n][i] = IF @ < 2 THEN @ + 1 ELSE 2]
        BY <1>2 DEF Recv
      <3>2. got[n][i] \in 0 .. 2 /\ i \in Msg /\ got \in [Node -> [Msg -> 0 .. 2]]
        BY <2>1 DEF TypeOK
      <3>3. (IF got[n][i] < 2 THEN got[n][i] + 1 ELSE 2) \in 0 .. 2
        BY <3>2
      <3> HIDE DEF i
      <3> QED
        BY <3>1, <3>2, <3>3
    <2>4. UNCHANGED <<proto, ttl, connVars, uwq, q, in, fwd, subs, nmsg, origin>>
      BY <1>2 DEF Recv
    <2> QED
      BY <2>2, <2>3, <2>4 DEF TypeOK, connVars
  <1>3. ASSUME NEW s \in Topic, Subscribe(n, s) PROVE TypeOK'
    <2>1. subs' \in [Node -> Seq(Topic)]
      BY <1>3, AppendFacts DEF Subscribe, SubscribeTo, TypeOK
    <2> QED
      BY <1>3, <2>1 DEF Subscribe, TypeOK, connVars
  <1>4. ASSUME NEW s \in Topic, Unsubscribe(n, s + 1) PROVE TypeOK'
    <2> DEFINE last == Len(subs[n])
               u == [subs[n] EXCEPT ![s + 1] = subs[n][last]]
    <2>1. subs[n] \in Seq(Topic) /\ last \in Nat /\ s + 1 \in 1 .. last
      BY <1>4 DEF Unsubscribe, TypeOK
    <2>2. subs[n][last] \in Topic /\ last - 1 \in 0 .. last
      BY <2>1
    <2>3. u \in Seq(Topic) /\ Len(u) = last
      BY <2>1, <2>2
    <2>4. SubSeq(u, 1, last - 1) \in Seq(Topic)
      <3> HIDE DEF u, last
      <3> QED
        BY <2>2, <2>3
    <2>5. subs' = [subs EXCEPT ![n] = SubSeq(u, 1, last - 1)]
      BY <1>4 DEF Unsubscribe
    <2>6. subs' \in [Node -> Seq(Topic)]
      <3> HIDE DEF u, last
      <3> QED
        BY <2>4, <2>5 DEF TypeOK
    <2> QED
      BY <1>4, <2>6 DEF Unsubscribe, TypeOK, connVars
  <1> QED
    BY <1>1, <1>2, <1>3, <1>4

(* A message leaves the upper queue: it is offered to all, passed to one,  *)
(* or lost.                                                                *)
LEMMA SendStepType ==
  ASSUME TypeOK, NEW n \in Node,
         SendStep(n) \/ \E k \in Node : PushSend(n, k) \/ PairSend(n, k)
  PROVE  TypeOK'
  <1>1. ASSUME uwq[n] # <<>> PROVE Head(uwq[n]) \in Copy /\ Tail(uwq[n]) \in Seq(Copy)
    BY <1>1, SeqFacts DEF TypeOK
  <1>2. ASSUME NEW S, Broadcast(n, S) PROVE TypeOK'
    <2>1. uwq' \in [Node -> Seq(Copy)]
      BY <1>1, <1>2 DEF Broadcast, TypeOK
    <2>2. q' \in [Node -> [Node -> Seq(Copy)]]
      BY <1>1, <1>2, QRow DEF Broadcast
    <2>3. UNCHANGED <<proto, ttl, connVars, urq, in, fwd, appVars>>
      BY <1>2 DEF Broadcast
    <2> QED
      BY <2>1, <2>2, <2>3 DEF TypeOK, connVars, appVars
  <1>3. ASSUME NEW k \in Node, Take(n, k) PROVE TypeOK'
    <2>1. uwq' \in [Node -> Seq(Copy)]
      BY <1>1, <1>3 DEF Take, TypeOK
    <2>2. in' \in [Node -> [Node -> Copy \union {NoMsg}]]
      BY <1>1, <1>3, InCell DEF Take
    <2>3. UNCHANGED <<proto, ttl, connVars, urq, q, fwd, appVars>>
      BY <1>3 DEF Take
    <2> QED
      BY <2>1, <2>2, <2>3 DEF TypeOK, connVars, appVars
  <1>4. ASSUME NEW k \in Node, Lose(n, k) PROVE TypeOK'
    <2>1. uwq' \in [Node -> Seq(Copy)]
      BY <1>1, <1>4 DEF Lose, Discard, TypeOK
    <2>2. /\ called' \in [Node -> [Node -> {"none", "added", "removed"}]]
          /\ eps' \in [Node -> SUBSET Node]
      BY <1>4 DEF Lose, Delist, DropPeer, TypeOK
    <2>3. UNCHANGED <<proto, ttl, conn, urq, q, in, fwd, appVars>>
      BY <1>4 DEF Lose
    <2> QED
      BY <2>1, <2>2, <2>3 DEF TypeOK, appVars
  <1> QED
    BY <1>2, <1>3, <1>4 DEF SendStep, PubSend, BusSend, StarSend, PushSend, PairSend

LEMMA TransmitType ==
  ASSUME TypeOK, NEW n \in Node, NEW k \in Node, Transmit(n, k)
  PROVE  TypeOK'
  <1>1. Head(q[n][k]) \in Copy /\ Tail(q[n][k]) \in Seq(Copy)
    BY SeqFacts DEF Transmit, TypeOK
  <1>2. in' \in [Node -> [Node -> Copy \union {NoMsg}]]
    BY <1>1, InCell DEF Transmit
  <1>3. q' \in [Node -> [Node -> Seq(Copy)]]
    <2>1. q' = [q EXCEPT ![n][k] = Tail(q[n][k])]
      BY DEF Transmit, TypeOK
    <2> QED
      BY <1>1, <2>1, QCell
  <1>4. UNCHANGED <<proto, ttl, connVars, uwq, urq, fwd, appVars>>
    BY DEF Transmit
  <1> QED
    BY <1>2, <1>3, <1>4 DEF TypeOK, connVars, appVars

(* What a receiver does with the message it holds: the queues of the       *)
(* endpoints change for STAR only.                                         *)
LEMMA RecvFacts ==
  ASSUME TypeOK, NEW n \in Node, NEW k \in Node, RecvStep(n, k)
  PROVE  /\ in[n][k] \in Copy /\ in' = [in EXCEPT ![n][k] = NoMsg]
         /\ \/ UNCHANGED urq
            \/ /\ proto # "bus"
               /\ \E c \in {in[n][k], NextHop(in[n][k])} :
                    urq' = [urq EXCEPT ![n] = Append(@, c)]
            \/ /\ proto = "bus"
               /\ urq' = [urq EXCEPT ![n] = Append(@, [in[n][k] EXCEPT !.via = k])]
         /\ \/ UNCHANGED q
            \/ /\ proto = "star"
               /\ q' = [q EXCEPT ![n] = Offer(n, NextHop(in[n][k]), StarOthers(n, k))]
         /\ UNCHANGED <<proto, ttl, connVars, uwq, fwd, appVars>>
  <1>1. in[n][k] \in Copy
    BY DEF RecvStep, Ready, TypeOK
  <1>2. CASE PullRecv(n, k) \/ PairRecv(n, k)
    BY <1>1, <1>2 DEF PullRecv, PairRecv, PushUp, Received
  <1>3. CASE SubRecv(n, k)
    BY <1>1, <1>3 DEF SubRecv, UpOrDrop, PushUp, Received
  <1>4. CASE BusRecv(n, k)
    BY <1>1, <1>4 DEF BusRecv, UpOrDrop, PushUp, Received
  <1>5. CASE StarRecv(n, k)
    BY <1>1, <1>5 DEF StarRecv, UpOrDrop, PushUp, Received
  <1> QED
    BY <1>2, <1>3, <1>4, <1>5 DEF RecvStep

LEMMA RecvStepType ==
  ASSUME TypeOK, NEW n \in Node, NEW k \in Node, RecvStep(n, k)
  PROVE  TypeOK'
  <1> DEFINE c == in[n][k]
  <1>1. c \in Copy /\ NextHop(c) \in Copy /\ [c EXCEPT !.via = k] \in Copy
    BY RecvFacts, CopyFacts
  <1>2. in' \in [Node -> [Node -> Copy \union {NoMsg}]]
    <2>1. in' = [in EXCEPT ![n][k] = NoMsg]
      BY RecvFacts
    <2> QED
      BY <2>1, InCell
  <1>3. urq' \in [Node -> Seq(Copy)]
    <2>1. urq \in [Node -> Seq(Copy)]
      BY DEF TypeOK
    <2>2. \A d \in Copy : [urq EXCEPT ![n] = Append(@, d)] \in [Node -> Seq(Copy)]
      BY <2>1, AppendFacts
    <2>3. \/ UNCHANGED urq
          \/ \E d \in {c, NextHop(c), [c EXCEPT !.via = k]} :
               urq' = [urq EXCEPT ![n] = Append(@, d)]
      BY RecvFacts
    <2> QED
      BY <1>1, <2>1, <2>2, <2>3, ZenonT(40)
  <1>4. q' \in [Node -> [Node -> Seq(Copy)]]
    <2>1. q \in [Node -> [Node -> Seq(Copy)]]
      BY DEF TypeOK
    <2>2. UNCHANGED q \/ q' = [q EXCEPT ![n] = Offer(n, NextHop(c), StarOthers(n, k))]
      BY RecvFacts
    <2>3. ASSUME q' = [q EXCEPT ![n] = Offer(n, NextHop(c), StarOthers(n, k))]
          PROVE  q' \in [Node -> [Node -> Seq(Copy)]]
      BY <1>1, <2>3, QRow
    <2> QED
      BY <2>1, <2>2, <2>3
  <1>5. UNCHANGED <<proto, ttl, connVars, uwq, fwd, appVars>>
    BY RecvFacts
  <1> QED
    BY <1>2, <1>3, <1>4, <1>5 DEF TypeOK, connVars, appVars

LEMMA FwdStepType ==
  ASSUME TypeOK, NEW n \in Node, FwdStep(n)
  PROVE  TypeOK'
  <1>1. CASE FwdTake(n)
    <2>1. Head(urq[n]) \in Copy /\ Tail(urq[n]) \in Seq(Copy)
      BY <1>1, SeqFacts DEF FwdTake, TypeOK
    <2>2. urq' \in [Node -> Seq(Copy)] /\ fwd' \in [Node -> SUBSET Copy]
      BY <1>1, <2>1 DEF FwdTake, TypeOK
    <2> QED
      BY <1>1, <2>2 DEF FwdTake, TypeOK, connVars, appVars
  <1>2. ASSUME NEW c \in fwd[n], FwdSend(n, c) PROVE TypeOK'
    <2>1. c \in Copy
      BY DEF TypeOK
    <2>2. uwq' \in [Node -> Seq(Copy)]
      BY <1>2, <2>1, AppendFacts DEF FwdSend, TypeOK
    <2>3. fwd' \in [Node -> SUBSET Copy]
      BY <1>2 DEF FwdSend, TypeOK
    <2> QED
      BY <1>2, <2>2, <2>3 DEF FwdSend, TypeOK, connVars, appVars
  <1> QED
    BY <1>1, <1>2 DEF FwdStep

LEMMA StepType ==
  ASSUME TypeOK, [Next]_vars
  PROVE  TypeOK'
  <1>1. CASE UNCHANGED vars
    BY <1>1 DEF TypeOK, vars, connVars, appVars
  <1>2. ASSUME NEW n \in Node, NEW k \in Node, PeerStep(n, k) PROVE TypeOK'
    BY <1>2, SendStepType, TransmitType DEF PeerStep
  <1> QED
    BY <1>1, <1>2, LinkType, EndpointType, AppType, SendStepType, RecvStepType, FwdStepType
    DEF Next

(* Every variable keeps its type, for any nodes, links and messages.       *)
THEOREM TypeCorrect == SafeSpec => []TypeOK
  <1>1. Init => TypeOK
    BY InitType
  <1>2. TypeOK /\ [Next]_vars => TypeOK'
    BY StepType
  <1> QED
    BY <1>1, <1>2, PTL DEF SafeSpec

-----------------------------------------------------------------------------
(* Endpoint tables.                                                        *)

TableInv ==
  /\ EpInv /\ Served
  /\ \A n, k \in Node : called[n][k] = "added" => {n, k} \in Made

(* Links are made, and stay so.                                            *)
LEMMA MadeStep ==
  ASSUME TypeOK, [Next]_vars
  PROVE  /\ Made \subseteq Made'
         /\ (\A l \in Link : ~Dial(l)) => Made' = Made
  <1>1. CASE UNCHANGED vars
    BY <1>1 DEF Made, vars, connVars
  <1>2. ASSUME NEW l \in Link, Dial(l) PROVE Made \subseteq Made'
    BY <1>2 DEF Made, Dial, TypeOK
  <1>3. ASSUME NEW l \in Link, PipeDown(l) PROVE Made' = Made
    BY <1>3 DEF Made, PipeDown, TypeOK
  <1>4. ASSUME NEW n \in Node, NEW k \in Node, AddEndpoint(n, k) PROVE Made' = Made
    <2>1. {n, k} \in Link /\ conn[{n, k}] # "none"
      BY <1>4 DEF AddEndpoint
    <2>2. UNCHANGED conn \/ conn' = [conn EXCEPT ![{n, k}] = "down"]
      BY <1>4 DEF AddEndpoint, PushAdd, PubAdd, BusAdd, StarAdd, PairAdd, Enlist
    <2> QED
      BY <2>1, <2>2 DEF Made, TypeOK
  <1>5. ASSUME NEW n \in Node, NEW k \in Node, RemoveEndpoint(n, k) PROVE Made' = Made
    BY <1>5 DEF RemoveEndpoint, Made
  <1>6. ASSUME NEW n \in Node,
               \/ Send(n) \/ Recv(n) \/ SendStep(n) \/ FwdStep(n)
               \/ \E s \in Topic : Subscribe(n, s) \/ Unsubscribe(n, s + 1)
        PROVE  UNCHANGED connVars
    BY <1>6 DEF Send, Recv, SendStep, PubSend, BusSend, StarSend, Broadcast, FwdStep, FwdTake,
                FwdSend, Subscribe, Unsubscribe
  <1>7. ASSUME NEW n \in Node, NEW k \in Node, PeerStep(n, k) \/ RecvStep(n, k)
        PROVE  UNCHANGED conn
    BY <1>7 DEF PeerStep, Transmit, PushSend, PairSend, Take, Lose, connVars, RecvStep,
                PullRecv, PairRecv, SubRecv, BusRecv, StarRecv
  <1>8. UNCHANGED conn => Made' = Made
    BY DEF Made
  <1>9. UNCHANGED connVars => UNCHANGED conn
    BY DEF connVars
  <1> QED
    BY <1>1, <1>2, <1>3, <1>4, <1>5, <1>6, <1>7, <1>8, <1>9 DEF Next

LEMMA InitTable == Init => TableInv
  BY DEF Init, TableInv, EpInv, Served

LEMMA TableStep ==
  ASSUME TypeOK, TableInv, [Next]_vars
  PROVE  TableInv'
  <1> USE DEF TableInv
  <1>0. Made \subseteq Made'
    BY MadeStep
  <1>1. ASSUME UNCHANGED connVars PROVE TableInv'
    BY <1>1 DEF connVars, EpInv, Served, Made
  <1>2. ASSUME NEW l \in Link, Dial(l) PROVE TableInv'
    <2>1. UNCHANGED <<called, eps>>
      BY <1>2 DEF Dial
    <2>2. \A k \in Link : conn'[k] = "up" => conn[k] = "up" \/ (k = l /\ l \notin Made)
      BY <1>2 DEF Dial, TypeOK, Made
    <2> QED
      BY <1>0, <2>1, <2>2 DEF EpInv, Served
  <1>3. ASSUME NEW l \in Link, PipeDown(l) PROVE TableInv'
    <2>1. UNCHANGED <<called, eps>>
      BY <1>3 DEF PipeDown
    <2>2. \A k \in Link : conn'[k] = "up" => conn[k] = "up"
      BY <1>3 DEF PipeDown, TypeOK
    <2> QED
      BY <1>0, <2>1, <2>2 DEF EpInv, Served
  <1>4. ASSUME NEW n \in Node, NEW k \in Node, AddEndpoint(n, k) PROVE TableInv'
    <2>1. {n, k} \in Made /\ called' = [called EXCEPT ![n][k] = "added"]
      BY <1>4 DEF AddEndpoint, Made
    <2>2. \A m, j \in Node : called'[m][j] = "added" =>
            called[m][j] = "added" \/ (m = n /\ j = k)
      BY <2>1 DEF TypeOK
    <2>3. \/ eps' = [eps EXCEPT ![n] = @ \union {k}] /\ UNCHANGED conn
          \/ UNCHANGED eps /\ conn' = [conn EXCEPT ![{n, k}] = "down"]
      BY <1>4 DEF AddEndpoint, PushAdd, PubAdd, BusAdd, StarAdd, PairAdd, Enlist
    <2>4. CASE eps' = [eps EXCEPT ![n] = @ \union {k}] /\ UNCHANGED conn
      <3>1. /\ \A m \in Node : eps[m] \subseteq eps'[m]
            /\ \A m \in Node : \A j \in eps'[m] : j \in eps[m] \/ (m = n /\ j = k)
            /\ k \in eps'[n]
        BY <2>4 DEF TypeOK
      <3>2. EpInv'
        BY <1>0, <2>1, <3>1 DEF EpInv
      <3>3. Served'
        BY <2>2, <2>4, <3>1 DEF Served
      <3> QED
        BY <1>0, <2>1, <2>2, <3>2, <3>3
    <2>5. CASE UNCHANGED eps /\ conn' = [conn EXCEPT ![{n, k}] = "down"]
      <3>1. /\ \A l \in Link : conn'[l] = "up" => conn[l] = "up"
            /\ {n, k} \in Link => conn'[{n, k}] # "up"
        BY <2>5 DEF TypeOK
      <3>2. EpInv'
        BY <1>0, <2>5 DEF EpInv
      <3>3. Served'
        BY <2>2, <2>5, <3>1 DEF Served
      <3> QED
        BY <1>0, <2>1, <2>2, <3>2, <3>3
    <2> QED
      BY <2>3, <2>4, <2>5
  <1>5. ASSUME NEW n \in Node, NEW k \in Node, Delist(n, k), UNCHANGED conn PROVE TableInv'
    <2>1. /\ called' = [called EXCEPT ![n][k] = "removed"]
          /\ eps' = [eps EXCEPT ![n] = @ \ {k}]
      BY <1>5 DEF Delist, DropPeer
    <2>2. \A m, j \in Node : called'[m][j] = "added" =>
            called[m][j] = "added" /\ (m # n \/ j # k)
      BY <2>1 DEF TypeOK
    <2>3. \A m \in Node : \A j \in Node :
            j \in eps'[m] <=> j \in eps[m] /\ (m # n \/ j # k)
      BY <2>1 DEF TypeOK
    <2>4. \A m \in Node : eps'[m] \subseteq eps[m]
      BY <2>1 DEF TypeOK
    <2>5. EpInv'
      BY <1>0, <2>4 DEF EpInv
    <2>6. Served'
      BY <1>5, <2>2, <2>3 DEF Served
    <2> QED
      BY <1>0, <2>2, <2>5, <2>6
  <1>6. ASSUME NEW n \in Node,
               \/ Send(n) \/ Recv(n) \/ SendStep(n) \/ FwdStep(n)
               \/ \E s \in Topic : Subscribe(n, s) \/ Unsubscribe(n, s + 1)
        PROVE  UNCHANGED connVars
    BY <1>6 DEF Send, Recv, SendStep, PubSend, BusSend, StarSend, Broadcast, FwdStep, FwdTake,
                FwdSend, Subscribe, Unsubscribe
  <1>7. ASSUME NEW n \in Node, NEW k \in Node,
               PeerStep(n, k) \/ RecvStep(n, k) \/ RemoveEndpoint(n, k)
        PROVE  UNCHANGED connVars \/ (Delist(n, k) /\ UNCHANGED conn)
    BY <1>7 DEF PeerStep, Transmit, PushSend, PairSend, Take, Lose, RecvStep, PullRecv,
                PairRecv, SubRecv, BusRecv, StarRecv, RemoveEndpoint
  <1>8. UNCHANGED vars => UNCHANGED connVars
    BY DEF vars, connVars
  <1> HIDE DEF TableInv
  <1> QED
    BY <1>1, <1>2, <1>3, <1>4, <1>5, <1>6, <1>7, <1>8 DEF Next

THEOREM TablesHold == SafeSpec => []TableInv
  <1>1. Init => TableInv
    BY InitTable
  <1>2. TypeOK /\ TableInv /\ [Next]_vars => TableInv'
    BY TableStep
  <1> QED
    BY <1>1, <1>2, TypeCorrect, PTL DEF SafeSpec

(* A connection that is up has its place in the endpoint table, and so a   *)
(* sender, whatever was added and removed before (AddEndpoint,             *)
(* RemoveEndpoint).                                                        *)
THEOREM ServesAll == SafeSpec => []Served
  <1>1. TableInv => Served
    BY DEF TableInv
  <1> QED
    BY <1>1, TablesHold, PTL

-----------------------------------------------------------------------------
(* A step that moves copies of the message i: what is new is at the places *)
(* X, and is on its way.                                                   *)

NewAt(i, X) ==
  \A n \in Node :
    /\ \A h \in Node :
         /\ \A c \in Elems(q'[h][n]) :
              c \in Elems(q[h][n]) \/ (c.id = i /\ <<n, 1>> \in X /\ LinkFine(h, n, c))
         /\ \/ in'[n][h] \in {in[n][h], NoMsg}
            \/ in'[n][h].id = i /\ <<n, 2>> \in X /\ LinkFine(h, n, in'[n][h])
    /\ \A c \in Elems(urq'[n]) :
         c \in Elems(urq[n]) \/ (c.id = i /\ <<n, 3>> \in X /\ UpFine(n, c))
    /\ \A c \in fwd'[n] : c \in fwd[n] \/ (c.id = i /\ <<n, 4>> \in X /\ FwdFine(n, c))
    /\ \A c \in Elems(uwq'[n]) :
         c \in Elems(uwq[n]) \/ (c.id = i /\ <<n, 5>> \in X /\ DownFine(n, c))
    /\ \A m \in Msg : got'[n][m] > 0 =>
         got[n][m] > 0 \/ (m = i /\ <<n, 6>> \in X /\ n # origin[i] /\ ~Relays(n))

LEMMA NewPlaces ==
  ASSUME NEW i, NEW X, NewAt(i, X)
  PROVE  \A n \in Node, k \in Places : \A x \in Place(n, k)' :
           x \in Place(n, k) \/ (x = i /\ <<n, k>> \in X)
  <1> SUFFICES ASSUME NEW n \in Node, NEW k \in Places, NEW x \in Place(n, k)'
               PROVE  x \in Place(n, k) \/ (x = i /\ <<n, k>> \in X)
    OBVIOUS
  <1>1. CASE k = 1
    <2>0. PICK h \in Node : x \in {c.id : c \in Elems(q'[h][n])}
      BY <1>1 DEF Place, Ids
    <2>1. PICK c \in Elems(q'[h][n]) : x = c.id
      BY <2>0
    <2>2. CASE c \in Elems(q[h][n])
      BY <1>1, <2>1, <2>2 DEF Place, Ids
    <2> QED
      BY <1>1, <2>1, <2>2 DEF NewAt
  <1>2. CASE k = 2
    <2>1. PICK h \in Node : in'[n][h].id = x /\ x \in Msg
      BY <1>2 DEF Place
    <2>2. in'[n][h] # NoMsg
      <3>1. NoMsg.id = 0 /\ 0 \notin Msg
        BY DEF NoMsg, Msg
      <3> QED
        BY <2>1, <3>1
    <2>3. CASE in'[n][h] = in[n][h]
      BY <1>2, <2>1, <2>3 DEF Place
    <2> QED
      BY <1>2, <2>1, <2>2, <2>3 DEF NewAt
  <1>3. CASE k = 3
    <2>1. PICK c \in Elems(urq'[n]) : x = c.id
      BY <1>3 DEF Place, Ids
    <2>2. CASE c \in Elems(urq[n])
      BY <1>3, <2>1, <2>2 DEF Place, Ids
    <2> QED
      BY <1>3, <2>1, <2>2 DEF NewAt
  <1>4. CASE k = 4
    <2>1. PICK c \in fwd'[n] : x = c.id
      BY <1>4 DEF Place
    <2>2. CASE c \in fwd[n]
      BY <1>4, <2>1, <2>2 DEF Place
    <2> QED
      BY <1>4, <2>1, <2>2 DEF NewAt
  <1>5. CASE k = 5
    <2>1. PICK c \in Elems(uwq'[n]) : x = c.id
      BY <1>5 DEF Place, Ids
    <2>2. CASE c \in Elems(uwq[n])
      BY <1>5, <2>1, <2>2 DEF Place, Ids
    <2> QED
      BY <1>5, <2>1, <2>2 DEF NewAt
  <1>6. CASE k = 6
    <2>1. x \in Msg /\ got'[n][x] > 0
      BY <1>6 DEF Place
    <2>2. CASE got[n][x] > 0
      BY <1>6, <2>1, <2>2 DEF Place
    <2> QED
      BY <1>6, <2>1, <2>2 DEF NewAt
  <1> QED
    BY <1>1, <1>2, <1>3, <1>4, <1>5, <1>6 DEF Places

LEMMA NewAway ==
  ASSUME Same, AwayInv, NEW i, NEW X, NewAt(i, X)
  PROVE  AwayInv'
  <1>1. UNCHANGED origin
    BY DEF Same
  <1>2. /\ \A h, n, c : LinkFine(h, n, c)' <=> LinkFine(h, n, c)
        /\ \A n, c : UpFine(n, c)' <=> UpFine(n, c)
        /\ \A n, c : FwdFine(n, c)' <=> FwdFine(n, c)
        /\ \A n, c : DownFine(n, c)' <=> DownFine(n, c)
    BY SameFacts DEF Same, LinkFine, UpFine, FwdFine, DownFine
  <1> SUFFICES ASSUME NEW n \in Node
               PROVE  /\ \A h \in Node :
                           /\ \A c \in Elems(q'[h][n]) : LinkFine(h, n, c)'
                           /\ in'[n][h] # NoMsg => LinkFine(h, n, in[n][h])'
                      /\ \A c \in Elems(urq'[n]) : UpFine(n, c)'
                      /\ \A c \in fwd'[n] : FwdFine(n, c)'
                      /\ \A c \in Elems(uwq'[n]) : DownFine(n, c)'
                      /\ \A m \in Msg : got'[n][m] > 0 => n # origin'[m] /\ ~Relays(n)'
    BY DEF AwayInv
  <1>3. ASSUME NEW h \in Node PROVE \A c \in Elems(q'[h][n]) : LinkFine(h, n, c)
    BY DEF AwayInv, NewAt
  <1>4. ASSUME NEW h \in Node, in'[n][h] # NoMsg PROVE LinkFine(h, n, in[n][h])'
    <2>1. PICK c : c = in'[n][h]
      OBVIOUS
    <2>2. LinkFine(h, n, c)
      BY <1>4, <2>1 DEF AwayInv, NewAt
    <2>3. LinkFine(h, n, c)'
      BY <1>2, <2>2
    <2> QED
      BY <2>1, <2>3 DEF LinkFine
  <1>5. /\ \A c \in Elems(urq'[n]) : UpFine(n, c)
        /\ \A c \in fwd'[n] : FwdFine(n, c)
        /\ \A c \in Elems(uwq'[n]) : DownFine(n, c)
    BY DEF AwayInv, NewAt
  <1>6. \A m \in Msg : got'[n][m] > 0 => n # origin'[m] /\ ~Relays(n)'
    BY <1>1, SameFacts, ZenonT(40) DEF AwayInv, NewAt
  <1> QED
    BY <1>2, <1>3, <1>4, <1>5, <1>6

(* Queues in order after the step, and receipts.                           *)
OnceNext ==
  \A n \in Node :
    /\ Sorted(uwq'[n]) /\ Sorted(urq'[n]) /\ \A h \in Node : Sorted(q'[h][n])
    /\ \A c, d \in fwd'[n] : c.id = d.id => c = d
    /\ \A m \in Msg : got'[n][m] <= 1

LEMMA NewOnce ==
  ASSUME Same, OnceNext
  PROVE  OnceInv'
  <1>1. \A i, j : Before(i, j)' <=> Before(i, j)
    BY SameFacts
  <1> SUFFICES ASSUME NEW n \in Node
               PROVE  /\ Sorted(uwq[n])' /\ Sorted(urq[n])' /\ \A h \in Node : Sorted(q[h][n])'
                      /\ \A c, d \in fwd'[n] : c.id = d.id => c = d
                      /\ \A m \in Msg : got'[n][m] <= 1
    BY DEF OnceInv
  <1>2. Sorted(uwq[n])' /\ Sorted(urq[n])'
    BY <1>1 DEF OnceNext, Sorted
  <1>3. ASSUME NEW h \in Node PROVE Sorted(q[h][n])'
    BY <1>1 DEF OnceNext, Sorted
  <1> QED
    BY <1>2, <1>3 DEF OnceNext

LEMMA OldFacts ==
  ASSUME TypeOK, FreshInv
  PROVE  /\ \A n \in Node, k \in Places : \A x \in Place(n, k) :
              x \in All(n) /\ x \in 1 .. nmsg /\ x \in Msg /\ origin[x] \in Node
         /\ \A n \in Node : \A k \in Leaving(n) : \A x \in Place(n, k) : x \in Coming(n)
  <1>1. ASSUME NEW n \in Node, NEW k \in Places, NEW x \in Place(n, k)
        PROVE  x \in All(n) /\ x \in 1 .. nmsg /\ x \in Msg /\ origin[x] \in Node
    <2>1. x \in All(n) /\ x \in Msg
      BY PlaceType DEF All
    <2>2. x <= nmsg
      BY <2>1 DEF FreshInv
    <2>3. x \in 1 .. nmsg
      BY <2>1, <2>2 DEF Msg, TypeOK
    <2> QED
      BY <2>1, <2>3 DEF FreshInv
  <1>2. \A n \in Node : \A k \in Leaving(n) : \A x \in Place(n, k) : x \in Coming(n)
    BY DEF Coming
  <1> QED
    BY <1>1, <1>2

(* The message i goes from place a at h to place b there, or to place r of *)
(* the nodes N.                                                            *)
LEMMA Pass ==
  ASSUME TypeOK, Same, FreshInv, WayInv,
         NEW h \in Node, NEW a \in Places, NEW i \in Place(h, a),
         NEW b \in Places, a <= b, NEW N \in SUBSET Node, NEW r \in {1, 2},
         NewAt(i, {<<h, b>>} \union (N \X {r})), OnceNext,
         a \in Leaving(h) \/ (N = {} /\ b \notin Leaving(h)),
         \A n \in N : Outward(origin[i], h, n) /\ Beyond(origin[i], h, n),
         \A k \in Places : k < b => \A x \in Place(h, k)' : ~Before(x, i),
         N # {} => \A k \in Leaving(h) : \A x \in Place(h, k)' : ~Before(x, i),
         r = 1 \/ Solo,
         Solo => /\ \A g, n \in Node : q'[g][n] = <<>>
                 /\ N # {} => i \notin All(h)' /\ \A m, n \in N : m = n
  PROVE  FreshInv' /\ WayInv'
  <1> DEFINE X == {<<h, b>>} \union (N \X {r})
  <1>1. \A n \in Node, k \in Places : \A x \in Place(n, k)' :
          x \in Place(n, k) \/ (x = i /\ ((n = h /\ k = b) \/ (n \in N /\ k = r)))
    <2>1. \A n, k : <<n, k>> \in X <=> (n = h /\ k = b) \/ (n \in N /\ k = r)
      OBVIOUS
    <2> HIDE DEF X
    <2>2. NewAt(i, X)
      BY DEF X
    <2> QED
      BY <2>1, <2>2, NewPlaces
  <1>2. AwayInv'
    BY NewAway DEF WayInv
  <1>3. OnceInv'
    BY NewOnce
  <1>4. i \in All(h) /\ origin[i] \in Node /\ (i \in Coming(h) \/ (N = {} /\ b \notin Leaving(h)))
    BY OldFacts
  <1>5. Solo => \A n \in Node : Place(n, 1) = {}
    <2>1. Ids(<<>>) = {}
      BY DEF Ids, Elems
    <2>2. Solo => \A g, n \in Node : Ids(q[g][n]) = {}
      BY <2>1 DEF WayInv, SoloInv
    <2> QED
      BY <2>2 DEF Place
  <1> USE <1>1, <1>4, <1>5
  <1>6. /\ \A n \in Node, k \in Places : \A x \in Place(n, k) : x \in All(n)
        /\ \A n \in Node : \A k \in Leaving(n) : k \in Places
        /\ h \notin N
    <2>1. \A n \in Node, k \in Places : \A x \in Place(n, k) : x \in All(n)
      BY DEF All
    <2>2. \A n \in Node : \A k \in Leaving(n) : k \in Places
      BY DEF Leaving, Places
    <2>3. h \notin N
      BY DEF Outward
    <2> QED
      BY <2>1, <2>2, <2>3
  <1>7. \A n \in Node : \A x \in All(n)' : x \in All(n) \/ (x = i /\ n \in N)
    <2> SUFFICES ASSUME NEW n \in Node, NEW x \in All(n)'
                 PROVE  x \in All(n) \/ (x = i /\ n \in N)
      OBVIOUS
    <2>1. PICK k \in Places : x \in Place(n, k)'
      BY DEF All
    <2>2. x \in Place(n, k) => x \in All(n)
      BY DEF All
    <2> QED
      BY <1>1, <1>4, <2>1, <2>2
  <1>8. PlaceInv'
    <2> SUFFICES ASSUME NEW n \in Node, NEW k \in Places, NEW l \in Places, k < l,
                        NEW x \in Place(n, k)', NEW y \in Place(n, l)', Before(x, y)
                 PROVE  FALSE
      BY SameFacts DEF PlaceInv
    <2>1. CASE x \in Place(n, k) /\ y \in Place(n, l)
      BY <2>1 DEF WayInv, PlaceInv
    <2>2. CASE n = h
      <3>1. CASE y = i /\ l = b
        BY <2>2, <3>1
      <3>2. CASE x = i /\ k = b
        <4>1. y \in Place(h, l) /\ a < l
          BY <1>6, <2>2, <3>2 DEF Places
        <4> QED
          BY <3>2, <4>1 DEF WayInv, PlaceInv
      <3> QED
        BY <1>6, <2>1, <2>2, <3>1, <3>2
    <2>3. CASE n # h /\ n \in N /\ y = i /\ l = r
      <3>1. r = 2 /\ k = 1
        BY <2>3 DEF Places
      <3>2. x \in Place(n, 1)
        BY <2>3, <3>1
      <3> QED
        BY <2>3, <3>1, <3>2
    <2>4. CASE n # h /\ n \in N /\ x = i /\ k = r
      <3>1. y \in Place(n, l)
        BY <2>4
      <3>2. y \in All(n) /\ i \in Coming(h)
        BY <1>6, <2>4, <3>1
      <3> QED
        BY <2>4, <3>2 DEF WayInv, BeyondInv
    <2> QED
      BY <2>1, <2>2, <2>3, <2>4
  <1>9. \A n \in Node : \A x \in Coming(n)' : x \in Coming(n) \/ (x = i /\ n \in N)
    <2> SUFFICES ASSUME NEW n \in Node, NEW x \in Coming(n)'
                 PROVE  x \in Coming(n) \/ (x = i /\ n \in N)
      OBVIOUS
    <2>1. PICK k \in Leaving(n) : x \in Place(n, k)'
      BY SameFacts DEF Coming
    <2>2. x \in Place(n, k) => x \in Coming(n)
      BY DEF Coming
    <2> QED
      BY <1>6, <2>1, <2>2
  <1>10. BeyondInv'
    <2> SUFFICES ASSUME NEW k \in Node, NEW n \in Node, NEW x \in Coming(k)',
                        NEW y \in All(n)', Before(x, y), Beyond(origin[x], k, n)
                 PROVE  FALSE
      BY SameFacts DEF BeyondInv, Same
    <2>1. origin[x] = origin[y]
      BY DEF Before
    <2>2. CASE x \in Coming(k) /\ y \in All(n)
      BY <2>2 DEF WayInv, BeyondInv
    <2>3. CASE x = i /\ k \in N
      <3>1. Beyond(origin[i], h, n)
        BY <2>3, OutwardFacts
      <3>2. y \in All(n)
        <4>1. n \notin N
          <5>1. n \in N => {h, n} \in Made
            BY OutwardFacts
          <5> QED
            BY <2>3, <5>1, OutwardFacts DEF Beyond
        <4> QED
          BY <1>7, <4>1
      <3> QED
        BY <2>3, <1>6, <3>1, <3>2 DEF WayInv, BeyondInv
    <2>4. CASE x \in Coming(k) /\ y = i /\ n \in N
      <3>1. CASE k = h
        <4>1. PICK z \in Leaving(h) : x \in Place(h, z)'
          BY <3>1, SameFacts DEF Coming
        <4> QED
          BY <2>4, <4>1
      <3>2. CASE k # h
        <4>1. Beyond(origin[i], k, h)
          BY <2>1, <2>4, <3>2, OutwardFacts
        <4>2. i \in All(h)
          BY <1>6
        <4> QED
          BY <2>1, <2>4, <4>1, <4>2 DEF WayInv, BeyondInv
      <3> QED
        BY <3>1, <3>2
    <2> QED
      BY <1>7, <1>9, <2>2, <2>3, <2>4
  <1>11. SoloInv'
    <2> SUFFICES ASSUME Solo, NEW g \in Node, NEW n \in Node, NEW m \in All(g)', m \in All(n)'
                 PROVE  g = n
      BY SameFacts DEF SoloInv
    <2>1. CASE m # i \/ N = {}
      BY <1>7, <2>1 DEF WayInv, SoloInv
    <2>2. CASE m = i /\ N # {}
      <3>1. PICK k \in N : N = {k} /\ i \notin All(h)'
        BY <2>2
      <3>2. \A j \in Node : i \in All(j) => j = h
        BY <1>4 DEF WayInv, SoloInv
      <3>3. \A j \in Node : i \in All(j)' => j = k
        BY <1>7, <3>1, <3>2
      <3> QED
        BY <2>2, <3>3
    <2> QED
      BY <2>1, <2>2
  <1>12. FreshInv'
    <2>1. i <= nmsg
      BY <1>4 DEF FreshInv
    <2> QED
      BY <1>7, <2>1 DEF FreshInv, Same
  <1> QED
    BY <1>2, <1>3, <1>8, <1>10, <1>11, <1>12 DEF WayInv

-----------------------------------------------------------------------------
(* What comes from one node to h came in by one link.                      *)
LEMMA SameWay ==
  ASSUME Tame, NEW n, NEW h, NEW g, NEW c, NEW d, LinkFine(h, n, c), LinkFine(g, n, d),
         origin[c.id] \in Node, origin[c.id] = origin[d.id]
  PROVE  h = g
  <1>1. CASE Direct
    BY <1>1 DEF LinkFine
  <1>2. CASE Forest
    BY <1>2, OneParent DEF LinkFine
  <1> QED
    BY <1>1, <1>2 DEF Tame

(* Messages are given up.                                                  *)
LEMMA Drop ==
  ASSUME Same, FreshInv, WayInv, NewAt(0, {}), OnceNext, Solo => \A g, n \in Node : q'[g][n] = <<>>
  PROVE  FreshInv' /\ WayInv'
  <1>1. \A n \in Node, k \in Places : Place(n, k)' \subseteq Place(n, k)
    <2>1. PICK X : X = {}
      OBVIOUS
    <2>2. NewAt(0, X)
      BY <2>1
    <2>3. \A n \in Node, k \in Places : \A x \in Place(n, k)' :
            x \in Place(n, k) \/ (x = 0 /\ <<n, k>> \in X)
      BY <2>2, NewPlaces
    <2> QED
      BY <2>1, <2>3
  <1>2. AwayInv'
    BY NewAway DEF WayInv
  <1>3. OnceInv'
    BY NewOnce
  <1>4. \A n \in Node : All(n)' \subseteq All(n) /\ Coming(n)' \subseteq Coming(n)
    <2>1. \A n \in Node : Leaving(n)' = Leaving(n) /\ Leaving(n) \subseteq Places
      BY SameFacts DEF Leaving, Places
    <2> QED
      BY <1>1, <2>1 DEF All, Coming
  <1>5. PlaceInv'
    <2> SUFFICES ASSUME NEW n \in Node, NEW k \in Places, NEW l \in Places, k < l,
                        NEW x \in Place(n, k)', NEW y \in Place(n, l)', Before(x, y)
                 PROVE  FALSE
      BY SameFacts DEF PlaceInv
    <2> QED
      BY <1>1 DEF WayInv, PlaceInv
  <1>6. BeyondInv'
    <2> SUFFICES ASSUME NEW k \in Node, NEW n \in Node, NEW x \in Coming(k)',
                        NEW y \in All(n)', Before(x, y), Beyond(origin[x], k, n)
                 PROVE  FALSE
      BY SameFacts DEF BeyondInv, Same
    <2> QED
      BY <1>4 DEF WayInv, BeyondInv
  <1>7. SoloInv'
    <2> SUFFICES ASSUME Solo, NEW g \in Node, NEW n \in Node, NEW m \in All(g)', m \in All(n)'
                 PROVE  g = n
      BY SameFacts DEF SoloInv
    <2> QED
      BY <1>4 DEF WayInv, SoloInv
  <1>8. FreshInv'
    BY <1>4 DEF FreshInv, Same
  <1> QED
    BY <1>2, <1>3, <1>5, <1>6, <1>7, <1>8 DEF WayInv

(* A message goes on at its node.                                          *)
LEMMA Move ==
  ASSUME TypeOK, Same, FreshInv, WayInv,
         NEW h \in Node, NEW a \in Places, NEW i \in Place(h, a), NEW b \in Places, a < b,
         NewAt(i, {<<h, b>>}), OnceNext, a \in Leaving(h) \/ b \notin Leaving(h),
         \A x \in Place(h, a)' : ~Before(x, i),
         \A k \in Places : a < k /\ k < b => \A x \in Place(h, k) : ~Before(x, i),
         Solo => \A g, n \in Node : q'[g][n] = <<>>
  PROVE  FreshInv' /\ WayInv'
  <1>1. PICK N \in SUBSET Node : N = {}
    OBVIOUS
  <1>2. PICK r \in {1, 2} : r = 1
    OBVIOUS
  <1>3. NewAt(i, {<<h, b>>} \union (N \X {r}))
    <2>1. {<<h, b>>} \union (N \X {r}) = {<<h, b>>}
      BY <1>1
    <2> QED
      BY <2>1
  <1>4. ASSUME NEW k \in Places, k < b, NEW x \in Place(h, k)' PROVE ~Before(x, i)
    <2>1. PICK X : X = {<<h, b>>}
      OBVIOUS
    <2>2. x \in Place(h, k) \/ <<h, k>> \in X
      BY <2>1, NewPlaces
    <2>3. x \in Place(h, k)
      BY <1>4, <2>1, <2>2 DEF Places
    <2>4. CASE k < a
      BY <2>3, <2>4 DEF WayInv, PlaceInv
    <2>5. CASE k = a
      BY <2>5
    <2>6. CASE k > a
      BY <1>4, <2>3, <2>6
    <2> QED
      BY <2>4, <2>5, <2>6 DEF Places
  <1>5. /\ a <= b
        /\ a \in Leaving(h) \/ (N = {} /\ b \notin Leaving(h))
        /\ \A n \in N : Outward(origin[i], h, n) /\ Beyond(origin[i], h, n)
        /\ N # {} => \A k \in Leaving(h) : \A x \in Place(h, k)' : ~Before(x, i)
        /\ Solo => /\ \A g, n \in Node : q'[g][n] = <<>>
                   /\ N # {} => i \notin All(h)' /\ \A m, n \in N : m = n
    BY <1>1 DEF Places
  <1>6. \A k \in Places : k < b => \A x \in Place(h, k)' : ~Before(x, i)
    BY <1>4
  <1> QED
    BY <1>2, <1>3, <1>5, <1>6, Pass

-----------------------------------------------------------------------------
(* The steps that keep a message at its node.                              *)

LEMMA TransmitWay ==
  ASSUME TypeOK, FreshInv, Tame, WayInv, NEW n \in Node, NEW h \in Node, Transmit(n, h)
  PROVE  FreshInv' /\ WayInv'
  <1> DEFINE c == Head(q[n][h])
  <1>1. Same
    BY DEF Transmit, Same, connVars, appVars, Made
  <1>2. q[n][h] \in Seq(Copy) /\ q[n][h] # <<>> /\ c \in Copy
    <2>1. q[n][h] \in Seq(Copy) /\ q[n][h] # <<>>
      BY DEF Transmit, TypeOK
    <2> QED
      BY <2>1, SeqFacts
  <1>3. /\ q'[n][h] = Tail(q[n][h])
        /\ \A g, m \in Node : g # n \/ m # h => q'[g][m] = q[g][m]
        /\ in'[h][n] = c
        /\ \A g, m \in Node : g # n \/ m # h => in'[m][g] = in[m][g]
    BY DEF Transmit, TypeOK
  <1>4. UNCHANGED <<uwq, urq, fwd, got>>
    BY DEF Transmit, appVars
  <1>5. c \in Elems(q[n][h]) /\ Elems(Tail(q[n][h])) \subseteq Elems(q[n][h])
    BY <1>2, ElemsFacts
  <1>6. LinkFine(n, h, c) /\ Sorted(q[n][h])
    BY <1>5 DEF WayInv, AwayInv, OnceInv
  <1>7. c.id \in Place(h, 1) /\ origin[c.id] \in Node
    <2>1. c.id \in Place(h, 1)
      BY <1>5 DEF Place, Ids
    <2> QED
      BY <2>1, OldFacts DEF Places
  <1>8. Sorted(Tail(q[n][h])) /\ \A x \in Ids(Tail(q[n][h])) : ~Before(x, c.id)
    BY <1>2, <1>6, SortedTail
  <1>9. OnceNext
    BY <1>3, <1>4, <1>8 DEF WayInv, OnceInv, OnceNext
  <1> HIDE DEF c
  <1>10. NewAt(c.id, {<<h, 2>>})
    BY <1>3, <1>4, <1>5, <1>6 DEF NewAt
  <1>11. ASSUME NEW x \in Place(h, 1)', Before(x, c.id) PROVE FALSE
    <2>1. PICK g \in Node : x \in Ids(q'[g][h])
      BY DEF Place, Ids
    <2>2. CASE g = n
      BY <1>3, <1>8, <1>11, <2>1, <2>2
    <2>3. CASE g # n
      <3>1. PICK d \in Elems(q[g][h]) : x = d.id
        BY <1>3, <2>1, <2>3 DEF Ids
      <3>2. LinkFine(g, h, d)
        BY DEF WayInv, AwayInv
      <3>3. origin[c.id] = origin[d.id]
        BY <1>11, <3>1 DEF Before
      <3> QED
        BY <1>6, <1>7, <2>3, <3>2, <3>3, SameWay
    <2> QED
      BY <2>2, <2>3
  <1>12. ~Solo
    BY <1>2 DEF WayInv, SoloInv
  <1>13. 1 \in Places /\ 2 \in Places /\ 1 \in Leaving(h) /\ \A k \in Places : ~(1 < k /\ k < 2)
    BY DEF Places, Leaving
  <1> QED
    BY <1>1, <1>7, <1>9, <1>10, <1>11, <1>12, <1>13, Move

(* A receiver passes its message up, or gives it up.                       *)
LEMMA UpWay ==
  ASSUME TypeOK, FreshInv, Tame, WayInv, NEW h \in Node, NEW g \in Node, Ready(h, g),
         Received(h, g), UNCHANGED <<proto, ttl, connVars, uwq, q, fwd, appVars>>,
         NEW c \in Copy, c.id = in[h][g].id, proto = "bus" => c.via = g,
         UNCHANGED urq \/ urq' = [urq EXCEPT ![h] = Append(@, c)]
  PROVE  FreshInv' /\ WayInv'
  <1> DEFINE i == in[h][g].id
  <1>1. Same
    BY DEF Same, connVars, appVars, Made
  <1>2. /\ in'[h][g] = NoMsg
        /\ \A m, k \in Node : m # h \/ k # g => in'[m][k] = in[m][k]
    BY DEF Received, TypeOK
  <1>3. in[h][g] # NoMsg /\ in[h][g] \in Copy /\ i \in Msg
    BY DEF Ready, TypeOK, Copy
  <1>4. i \in Place(h, 2) /\ origin[i] \in Node
    <2>1. i \in Place(h, 2)
      BY <1>3 DEF Place
    <2> QED
      BY <2>1, OldFacts DEF Places
  <1>5. LinkFine(g, h, in[h][g])
    BY <1>3 DEF WayInv, AwayInv
  <1>6. UpFine(h, c)
    BY <1>4, <1>5, OutwardFacts DEF LinkFine, UpFine
  <1>7. urq[h] \in Seq(Copy) /\ Ids(urq[h]) = Place(h, 3)
    BY DEF TypeOK, Place
  <1>8. /\ \A n \in Node : n # h => urq'[n] = urq[n]
        /\ urq'[h] = urq[h] \/ urq'[h] = Append(urq[h], c)
    BY DEF TypeOK
  <1>9. Elems(Append(urq[h], c)) = Elems(urq[h]) \union {c}
    BY <1>7, ElemsFacts
  <1>10. Sorted(Append(urq[h], c))
    <2>1. \A j \in Ids(urq[h]) : ~Before(c.id, j)
      BY <1>4, <1>7 DEF WayInv, PlaceInv, Places
    <2>2. Sorted(urq[h])
      BY DEF WayInv, OnceInv
    <2> QED
      BY <1>7, <2>1, <2>2, SortedAppend
  <1>11. OnceNext
    <2>1. UNCHANGED <<uwq, q, fwd, got>>
      BY DEF appVars
    <2>2. \A n \in Node : Sorted(urq'[n])
      BY <1>8, <1>10 DEF WayInv, OnceInv
    <2> QED
      BY <2>1, <2>2 DEF WayInv, OnceInv, OnceNext
  <1> HIDE DEF i
  <1>12. NewAt(i, {<<h, 3>>})
    <2>1. UNCHANGED <<uwq, q, fwd, got>>
      BY DEF appVars
    <2>2. \A n, k \in Node : in'[n][k] \in {in[n][k], NoMsg}
      BY <1>2
    <2>3. \A n \in Node : \A d \in Elems(urq'[n]) : d \in Elems(urq[n]) \/ (d = c /\ n = h)
      BY <1>8, <1>9
    <2>4. c.id = i
      BY DEF i
    <2> QED
      BY <1>6, <2>1, <2>2, <2>3, <2>4 DEF NewAt
  <1>13. ASSUME NEW x \in Place(h, 2)', Before(x, i) PROVE FALSE
    <2>1. PICK k \in Node : in'[h][k].id = x /\ x \in Msg
      BY DEF Place
    <2>2. k # g /\ in[h][k].id = x
      <3>1. NoMsg.id = 0 /\ 0 \notin Msg
        BY DEF NoMsg, Msg
      <3> QED
        BY <1>2, <2>1, <3>1
    <2>3. in[h][k] # NoMsg
      <3>1. NoMsg.id = 0 /\ 0 \notin Msg
        BY DEF NoMsg, Msg
      <3> QED
        BY <2>1, <2>2, <3>1
    <2>4. LinkFine(k, h, in[h][k])
      BY <2>3 DEF WayInv, AwayInv
    <2>5. origin[x] = origin[i]
      BY <1>13 DEF Before
    <2> QED
      BY <1>4, <1>5, <2>2, <2>4, <2>5, SameWay DEF i
  <1>14. Solo => \A m, n \in Node : q'[m][n] = <<>>
    BY DEF WayInv, SoloInv
  <1>15. 2 \in Places /\ 3 \in Places /\ 2 \in Leaving(h) /\ \A k \in Places : ~(2 < k /\ k < 3)
    BY DEF Places, Leaving
  <1> QED
    BY <1>1, <1>4, <1>11, <1>12, <1>13, <1>14, <1>15, Move

LEMMA RecvWay ==
  ASSUME TypeOK, FreshInv, Tame, WayInv, NEW h \in Node, NEW g \in Node, Ready(h, g),
         PullRecv(h, g) \/ PairRecv(h, g) \/ SubRecv(h, g) \/ BusRecv(h, g)
  PROVE  FreshInv' /\ WayInv'
  <1>1. in[h][g] \in Copy
    BY DEF Ready, TypeOK
  <1>2. Received(h, g) /\ UNCHANGED <<proto, ttl, connVars, uwq, q, fwd, appVars>>
    BY DEF PullRecv, PairRecv, SubRecv, BusRecv
  <1>3. PICK c \in {in[h][g], [in[h][g] EXCEPT !.via = g]} :
          /\ proto = "bus" => c = [in[h][g] EXCEPT !.via = g]
          /\ UNCHANGED urq \/ urq' = [urq EXCEPT ![h] = Append(@, c)]
    BY DEF PullRecv, PairRecv, SubRecv, BusRecv, PushUp, UpOrDrop
  <1>4. c \in Copy /\ c.id = in[h][g].id /\ (proto = "bus" => c.via = g)
    BY <1>1, <1>3 DEF Copy
  <1> QED
    BY <1>2, <1>3, <1>4, UpWay

LEMMA FwdTakeWay ==
  ASSUME TypeOK, FreshInv, Tame, WayInv, NEW h \in Node, FwdTake(h)
  PROVE  FreshInv' /\ WayInv'
  <1> DEFINE c == Head(urq[h])
  <1>1. Same
    BY DEF FwdTake, Same, connVars, appVars, Made
  <1>2. urq[h] \in Seq(Copy) /\ urq[h] # <<>> /\ c \in Copy
    <2>1. urq[h] \in Seq(Copy) /\ urq[h] # <<>>
      BY DEF FwdTake, TypeOK
    <2> QED
      BY <2>1, SeqFacts
  <1>3. /\ urq'[h] = Tail(urq[h]) /\ fwd'[h] = fwd[h] \union {c}
        /\ \A n \in Node : n # h => urq'[n] = urq[n] /\ fwd'[n] = fwd[n]
        /\ UNCHANGED <<uwq, q, in, got>>
    BY DEF FwdTake, TypeOK, appVars
  <1>4. c \in Elems(urq[h]) /\ Elems(Tail(urq[h])) \subseteq Elems(urq[h])
    BY <1>2, ElemsFacts
  <1>5. Relays(h) /\ UpFine(h, c)
    BY <1>4 DEF WayInv, AwayInv, FwdTake, Relays
  <1>6. FwdFine(h, c)
    BY <1>5 DEF FwdFine, UpFine, Relays
  <1>7. c.id \in Place(h, 3) /\ \A d \in fwd[h] : d.id \in Place(h, 4)
    BY <1>4 DEF Place, Ids
  <1>8. Sorted(Tail(urq[h])) /\ \A x \in Ids(Tail(urq[h])) : ~Before(x, c.id)
    <2>1. Sorted(urq[h])
      BY DEF WayInv, OnceInv
    <2> QED
      BY <1>2, <2>1, SortedTail
  <1> HIDE DEF c
  <1>9. \A d \in fwd[h] : d.id # c.id
    <2>1. \A d \in fwd[h] : ~Before(c.id, d.id)
      BY <1>7 DEF WayInv, PlaceInv, Places
    <2> QED
      BY <2>1 DEF Before
  <1>10. OnceNext
    <2>1. \A n \in Node : Sorted(urq'[n])
      BY <1>3, <1>8 DEF WayInv, OnceInv
    <2>2. \A n \in Node : \A x, y \in fwd'[n] : x.id = y.id => x = y
      BY <1>3, <1>9 DEF WayInv, OnceInv
    <2> QED
      BY <1>3, <2>1, <2>2 DEF WayInv, OnceInv, OnceNext
  <1>11. NewAt(c.id, {<<h, 4>>})
    BY <1>3, <1>4, <1>6 DEF NewAt
  <1>12. Place(h, 3)' = Ids(Tail(urq[h]))
    BY <1>3 DEF Place, Ids, Elems
  <1>13. Solo => \A m, n \in Node : q'[m][n] = <<>>
    BY <1>3 DEF WayInv, SoloInv
  <1>14. 3 \in Places /\ 4 \in Places /\ 3 \in Leaving(h) /\ \A k \in Places : ~(3 < k /\ k < 4)
    BY <1>5 DEF Places, Leaving
  <1> QED
    BY <1>1, <1>7, <1>8, <1>10, <1>11, <1>12, <1>13, <1>14, Move

LEMMA FwdSendWay ==
  ASSUME TypeOK, FreshInv, Tame, WayInv, NEW h \in Node, NEW c \in fwd[h], FwdSend(h, c)
  PROVE  FreshInv' /\ WayInv'
  <1>1. Same
    BY DEF FwdSend, Same, connVars, appVars, Made
  <1>2. uwq[h] \in Seq(Copy) /\ c \in Copy
    BY DEF TypeOK
  <1>3. /\ uwq'[h] = Append(uwq[h], c) /\ fwd'[h] = fwd[h] \ {c}
        /\ \A n \in Node : n # h => uwq'[n] = uwq[n] /\ fwd'[n] = fwd[n]
        /\ UNCHANGED <<urq, q, in, got>>
    BY DEF FwdSend, TypeOK, appVars
  <1>4. FwdFine(h, c)
    BY DEF WayInv, AwayInv
  <1>5. DownFine(h, c) /\ Relays(h)
    BY <1>4 DEF DownFine, FwdFine
  <1>6. c.id \in Place(h, 4) /\ Place(h, 5) = Ids(uwq[h])
    BY DEF Place
  <1>7. Sorted(Append(uwq[h], c))
    <2>1. \A j \in Ids(uwq[h]) : ~Before(c.id, j)
      BY <1>6 DEF WayInv, PlaceInv, Places
    <2>2. Sorted(uwq[h])
      BY DEF WayInv, OnceInv
    <2> QED
      BY <1>2, <2>1, <2>2, SortedAppend
  <1>8. OnceNext
    <2>1. \A n \in Node : Sorted(uwq'[n])
      BY <1>3, <1>7 DEF WayInv, OnceInv
    <2>2. \A n \in Node : \A x, y \in fwd'[n] : x.id = y.id => x = y
      BY <1>3 DEF WayInv, OnceInv
    <2> QED
      BY <1>3, <2>1, <2>2 DEF WayInv, OnceInv, OnceNext
  <1>9. NewAt(c.id, {<<h, 5>>})
    <2>1. Elems(Append(uwq[h], c)) = Elems(uwq[h]) \union {c}
      BY <1>2, ElemsFacts
    <2> QED
      BY <1>3, <1>5, <2>1 DEF NewAt
  <1>10. ASSUME NEW x \in Place(h, 4)', Before(x, c.id) PROVE FALSE
    <2>1. PICK d \in fwd[h] \ {c} : x = d.id
      BY <1>3 DEF Place
    <2>2. x # c.id
      BY <2>1 DEF WayInv, OnceInv
    <2>3. proto = "bus" /\ Device # {}
      BY <1>5 DEF Relays
    <2> QED
      BY <1>10, <2>2, <2>3 DEF Before
  <1>11. Solo => \A m, n \in Node : q'[m][n] = <<>>
    BY <1>3 DEF WayInv, SoloInv
  <1>12. 4 \in Places /\ 5 \in Places /\ 4 \in Leaving(h) /\ \A k \in Places : ~(4 < k /\ k < 5)
    BY <1>5 DEF Places, Leaving
  <1> QED
    BY <1>1, <1>6, <1>8, <1>9, <1>10, <1>11, <1>12, Move

(* What waits to be sent at a node that does not relay was sent there.     *)
LEMMA OwnFacts ==
  ASSUME WayInv, NEW h \in Node, ~Relays(h)
  PROVE  /\ \A c \in Elems(uwq[h]) : origin[c.id] = h
         /\ \A x \in Place(h, 5) : origin[x] = h
         /\ Place(h, 4) = {}
  <1>1. \A c \in Elems(uwq[h]) : origin[c.id] = h
    BY DEF WayInv, AwayInv, DownFine, FwdFine
  <1>2. \A x \in Place(h, 5) : origin[x] = h
    BY <1>1 DEF Place, Ids
  <1>3. fwd[h] = {}
    BY DEF WayInv, AwayInv, FwdFine
  <1>4. Place(h, 4) = {}
    BY <1>3 DEF Place
  <1> QED
    BY <1>1, <1>2, <1>4

LEMMA AppRecvWay ==
  ASSUME TypeOK, FreshInv, Tame, WayInv, NEW h \in Node, Recv(h)
  PROVE  FreshInv' /\ WayInv'
  <1> DEFINE i == Head(urq[h]).id
  <1>1. Same
    BY DEF Recv, Same, connVars, appVars, Made
  <1>2. urq[h] \in Seq(Copy) /\ urq[h] # <<>>
    BY DEF Recv, TypeOK
  <1>3. Head(urq[h]) \in Elems(urq[h]) /\ Elems(Tail(urq[h])) \subseteq Elems(urq[h])
    BY <1>2, ElemsFacts
  <1>4. ~Relays(h) /\ h # origin[i]
    BY <1>3 DEF WayInv, AwayInv, UpFine, Recv, Relays
  <1>5. i \in Place(h, 3) /\ i \in Msg
    <2>1. i \in Place(h, 3)
      BY <1>3 DEF Place, Ids
    <2> QED
      BY <2>1, OldFacts DEF Places
  <1>6. got[h][i] = 0
    <2>1. i \notin Place(h, 6)
      BY <1>5 DEF WayInv, PlaceInv, Places, Before
    <2>2. got[h][i] \in 0 .. 2
      BY <1>5 DEF TypeOK
    <2> QED
      BY <1>5, <2>1, <2>2 DEF Place
  <1>7. Sorted(Tail(urq[h])) /\ \A x \in Ids(Tail(urq[h])) : ~Before(x, i)
    <2>1. Sorted(urq[h])
      BY DEF WayInv, OnceInv
    <2> QED
      BY <1>2, <2>1, SortedTail
  <1>8. /\ urq'[h] = Tail(urq[h])
        /\ \A n \in Node : n # h => urq'[n] = urq[n]
        /\ UNCHANGED <<uwq, q, in, fwd>>
    BY DEF Recv, TypeOK
  <1>9. /\ got'[h][i] = 1
        /\ \A n \in Node, m \in Msg : n # h \/ m # i => got'[n][m] = got[n][m]
    <2>1. got' = [got EXCEPT ![h][i] = IF @ < 2 THEN @ + 1 ELSE 2]
      BY DEF Recv
    <2> HIDE DEF i
    <2> QED
      BY <1>5, <1>6, <2>1 DEF TypeOK
  <1> HIDE DEF i
  <1>10. OnceNext
    <2>1. \A n \in Node : Sorted(urq'[n])
      BY <1>7, <1>8 DEF WayInv, OnceInv
    <2>2. \A n \in Node, m \in Msg : got'[n][m] <= 1
      BY <1>9 DEF WayInv, OnceInv
    <2> QED
      BY <1>8, <2>1, <2>2 DEF WayInv, OnceInv, OnceNext
  <1>11. NewAt(i, {<<h, 6>>})
    <2>1. \A n \in Node, m \in Msg : got'[n][m] > 0 =>
            got[n][m] > 0 \/ (m = i /\ n = h)
      BY <1>9
    <2> QED
      BY <1>3, <1>4, <1>8, <2>1 DEF NewAt
  <1>12. Place(h, 3)' = Ids(Tail(urq[h]))
    BY <1>8 DEF Place, Ids, Elems
  <1>13. ASSUME NEW k \in Places, 3 < k, k < 6, NEW x \in Place(h, k), Before(x, i) PROVE FALSE
    <2>1. k = 4 \/ k = 5
      BY <1>13 DEF Places
    <2>2. origin[x] = h
      BY <1>4, <1>13, <2>1, OwnFacts
    <2> QED
      BY <1>4, <1>13, <2>2 DEF Before
  <1>14. Solo => \A m, n \in Node : q'[m][n] = <<>>
    BY <1>8 DEF WayInv, SoloInv
  <1>15. 3 \in Places /\ 6 \in Places /\ 6 \notin Leaving(h)
    BY DEF Places, Leaving
  <1> QED
    BY <1>1, <1>5, <1>7, <1>10, <1>11, <1>12, <1>13, <1>14, <1>15, Move

-----------------------------------------------------------------------------
(* The steps that pass a message on to other nodes.                        *)

(* The queues of the endpoints that c is offered to.                       *)
LEMMA OfferWay ==
  ASSUME TypeOK, WayInv, NEW h \in Node, NEW c \in Copy, c.id \in Coming(h),
         \A g, n \in Node :
           \/ q'[g][n] = q[g][n]
           \/ g = h /\ Beyond(origin[c.id], h, n) /\ q'[g][n] = Append(q[g][n], c)
  PROVE  \A g, n \in Node :
           /\ Sorted(q'[g][n])
           /\ \A d \in Elems(q'[g][n]) : d \in Elems(q[g][n]) \/ d = c
  <1> SUFFICES ASSUME NEW g \in Node, NEW n \in Node
               PROVE  /\ Sorted(q'[g][n])
                      /\ \A d \in Elems(q'[g][n]) : d \in Elems(q[g][n]) \/ d = c
    OBVIOUS
  <1>1. q[g][n] \in Seq(Copy) /\ Sorted(q[g][n])
    BY DEF TypeOK, WayInv, OnceInv
  <1>2. CASE q'[g][n] = q[g][n]
    BY <1>1, <1>2
  <1>3. CASE g = h /\ Beyond(origin[c.id], h, n) /\ q'[g][n] = Append(q[g][n], c)
    <2>1. ASSUME NEW j \in Ids(q[g][n]) PROVE ~Before(c.id, j)
      <3>1. j \in Place(n, 1)
        BY DEF Place
      <3>2. j \in All(n)
        BY <3>1 DEF All, Places
      <3> QED
        BY <1>3, <3>2 DEF WayInv, BeyondInv
    <2>2. Sorted(Append(q[g][n], c))
      BY <1>1, <2>1, SortedAppend
    <2>3. Elems(Append(q[g][n], c)) = Elems(q[g][n]) \union {c}
      BY <1>1, ElemsFacts
    <2> QED
      BY <1>3, <2>2, <2>3
  <1> QED
    BY <1>2, <1>3

(* The head of the upper queue is taken.                                   *)
LEMMA HeadWay ==
  ASSUME TypeOK, FreshInv, WayInv, NEW h \in Node, uwq[h] # <<>>,
         uwq' = [uwq EXCEPT ![h] = Tail(@)]
  PROVE  /\ Head(uwq[h]) \in Copy /\ DownFine(h, Head(uwq[h]))
         /\ Head(uwq[h]).id \in Place(h, 5) /\ Head(uwq[h]).id \in Coming(h)
         /\ origin[Head(uwq[h]).id] \in Node
         /\ \A x \in Place(h, 5)' : ~Before(x, Head(uwq[h]).id)
         /\ \A n \in Node : Sorted(uwq'[n]) /\ Elems(uwq'[n]) \subseteq Elems(uwq[n])
  <1>1. uwq[h] \in Seq(Copy) /\ Head(uwq[h]) \in Copy /\ Sorted(uwq[h])
    <2>1. uwq[h] \in Seq(Copy) /\ Sorted(uwq[h])
      BY DEF TypeOK, WayInv, OnceInv
    <2> QED
      BY <2>1, SeqFacts
  <1>2. Head(uwq[h]) \in Elems(uwq[h]) /\ Elems(Tail(uwq[h])) \subseteq Elems(uwq[h])
    BY <1>1, ElemsFacts
  <1>3. DownFine(h, Head(uwq[h]))
    BY <1>2 DEF WayInv, AwayInv
  <1>4. Head(uwq[h]).id \in Place(h, 5)
    BY <1>2 DEF Place, Ids
  <1>5. Head(uwq[h]).id \in Coming(h) /\ origin[Head(uwq[h]).id] \in Node
    <2>1. 5 \in Leaving(h) /\ 5 \in Places
      BY DEF Leaving, Places
    <2> QED
      BY <1>4, <2>1, OldFacts
  <1>6. /\ uwq'[h] = Tail(uwq[h])
        /\ \A n \in Node : n # h => uwq'[n] = uwq[n]
    BY DEF TypeOK
  <1>7. Sorted(Tail(uwq[h])) /\ \A x \in Ids(Tail(uwq[h])) : ~Before(x, Head(uwq[h]).id)
    BY <1>1, SortedTail
  <1>8. Place(h, 5)' = Ids(Tail(uwq[h]))
    <2>1. Place(h, 5)' = Ids(uwq'[h])
      BY DEF Place, Ids, Elems
    <2> QED
      BY <1>6, <2>1
  <1>9. \A n \in Node : Sorted(uwq'[n]) /\ Elems(uwq'[n]) \subseteq Elems(uwq[n])
    BY <1>2, <1>6, <1>7 DEF WayInv, OnceInv
  <1> QED
    BY <1>1, <1>3, <1>4, <1>5, <1>7, <1>8, <1>9

LEMMA BroadcastWay ==
  ASSUME TypeOK, EpInv, FreshInv, Tame, WayInv, NEW h \in Node, SendStep(h)
  PROVE  FreshInv' /\ WayInv'
  <1>1. uwq[h] # <<>> /\ uwq' = [uwq EXCEPT ![h] = Tail(@)] /\ ~Solo
    BY DEF SendStep, PubSend, BusSend, StarSend, Broadcast, Solo
  <1>2. PICK c : c = Head(uwq[h])
    OBVIOUS
  <1>3. PICK N \in SUBSET eps[h] :
          q' = [q EXCEPT ![h] = Offer(h, c, N)] /\ (proto = "bus" => c.via \notin N)
    BY <1>2 DEF SendStep, PubSend, BusSend, StarSend, Broadcast, BusOthers
  <1>4. PICK i : i = c.id
    OBVIOUS
  <1>5. /\ c \in Copy /\ DownFine(h, c) /\ i \in Place(h, 5) /\ i \in Coming(h)
        /\ origin[i] \in Node /\ \A x \in Place(h, 5)' : ~Before(x, i)
        /\ \A n \in Node : Sorted(uwq'[n]) /\ Elems(uwq'[n]) \subseteq Elems(uwq[n])
    BY <1>1, <1>2, <1>4, HeadWay
  <1>6. Same /\ UNCHANGED <<urq, in, fwd, got>>
    BY DEF SendStep, PubSend, BusSend, StarSend, Broadcast, Same, connVars, appVars, Made
  <1>7. N \in SUBSET Node /\ \A n \in N : {h, n} \in Made
    BY DEF TypeOK, EpInv
  <1>8. ASSUME NEW n \in N PROVE Outward(origin[i], h, n) /\ Beyond(origin[i], h, n) /\ LinkFine(h, n, c)
    <2>1. CASE h = origin[i]
      BY <1>4, <1>7, <2>1, Leave DEF LinkFine
    <2>2. CASE h # origin[i]
      <3>1. Relays(h) /\ Outward(origin[i], c.via, h)
        BY <1>4, <1>5, <2>2 DEF DownFine, FwdFine
      <3>2. Forest /\ ~Direct /\ n # c.via
        BY <1>3, <3>1 DEF Relays, Direct, Tame
      <3>3. Outward(origin[i], h, n) /\ Beyond(origin[i], h, n)
        BY <1>5, <1>7, <3>1, <3>2, Forward
      <3> QED
        BY <1>4, <3>2, <3>3 DEF LinkFine
    <2> QED
      BY <2>1, <2>2
  <1>9. \A g, n \in Node :
          /\ \/ q'[g][n] = q[g][n]
             \/ g = h /\ n \in N /\ q'[g][n] = Append(q[g][n], c)
          /\ Sorted(q'[g][n])
          /\ \A d \in Elems(q'[g][n]) : d \in Elems(q[g][n]) \/ d = c
    <2>1. \A g, n \in Node :
            q'[g][n] = q[g][n] \/ (g = h /\ n \in N /\ q'[g][n] = Append(q[g][n], c))
      <3>1. \A k \in Node : Offer(h, c, N)[k] = q[h][k]
                             \/ (k \in N /\ Offer(h, c, N)[k] = Append(q[h][k], c))
        BY <1>5, OfferFacts
      <3> QED
        BY <1>3, <3>1 DEF TypeOK
    <2>2. \A g, n \in Node :
            \/ q'[g][n] = q[g][n]
            \/ g = h /\ Beyond(origin[c.id], h, n) /\ q'[g][n] = Append(q[g][n], c)
      BY <1>4, <1>8, <2>1
    <2>3. \A g, n \in Node :
            /\ Sorted(q'[g][n])
            /\ \A d \in Elems(q'[g][n]) : d \in Elems(q[g][n]) \/ d = c
      BY <1>4, <1>5, <2>2, OfferWay
    <2> QED
      BY <2>1, <2>3
  <1>10. OnceNext
    BY <1>5, <1>6, <1>9 DEF WayInv, OnceInv, OnceNext
  <1>11. PICK r \in {1, 2} : r = 1
    OBVIOUS
  <1>12. NewAt(i, {<<h, 5>>} \union (N \X {r}))
    <2>1. PICK X : X = {<<h, 5>>} \union (N \X {r})
      OBVIOUS
    <2>2. \A n \in N : <<n, 1>> \in X
      BY <1>11, <2>1
    <2>3. \A g, n \in Node : \A d \in Elems(q'[g][n]) :
            d \in Elems(q[g][n]) \/ (d.id = i /\ <<n, 1>> \in X /\ LinkFine(g, n, d))
      BY <1>4, <1>8, <1>9, <2>2
    <2>4. NewAt(i, X)
      BY <1>5, <1>6, <2>3 DEF NewAt
    <2> QED
      BY <2>1, <2>4
  <1>13. h \notin N
    BY <1>7, LinkFacts
  <1>14. ASSUME NEW k \in Places, k < 5, NEW x \in Place(h, k)' PROVE ~Before(x, i)
    <2>1. PICK X : X = {<<h, 5>>} \union (N \X {r})
      OBVIOUS
    <2>2. <<h, k>> \notin X
      BY <1>13, <1>14, <2>1 DEF Places
    <2>3. NewAt(i, X)
      BY <1>12, <2>1
    <2>4. x \in Place(h, k)
      BY <2>2, <2>3, NewPlaces
    <2> QED
      BY <1>5, <1>14, <2>4 DEF WayInv, PlaceInv, Places
  <1>15. \A k \in Leaving(h) : \A x \in Place(h, k)' : ~Before(x, i)
    <2>1. \A k \in Leaving(h) : k \in Places /\ (k < 5 \/ k = 5)
      BY DEF Leaving, Places
    <2> QED
      BY <1>5, <1>14, <2>1
  <1>16. 5 \in Places /\ 5 <= 5 /\ 5 \in Leaving(h)
    BY DEF Places, Leaving
  <1>17. \A k \in Places : k < 5 => \A x \in Place(h, k)' : ~Before(x, i)
    BY <1>14
  <1> QED
    BY <1>1, <1>5, <1>6, <1>7, <1>8, <1>10, <1>11, <1>12, <1>15, <1>16, <1>17, Pass

LEMMA StarWay ==
  ASSUME TypeOK, EpInv, FreshInv, Tame, WayInv, NEW h \in Node, NEW g \in Node,
         Ready(h, g), StarRecv(h, g), in[h][g].hops < ttl
  PROVE  FreshInv' /\ WayInv'
  <1>1. PICK c : c = NextHop(in[h][g])
    OBVIOUS
  <1>2. PICK i : i = c.id
    OBVIOUS
  <1>3. PICK N : N = eps[h] \ {g}
    OBVIOUS
  <1>4. in[h][g] # NoMsg /\ in[h][g] \in Copy /\ c \in Copy /\ i = in[h][g].id /\ i \in Msg
    <2>1. in[h][g] # NoMsg /\ in[h][g] \in Copy
      BY DEF Ready, TypeOK
    <2> QED
      BY <1>1, <1>2, <2>1, CopyFacts
  <1>5. /\ q' = [q EXCEPT ![h] = Offer(h, c, N)]
        /\ UNCHANGED urq \/ urq' = [urq EXCEPT ![h] = Append(@, c)]
    <2>1. ~(in[h][g].hops >= ttl)
      BY <1>4 DEF Copy, TypeOK
    <2> QED
      BY <1>1, <1>3, <2>1 DEF StarRecv, StarOthers, UpOrDrop, PushUp
  <1>6. Same /\ UNCHANGED <<uwq, fwd, got>> /\ proto = "star"
    BY DEF StarRecv, Same, connVars, appVars, Made
  <1>7. /\ in'[h][g] = NoMsg
        /\ \A m, k \in Node : m # h \/ k # g => in'[m][k] = in[m][k]
    BY DEF StarRecv, Received, TypeOK
  <1>8. ~Solo /\ ~Direct /\ ~Relays(h) /\ Forest
    BY <1>6 DEF Solo, Direct, Relays, Tame
  <1>9. i \in Place(h, 2) /\ origin[i] \in Node /\ i \in Coming(h)
    <2>1. i \in Place(h, 2) /\ 2 \in Places /\ 2 \in Leaving(h)
      BY <1>4 DEF Place, Places, Leaving
    <2> QED
      BY <2>1, OldFacts
  <1>10. LinkFine(g, h, in[h][g])
    BY <1>4 DEF WayInv, AwayInv
  <1>11. Outward(origin[i], g, h) /\ h # origin[i] /\ UpFine(h, c)
    BY <1>2, <1>4, <1>6, <1>9, <1>10, OutwardFacts DEF LinkFine, UpFine
  <1>12. N \in SUBSET Node /\ h \notin N /\ \A n \in N : {h, n} \in Made /\ n # g
    BY <1>3, LinkFacts DEF TypeOK, EpInv
  <1>13. \A n \in N : Outward(origin[i], h, n) /\ Beyond(origin[i], h, n)
    BY <1>8, <1>9, <1>11, <1>12, Forward
  <1>14. \A g1, n \in Node :
          /\ \/ q'[g1][n] = q[g1][n]
             \/ g1 = h /\ n \in N /\ q'[g1][n] = Append(q[g1][n], c)
          /\ Sorted(q'[g1][n])
          /\ \A d \in Elems(q'[g1][n]) : d \in Elems(q[g1][n]) \/ d = c
    <2>1. \A g1, n \in Node : q'[g1][n] = q[g1][n]
                              \/ (g1 = h /\ n \in N /\ q'[g1][n] = Append(q[g1][n], c))
      <3>1. \A k \in Node : Offer(h, c, N)[k] = q[h][k]
                             \/ (k \in N /\ Offer(h, c, N)[k] = Append(q[h][k], c))
        BY <1>4, OfferFacts
      <3> QED
        BY <1>5, <3>1 DEF TypeOK
    <2>2. \A g1, n \in Node :
            \/ q'[g1][n] = q[g1][n]
            \/ g1 = h /\ Beyond(origin[c.id], h, n) /\ q'[g1][n] = Append(q[g1][n], c)
      BY <1>2, <1>13, <2>1
    <2>3. \A g1, n \in Node :
            /\ Sorted(q'[g1][n])
            /\ \A d \in Elems(q'[g1][n]) : d \in Elems(q[g1][n]) \/ d = c
      <3>1. c.id \in Coming(h)
        BY <1>2, <1>9
      <3> QED
        BY <1>4, <2>2, <3>1, OfferWay
    <2> QED
      BY <2>1, <2>3
  <1>15. /\ urq[h] \in Seq(Copy) /\ Ids(urq[h]) = Place(h, 3)
         /\ \A n \in Node : n # h => urq'[n] = urq[n]
         /\ urq'[h] = urq[h] \/ urq'[h] = Append(urq[h], c)
    BY <1>5 DEF TypeOK, Place
  <1>16. Sorted(Append(urq[h], c)) /\ Elems(Append(urq[h], c)) = Elems(urq[h]) \union {c}
    <2>1. \A j \in Ids(urq[h]) : ~Before(c.id, j)
      BY <1>2, <1>9, <1>15 DEF WayInv, PlaceInv, Places
    <2>2. Sorted(urq[h])
      BY DEF WayInv, OnceInv
    <2> QED
      BY <1>4, <1>15, <2>1, <2>2, SortedAppend, ElemsFacts
  <1>17. OnceNext
    <2>1. \A n \in Node : Sorted(urq'[n])
      BY <1>15, <1>16 DEF WayInv, OnceInv
    <2> QED
      BY <1>6, <1>14, <2>1 DEF WayInv, OnceInv, OnceNext
  <1>18. PICK r \in {1, 2} : r = 1
    OBVIOUS
  <1>19. PICK X : X = {<<h, 3>>} \union (N \X {r})
    OBVIOUS
  <1>20. NewAt(i, X)
    <2>1. <<h, 3>> \in X /\ \A n \in N : <<n, 1>> \in X
      BY <1>18, <1>19
    <2>2. ASSUME NEW g1 \in Node, NEW n \in Node, NEW d \in Elems(q'[g1][n])
          PROVE  d \in Elems(q[g1][n]) \/ (d.id = i /\ <<n, 1>> \in X /\ LinkFine(g1, n, d))
      <3>1. CASE q'[g1][n] = q[g1][n]
        BY <3>1
      <3>2. CASE d = c /\ g1 = h /\ n \in N
        BY <1>2, <1>8, <1>13, <2>1, <3>2 DEF LinkFine
      <3> QED
        BY <1>14, <3>1, <3>2
    <2>3. \A n \in Node : \A d \in Elems(urq'[n]) : d \in Elems(urq[n]) \/ (d = c /\ n = h)
      BY <1>15, <1>16
    <2>4. \A n, k \in Node : in'[n][k] \in {in[n][k], NoMsg}
      BY <1>7
    <2> QED
      BY <1>2, <1>6, <1>11, <2>1, <2>2, <2>3, <2>4 DEF NewAt
  <1>21. ASSUME NEW k \in Places, k # 3, NEW x \in Place(h, k)' PROVE x \in Place(h, k)
    <2>1. <<h, k>> \notin X
      BY <1>12, <1>19, <1>21
    <2> QED
      BY <1>20, <2>1, NewPlaces
  <1>22. ASSUME NEW k \in {1, 2, 5}, NEW x \in Place(h, k)', Before(x, i) PROVE FALSE
    <2>1. x \in Place(h, k) /\ k \in Places
      BY <1>21, <1>22 DEF Places
    <2>2. CASE k = 1
      BY <1>9, <1>22, <2>1, <2>2 DEF WayInv, PlaceInv, Places
    <2>3. CASE k = 5
      <3>1. origin[x] = h
        BY <1>8, <2>1, <2>3, OwnFacts
      <3> QED
        BY <1>11, <1>22, <3>1 DEF Before
    <2>4. CASE k = 2
      <3>1. PICK j \in Node : in'[h][j].id = x /\ x \in Msg
        BY <2>4 DEF Place
      <3>2. NoMsg.id = 0 /\ 0 \notin Msg
        BY DEF NoMsg, Msg
      <3>3. j # g /\ in[h][j].id = x /\ in[h][j] # NoMsg
        BY <1>7, <3>1, <3>2
      <3>4. LinkFine(j, h, in[h][j])
        BY <3>3 DEF WayInv, AwayInv
      <3>5. origin[x] = origin[i]
        BY <1>22 DEF Before
      <3> QED
        BY <1>4, <1>9, <1>10, <3>3, <3>4, <3>5, SameWay
    <2> QED
      BY <2>2, <2>3, <2>4
  <1>23. /\ \A k \in Places : k < 3 => \A x \in Place(h, k)' : ~Before(x, i)
         /\ \A k \in Leaving(h) : \A x \in Place(h, k)' : ~Before(x, i)
         /\ 2 \in Places /\ 3 \in Places /\ 2 <= 3 /\ 2 \in Leaving(h)
    <2>1. \A k \in Places : k < 3 => k \in {1, 2, 5}
      BY DEF Places
    <2>2. Leaving(h) = {1, 2, 5}
      BY <1>8 DEF Leaving
    <2> QED
      BY <1>22, <2>1, <2>2 DEF Places
  <1>24. NewAt(i, {<<h, 3>>} \union (N \X {r}))
    BY <1>19, <1>20
  <1> QED
    BY <1>6, <1>8, <1>9, <1>12, <1>13, <1>17, <1>18, <1>23, <1>24, Pass

LEMMA TakeWay ==
  ASSUME TypeOK, EpInv, FreshInv, WayInv, NEW h \in Node, NEW n \in Node, Take(h, n), Solo
  PROVE  FreshInv' /\ WayInv'
  <1>1. uwq[h] # <<>> /\ uwq' = [uwq EXCEPT ![h] = Tail(@)]
    BY DEF Take
  <1>2. PICK c : c = Head(uwq[h])
    OBVIOUS
  <1>3. PICK i : i = c.id
    OBVIOUS
  <1>4. /\ c \in Copy /\ DownFine(h, c) /\ i \in Place(h, 5) /\ i \in Coming(h)
        /\ origin[i] \in Node /\ \A x \in Place(h, 5)' : ~Before(x, i)
        /\ \A k \in Node : Sorted(uwq'[k]) /\ Elems(uwq'[k]) \subseteq Elems(uwq[k])
    BY <1>1, <1>2, <1>3, HeadWay
  <1>5. Same /\ UNCHANGED <<urq, q, fwd, got>>
    BY DEF Take, Same, connVars, appVars, Made
  <1>6. ~Relays(h) /\ Direct
    BY DEF Solo, Relays, Direct
  <1>7. h = origin[i]
    BY <1>3, <1>4, <1>6 DEF DownFine, FwdFine
  <1>8. {h, n} \in Made
    BY DEF Take, EpInv
  <1>9. Outward(origin[i], h, n) /\ Beyond(origin[i], h, n) /\ LinkFine(h, n, c)
    BY <1>3, <1>7, <1>8, Leave DEF LinkFine
  <1>10. /\ in'[n][h] = c
         /\ \A m, k \in Node : m # n \/ k # h => in'[m][k] = in[m][k]
    BY <1>2 DEF Take, TypeOK
  <1>11. OnceNext
    BY <1>4, <1>5 DEF WayInv, OnceInv, OnceNext
  <1>12. PICK r \in {1, 2} : r = 2
    OBVIOUS
  <1>13. PICK N : N = {n}
    OBVIOUS
  <1>14. PICK X : X = {<<h, 5>>} \union (N \X {r})
    OBVIOUS
  <1>15. NewAt(i, X)
    <2>1. <<n, 2>> \in X
      BY <1>12, <1>13, <1>14
    <2>2. \A m, k \in Node : in'[m][k] = in[m][k] \/ (m = n /\ k = h)
      BY <1>10
    <2> QED
      BY <1>3, <1>4, <1>5, <1>9, <1>10, <2>1, <2>2 DEF NewAt
  <1>16. h # n
    BY <1>8, LinkFacts
  <1>17. ASSUME NEW k \in Places, NEW x \in Place(h, k)' PROVE ~Before(x, i) \/ (k = 6 /\ x # i)
    <2>1. CASE k = 5
      BY <1>4, <2>1
    <2>2. CASE k # 5
      <3>1. <<h, k>> \notin X
        BY <1>13, <1>14, <1>16, <2>2
      <3>2. x \in Place(h, k)
        BY <1>15, <3>1, NewPlaces
      <3>3. CASE k < 5
        BY <1>4, <3>2, <3>3 DEF WayInv, PlaceInv, Places
      <3>4. CASE k = 6
        BY <1>4, <3>2, <3>4 DEF WayInv, PlaceInv, Places, Before
      <3> QED
        BY <2>2, <3>3, <3>4 DEF Places
    <2> QED
      BY <2>1, <2>2
  <1>18. i \notin All(h)'
    <2> SUFFICES ASSUME NEW k \in Places, i \in Place(h, k)' PROVE FALSE
      BY DEF All
    <2> QED
      BY <1>17 DEF Before
  <1>19. /\ \A k \in Places : k < 5 => \A x \in Place(h, k)' : ~Before(x, i)
         /\ \A k \in Leaving(h) : \A x \in Place(h, k)' : ~Before(x, i)
         /\ 5 \in Places /\ 5 <= 5 /\ 5 \in Leaving(h)
    <2>1. \A k \in Places : k < 5 => k # 6
      BY DEF Places
    <2>2. \A k \in Leaving(h) : k \in Places /\ k # 6
      BY DEF Leaving, Places
    <2> QED
      BY <1>17, <2>1, <2>2 DEF Places, Leaving
  <1>20. /\ \A m \in N : Outward(origin[i], h, m) /\ Beyond(origin[i], h, m)
         /\ N \in SUBSET Node
    BY <1>9, <1>13
  <1>21. \A m, k \in Node : q'[m][k] = <<>>
    BY <1>5 DEF WayInv, SoloInv
  <1>22. NewAt(i, {<<h, 5>>} \union (N \X {r}))
    BY <1>14, <1>15
  <1>23. /\ \A m \in N : Outward(origin[i], h, m) /\ Beyond(origin[i], h, m)
         /\ N # {} => \A k \in Leaving(h) : \A x \in Place(h, k)' : ~Before(x, i)
         /\ 5 \in Leaving(h) \/ (N = {} /\ 5 \notin Leaving(h))
         /\ r = 1 \/ Solo
         /\ Solo => /\ \A g, m \in Node : q'[g][m] = <<>>
                    /\ N # {} => i \notin All(h)' /\ \A k, m \in N : k = m
    BY <1>13, <1>18, <1>19, <1>20, <1>21
  <1>24. Same /\ i \in Place(h, 5) /\ 5 \in Places /\ 5 <= 5 /\ N \in SUBSET Node /\ r \in {1, 2}
         /\ \A k \in Places : k < 5 => \A x \in Place(h, k)' : ~Before(x, i)
    BY <1>4, <1>5, <1>19, <1>20
  <1>25. ASSUME NEW k \in Places, k = 5 PROVE FreshInv' /\ WayInv'
    <2>1. /\ i \in Place(h, k)
          /\ NewAt(i, {<<h, k>>} \union (N \X {r}))
          /\ k \in Leaving(h) \/ (N = {} /\ k \notin Leaving(h))
      BY <1>22, <1>23, <1>24, <1>25
    <2>2. \A l \in Places : l < k => \A x \in Place(h, l)' : ~Before(x, i)
      BY <1>24, <1>25
    <2>3. k <= k
      BY <1>25
    <2>4. Same /\ N \in SUBSET Node /\ r \in {1, 2}
      BY <1>24
    <2> QED
      BY <1>11, <1>23, <2>1, <2>2, <2>3, <2>4, Pass
  <1> QED
    BY <1>24, <1>25

-----------------------------------------------------------------------------
(* The steps that move no message, or give one up.                         *)

LEMMA StillWay ==
  ASSUME FreshInv, WayInv, Same, UNCHANGED <<uwq, urq, in, fwd, got>>,
         \A g, n \in Node : q'[g][n] \in {q[g][n], <<>>}
  PROVE  FreshInv' /\ WayInv'
  <1>1. /\ Elems(<<>>) = {} /\ Sorted(<<>>)
        /\ \A g, n \in Node : Elems(q'[g][n]) \subseteq Elems(q[g][n])
    <2>1. Elems(<<>>) = {} /\ Sorted(<<>>)
      BY SortedEmpty DEF Elems
    <2> QED
      BY <2>1
  <1>2. OnceNext
    BY <1>1 DEF WayInv, OnceInv, OnceNext
  <1>3. NewAt(0, {})
    BY <1>1 DEF NewAt
  <1>4. Solo => \A g, n \in Node : q'[g][n] = <<>>
    BY DEF WayInv, SoloInv
  <1> QED
    BY <1>2, <1>3, <1>4, Drop

LEMMA LoseWay ==
  ASSUME TypeOK, FreshInv, WayInv, NEW h \in Node, NEW n \in Node, Lose(h, n)
  PROVE  FreshInv' /\ WayInv'
  <1>1. Same /\ UNCHANGED <<urq, q, in, fwd, got>>
    BY DEF Lose, Same, Made, appVars
  <1>2. uwq[h] # <<>> /\ uwq' = [uwq EXCEPT ![h] = Tail(@)]
    BY DEF Lose, Discard
  <1>3. \A m \in Node : Sorted(uwq'[m]) /\ Elems(uwq'[m]) \subseteq Elems(uwq[m])
    BY <1>2, HeadWay
  <1>4. OnceNext
    BY <1>1, <1>3 DEF WayInv, OnceInv, OnceNext
  <1>5. NewAt(0, {})
    BY <1>1, <1>3 DEF NewAt
  <1>6. Solo => \A g, m \in Node : q'[g][m] = <<>>
    BY <1>1 DEF WayInv, SoloInv
  <1> QED
    BY <1>1, <1>4, <1>5, <1>6, Drop

LEMMA TableWay ==
  ASSUME TypeOK, FreshInv, WayInv,
         \/ \E l \in Link : PipeDown(l)
         \/ \E n, k \in Node : AddEndpoint(n, k) \/ RemoveEndpoint(n, k)
         \/ \E n \in Node, s \in Topic : Subscribe(n, s) \/ Unsubscribe(n, s + 1)
         \/ UNCHANGED vars
  PROVE  FreshInv' /\ WayInv'
  <1>1. CASE \E l \in Link : PipeDown(l)
    <2>1. Same
      BY <1>1 DEF PipeDown, Same, appVars, Made, TypeOK
    <2> QED
      BY <1>1, <2>1, StillWay DEF PipeDown, appVars
  <1>2. ASSUME NEW n \in Node, NEW k \in Node, AddEndpoint(n, k) PROVE FreshInv' /\ WayInv'
    <2>1. /\ {n, k} \in Link /\ conn[{n, k}] # "none"
          /\ UNCHANGED conn \/ conn' = [conn EXCEPT ![{n, k}] = "down"]
      BY <1>2 DEF AddEndpoint, PushAdd, PubAdd, BusAdd, StarAdd, PairAdd, Enlist
    <2>2. Made' = Made
      BY <2>1 DEF Made, TypeOK
    <2>3. Same
      BY <1>2, <2>2 DEF AddEndpoint, Same, appVars
    <2> QED
      BY <1>2, <2>3, StillWay DEF AddEndpoint, appVars
  <1>3. ASSUME NEW n \in Node, NEW k \in Node, RemoveEndpoint(n, k)
        PROVE  FreshInv' /\ WayInv'
    <2>1. Same /\ UNCHANGED <<uwq, urq, in, fwd, got>>
      BY <1>3 DEF RemoveEndpoint, Same, appVars, Made
    <2>2. UNCHANGED q \/ q' = [q EXCEPT ![n][k] = <<>>]
      BY <1>3 DEF RemoveEndpoint, PushRemove, PairRemove, PubRemove, BusRemove, StarRemove,
                  CloseQueue
    <2>3. \A g, m \in Node : q'[g][m] \in {q[g][m], <<>>}
      <3>1. CASE UNCHANGED q
        BY <3>1
      <3>2. CASE q' = [q EXCEPT ![n][k] = <<>>]
        <4>1. q \in [Node -> [Node -> Seq(Copy)]]
          BY DEF TypeOK
        <4>2. \A g, m \in Node : g # n \/ m # k => q'[g][m] = q[g][m]
          BY <3>2, <4>1
        <4>3. q'[n][k] = <<>>
          BY <3>2, <4>1
        <4> QED
          BY <4>2, <4>3
      <3> QED
        BY <2>2, <3>1, <3>2
    <2> QED
      BY <2>1, <2>3, StillWay
  <1>4. ASSUME NEW n \in Node, NEW s \in Topic, Subscribe(n, s) \/ Unsubscribe(n, s + 1)
        PROVE  FreshInv' /\ WayInv'
    <2>1. Same /\ UNCHANGED <<uwq, urq, q, in, fwd, got>>
      BY <1>4 DEF Subscribe, Unsubscribe, Same, connVars, Made
    <2> QED
      BY <2>1, StillWay
  <1>5. CASE UNCHANGED vars
    <2>1. Same /\ UNCHANGED <<uwq, urq, q, in, fwd, got>>
      BY <1>5 DEF vars, Same, connVars, appVars, Made
    <2> QED
      BY <2>1, StillWay
  <1> QED
    BY <1>1, <1>2, <1>3, <1>4, <1>5

-----------------------------------------------------------------------------
(* A new message.                                                          *)

(* What has come to a node was not sent there.                             *)
LEMMA ForeignFacts ==
  ASSUME TypeOK, FreshInv, WayInv, NEW n \in Node, NEW k \in Places, k # 5, NEW x \in Place(n, k)
  PROVE  origin[x] # n
  <1>1. origin[x] \in Node /\ x \in Msg
    BY OldFacts
  <1>2. CASE k = 1
    <2>0. PICK h \in Node : x \in {c.id : c \in Elems(q[h][n])}
      BY <1>2 DEF Place, Ids
    <2>1. PICK c \in Elems(q[h][n]) : x = c.id
      BY <2>0
    <2>2. LinkFine(h, n, c)
      BY DEF WayInv, AwayInv
    <2> QED
      BY <1>1, <2>1, <2>2, OutwardFacts DEF LinkFine
  <1>3. CASE k = 2
    <2>1. PICK h \in Node : in[n][h].id = x
      BY <1>3 DEF Place
    <2>2. in[n][h] # NoMsg
      BY <1>1, <2>1 DEF NoMsg, Msg
    <2>3. LinkFine(h, n, in[n][h])
      BY <2>2 DEF WayInv, AwayInv
    <2> QED
      BY <1>1, <2>1, <2>3, OutwardFacts DEF LinkFine
  <1>4. CASE k = 3
    <2>1. PICK c \in Elems(urq[n]) : x = c.id
      BY <1>4 DEF Place, Ids
    <2> QED
      BY <2>1 DEF WayInv, AwayInv, UpFine
  <1>5. CASE k = 4
    <2>1. PICK c \in fwd[n] : x = c.id
      BY <1>5 DEF Place
    <2>2. Outward(origin[x], c.via, n)
      BY <2>1 DEF WayInv, AwayInv, FwdFine
    <2> QED
      BY <1>1, <2>2, OutwardFacts
  <1>6. CASE k = 6
    BY <1>6 DEF Place, WayInv, AwayInv
  <1> QED
    BY <1>2, <1>3, <1>4, <1>5, <1>6 DEF Places

LEMMA SendWay ==
  ASSUME TypeOK, FreshInv, WayInv, NEW n \in Node, Send(n)
  PROVE  FreshInv' /\ WayInv'
  <1>1. PICK i : i = nmsg + 1
    OBVIOUS
  <1>2. i \in Msg /\ nmsg' = i /\ nmsg \in Nat /\ MaxMsg \in Nat
    BY <1>1, PatternAssumption DEF Send, TypeOK, Msg
  <1>3. PICK c \in Copy : c.id = i /\ c.via = NoNode /\ uwq' = [uwq EXCEPT ![n] = Append(@, c)]
    <2>1. PICK t \in Topic :
            uwq' = [uwq EXCEPT ![n] =
                      Append(@, [id |-> i, hops |-> 0, via |-> NoNode, topic |-> t])]
      <3>1. PICK t \in IF proto = "pubsub" THEN Topic ELSE {0} :
              uwq' = [uwq EXCEPT ![n] =
                        Append(@, [id |-> nmsg + 1, hops |-> 0, via |-> NoNode, topic |-> t])]
        BY DEF Send
      <3>2. t \in Topic
        BY PatternAssumption DEF Topic
      <3> QED
        BY <1>1, <3>1, <3>2
    <2>2. [id |-> i, hops |-> 0, via |-> NoNode, topic |-> t] \in Copy
      BY <1>2 DEF Copy
    <2> QED
      BY <2>1, <2>2
  <1>4. /\ origin'[i] = n /\ \A x \in Msg : x # i => origin'[x] = origin[x]
        /\ UNCHANGED <<urq, q, in, fwd, got, proto>> /\ Made' = Made
    BY <1>1, <1>2 DEF Send, TypeOK, connVars, Made
  <1>5. /\ uwq[n] \in Seq(Copy) /\ uwq'[n] = Append(uwq[n], c)
        /\ \A m \in Node : m # n => uwq'[m] = uwq[m]
    BY <1>3 DEF TypeOK
  <1>6. /\ \A o, h : From(o, h)' = From(o, h)
        /\ \A o, h, m : Outward(o, h, m)' <=> Outward(o, h, m)
        /\ \A o, h, m : Beyond(o, h, m)' <=> Beyond(o, h, m)
        /\ \A m : (Relays(m)' <=> Relays(m)) /\ Leaving(m)' = Leaving(m)
        /\ (Direct' <=> Direct) /\ (Solo' <=> Solo)
    <2>1. \A o, h : From(o, h)' = From(o, h)
      BY <1>4 DEF From, Reach, Avoiding
    <2> QED
      BY <1>4, <2>1 DEF Outward, Beyond, Relays, Leaving, Direct, Solo
  <1>7. \A m \in Node, k \in Places : \A x \in Place(m, k) :
          x \in All(m) /\ x \in Msg /\ x < i /\ x # i /\ origin[x] \in Node /\ origin'[x] = origin[x]
    BY <1>1, <1>2, <1>4, OldFacts
  <1>8. \A x, y \in Msg : x # i /\ y # i => (Before(x, y)' <=> Before(x, y))
    BY <1>4 DEF Before
  <1>9. /\ \A m \in Node, k \in Places : k # 5 \/ m # n => Place(m, k)' = Place(m, k)
        /\ Place(n, 5)' = Place(n, 5) \union {i}
    <2>1. Ids(Append(uwq[n], c)) = Ids(uwq[n]) \union {i}
      BY <1>3, <1>5, IdsFacts
    <2>2. Place(n, 5) = Ids(uwq[n]) /\ Place(n, 5)' = Ids(Append(uwq[n], c))
      BY <1>5 DEF Place, Ids, Elems
    <2>3. \A m \in Node, k \in Places : k # 5 => Place(m, k)' = Place(m, k)
      BY <1>4 DEF Place, Ids, Elems
    <2>4. ASSUME NEW m \in Node, m # n PROVE Place(m, 5)' = Place(m, 5)
      <3>1. Place(m, 5) = Ids(uwq[m]) /\ Place(m, 5)' = Ids(uwq'[m])
        BY DEF Place, Ids, Elems
      <3> QED
        BY <1>5, <2>4, <3>1
    <2> QED
      BY <2>1, <2>2, <2>3, <2>4
  <1>10. \A m \in Node, k \in Places : \A x \in Place(m, k)' :
           x \in Place(m, k) \/ (x = i /\ m = n /\ k = 5)
    BY <1>9
  <1>11. FreshInv'
    <2>1. ASSUME NEW m \in Node, NEW x \in All(m)' PROVE x <= nmsg'
      <3>1. PICK k \in Places : x \in Place(m, k)'
        BY DEF All
      <3>2. x \in Msg /\ (x < i \/ x = i)
        BY <1>2, <1>7, <1>10, <3>1
      <3> QED
        BY <1>2, <3>2 DEF Msg
    <2>2. ASSUME NEW m \in 1 .. nmsg' PROVE origin'[m] \in Node
      <3>1. m \in Msg /\ (m = i \/ m \in 1 .. nmsg)
        BY <1>1, <1>2 DEF Msg
      <3> QED
        BY <1>4, <3>1 DEF FreshInv
    <2> QED
      BY <2>1, <2>2 DEF FreshInv
  <1>12. AwayInv'
    <2>1. /\ \A h, m, d : origin'[d.id] = origin[d.id] => (LinkFine(h, m, d)' <=> LinkFine(h, m, d))
          /\ \A m, d : origin'[d.id] = origin[d.id] =>
               /\ UpFine(m, d)' <=> UpFine(m, d)
               /\ FwdFine(m, d)' <=> FwdFine(m, d)
               /\ DownFine(m, d)' <=> DownFine(m, d)
      BY <1>4, <1>6 DEF LinkFine, UpFine, FwdFine, DownFine
    <2>2. ASSUME NEW m \in Node, NEW h \in Node, NEW d \in Elems(q[h][m])
          PROVE  LinkFine(h, m, d)'
      <3>1. d.id \in Place(m, 1)
        BY DEF Place, Ids
      <3>2. LinkFine(h, m, d)
        BY DEF WayInv, AwayInv
      <3> QED
        BY <1>7, <2>1, <3>1, <3>2 DEF Places
    <2>3. ASSUME NEW m \in Node, NEW h \in Node, in[m][h] # NoMsg
          PROVE  LinkFine(h, m, in[m][h])'
      <3>1. PICK d : d = in[m][h]
        OBVIOUS
      <3>2. d.id \in Place(m, 2)
        <4>1. d \in Copy
          BY <2>3, <3>1 DEF TypeOK
        <4>2. d.id \in Msg
          BY <4>1 DEF Copy
        <4> QED
          BY <3>1, <4>2 DEF Place
      <3>3. LinkFine(h, m, d)
        BY <2>3, <3>1 DEF WayInv, AwayInv
      <3>4. LinkFine(h, m, d)'
        BY <1>7, <2>1, <3>2, <3>3 DEF Places
      <3> QED
        BY <1>4, <3>1, <3>4 DEF LinkFine
    <2>4. ASSUME NEW m \in Node, NEW d \in Elems(urq[m]) PROVE UpFine(m, d)'
      <3>1. d.id \in Place(m, 3)
        BY DEF Place, Ids
      <3>2. UpFine(m, d)
        BY DEF WayInv, AwayInv
      <3> QED
        BY <1>7, <2>1, <3>1, <3>2 DEF Places
    <2>5. ASSUME NEW m \in Node, NEW d \in fwd[m] PROVE FwdFine(m, d)'
      <3>1. d.id \in Place(m, 4)
        BY DEF Place
      <3>2. FwdFine(m, d)
        BY DEF WayInv, AwayInv
      <3> QED
        BY <1>7, <2>1, <3>1, <3>2 DEF Places
    <2>6. ASSUME NEW m \in Node, NEW d \in Elems(uwq[m]) PROVE DownFine(m, d)'
      <3>1. d.id \in Place(m, 5)
        BY DEF Place, Ids
      <3>2. DownFine(m, d)
        BY DEF WayInv, AwayInv
      <3> QED
        BY <1>7, <2>1, <3>1, <3>2 DEF Places
    <2>7. DownFine(n, c)'
      BY <1>3, <1>4 DEF DownFine
    <2>8. Elems(Append(uwq[n], c)) = Elems(uwq[n]) \union {c}
      BY <1>5, ElemsFacts
    <2>9. ASSUME NEW m \in Node, NEW d \in Elems(uwq'[m]) PROVE DownFine(m, d)'
      BY <1>5, <2>6, <2>7, <2>8
    <2>10. ASSUME NEW m \in Node, NEW x \in Msg, got[m][x] > 0
           PROVE  m # origin'[x] /\ ~Relays(m)'
      <3>1. x \in Place(m, 6)
        BY <2>10 DEF Place
      <3>2. origin'[x] = origin[x]
        BY <1>7, <3>1 DEF Places
      <3> QED
        BY <1>6, <2>10, <3>2 DEF WayInv, AwayInv
    <2> QED
      BY <1>4, <2>2, <2>3, <2>4, <2>5, <2>9, <2>10 DEF AwayInv
  <1>13. ASSUME NEW y, y \in Msg, y < i PROVE ~Before(i, y)'
    BY <1>2, <1>13 DEF Before, Msg
  <1>14. PlaceInv'
    <2> SUFFICES ASSUME NEW m \in Node, NEW k \in Places, NEW l \in Places, k < l,
                        NEW x \in Place(m, k)', NEW y \in Place(m, l)', Before(x, y)'
                 PROVE  FALSE
      BY DEF PlaceInv
    <2>1. CASE x \in Place(m, k) /\ y \in Place(m, l)
      BY <1>7, <1>8, <2>1 DEF WayInv, PlaceInv
    <2>2. CASE y = i /\ m = n /\ l = 5
      <3>1. x \in Place(n, k) /\ k # 5
        BY <1>10, <2>2 DEF Places
      <3>2. origin[x] # n
        BY <3>1, ForeignFacts
      <3> QED
        BY <1>4, <1>7, <2>2, <3>1, <3>2 DEF Before
    <2>3. CASE x = i /\ m = n /\ k = 5
      <3>1. y \in Place(n, l)
        BY <1>10, <2>3 DEF Places
      <3> QED
        BY <1>7, <1>13, <2>3, <3>1
    <2> QED
      BY <1>10, <2>1, <2>2, <2>3
  <1>15. OnceInv'
    <2>1. ASSUME NEW s \in Seq(Copy), Sorted(s), \A x \in Ids(s) : x \in Msg /\ x # i
          PROVE  Sorted(s)'
      <3> SUFFICES ASSUME NEW x \in 1 .. Len(s), NEW y \in 1 .. Len(s), x < y
                   PROVE  ~Before(s[y].id, s[x].id)'
        BY DEF Sorted
      <3>1. s[x].id \in Ids(s) /\ s[y].id \in Ids(s)
        BY DEF Ids, Elems
      <3> QED
        BY <1>8, <2>1, <3>1 DEF Sorted
    <2>2. ASSUME NEW m \in Node
          PROVE  /\ Sorted(uwq[m]) /\ Sorted(urq[m]) /\ \A h \in Node : Sorted(q[h][m])
                 /\ \A x \in Ids(uwq[m]) \union Ids(urq[m]) : x \in Msg /\ x # i
                 /\ \A h \in Node : \A x \in Ids(q[h][m]) : x \in Msg /\ x # i
      <3>1. \A x \in Place(m, 1) \union Place(m, 3) \union Place(m, 5) : x \in Msg /\ x # i
        BY <1>7 DEF Places
      <3> QED
        BY <3>1 DEF WayInv, OnceInv, Place
    <2>3. ASSUME NEW s, s = Append(uwq[n], c) PROVE Sorted(s)'
      <3> SUFFICES ASSUME NEW x \in 1 .. Len(s), NEW y \in 1 .. Len(s), x < y
                   PROVE  ~Before(s[y].id, s[x].id)'
        BY DEF Sorted
      <3>1. x \in 1 .. Len(uwq[n]) /\ s[x] = uwq[n][x]
        BY <1>5, <2>3, AppendFacts
      <3>2. s[x].id \in Ids(uwq[n]) /\ s[x].id \in Msg /\ s[x].id < i /\ s[x].id # i
        <4>1. s[x].id \in Ids(uwq[n]) /\ Ids(uwq[n]) = Place(n, 5)
          BY <3>1 DEF Ids, Elems, Place
        <4> QED
          BY <1>7, <4>1 DEF Places
      <3>3. CASE y \in 1 .. Len(uwq[n])
        <4>1. s[y] = uwq[n][y] /\ uwq[n][y].id \in Ids(uwq[n])
          BY <1>5, <2>3, <3>3, AppendFacts DEF Ids, Elems
        <4>2. ~Before(s[y].id, s[x].id)
          BY <2>2, <3>1, <3>3, <4>1 DEF Sorted
        <4> QED
          BY <1>8, <2>2, <3>2, <4>1, <4>2
      <3>4. CASE y = Len(uwq[n]) + 1
        <4>1. s[y].id = i
          BY <1>3, <1>5, <2>3, <3>4, AppendFacts
        <4> QED
          BY <1>13, <3>2, <4>1
      <3> QED
        BY <1>5, <2>3, <3>3, <3>4, AppendFacts
    <2>4. ASSUME NEW m \in Node PROVE Sorted(uwq[m])'
      <3>1. PICK s : s = uwq'[m]
        OBVIOUS
      <3>2. Sorted(s)'
        <4>1. CASE m = n
          BY <1>5, <2>3, <3>1, <4>1
        <4>2. CASE m # n
          <5>1. s = uwq[m] /\ s \in Seq(Copy)
            BY <1>5, <3>1, <4>2 DEF TypeOK
          <5> QED
            BY <2>1, <2>2, <5>1
        <4> QED
          BY <4>1, <4>2
      <3> QED
        BY <3>1, <3>2 DEF Sorted
    <2>5. ASSUME NEW m \in Node PROVE Sorted(urq[m])'
      <3>1. PICK s : s = urq[m]
        OBVIOUS
      <3>2. s \in Seq(Copy) /\ Sorted(s) /\ \A x \in Ids(s) : x \in Msg /\ x # i
        BY <2>2, <3>1 DEF TypeOK
      <3>3. Sorted(s)'
        BY <2>1, <3>2
      <3> QED
        BY <1>4, <3>1, <3>3 DEF Sorted
    <2>6. ASSUME NEW m \in Node, NEW h \in Node PROVE Sorted(q[h][m])'
      <3>1. PICK s : s = q[h][m]
        OBVIOUS
      <3>2. s \in Seq(Copy) /\ Sorted(s) /\ \A x \in Ids(s) : x \in Msg /\ x # i
        BY <2>2, <3>1, SMTT(30) DEF TypeOK
      <3>3. Sorted(s)'
        BY <2>1, <3>2
      <3> QED
        BY <1>4, <3>1, <3>3 DEF Sorted
    <2>7. \A m \in Node : /\ \A x, y \in fwd'[m] : x.id = y.id => x = y
                         /\ \A x \in Msg : got'[m][x] <= 1
      BY <1>4 DEF WayInv, OnceInv
    <2> QED
      BY <2>4, <2>5, <2>6, <2>7 DEF OnceInv
  <1>16. ASSUME NEW m \in Node, NEW x \in All(m)' PROVE x \in All(m) \/ (x = i /\ m = n)
    <2>1. PICK k \in Places : x \in Place(m, k)'
      BY DEF All
    <2> QED
      BY <1>7, <1>10, <2>1
  <1>17. ASSUME NEW m \in Node, NEW x \in Coming(m)' PROVE x \in Coming(m) \/ (x = i /\ m = n)
    <2>1. PICK k \in Leaving(m) : x \in Place(m, k)'
      BY <1>6 DEF Coming
    <2>2. x \in Place(m, k) \/ (x = i /\ m = n)
      BY <1>10, <2>1 DEF Leaving, Places
    <2> QED
      BY <2>1, <2>2 DEF Coming
  <1>18. ASSUME NEW m \in Node, NEW x, x \in All(m)
         PROVE  x \in Msg /\ x < i /\ x # i /\ origin'[x] = origin[x]
    <2>1. PICK k \in Places : x \in Place(m, k)
      BY <1>18 DEF All
    <2> QED
      BY <1>7, <2>1
  <1>19. ASSUME NEW m \in Node, NEW x, x \in Coming(m)
         PROVE  x \in All(m)
    <2>1. PICK k \in Leaving(m) : x \in Place(m, k)
      BY <1>19 DEF Coming
    <2>2. k \in Places
      BY DEF Leaving, Places
    <2> QED
      BY <2>1, <2>2 DEF All
  <1>20. BeyondInv'
    <2> SUFFICES ASSUME NEW h \in Node, NEW m \in Node, NEW x \in Coming(h)',
                        NEW y \in All(m)', Before(x, y)', Beyond(origin'[x], h, m)
                 PROVE  FALSE
      BY <1>6 DEF BeyondInv
    <2>1. CASE x \in Coming(h) /\ y \in All(m)
      <3>1. x \in All(h)
        BY <1>19, <2>1
      <3>2. x \in Msg /\ x # i /\ y \in Msg /\ y # i /\ origin'[x] = origin[x]
        BY <1>18, <2>1, <3>1
      <3>3. Before(x, y)
        BY <1>8, <3>2
      <3> QED
        BY <2>1, <3>2, <3>3 DEF WayInv, BeyondInv
    <2>2. CASE y = i /\ m = n
      <3>1. origin'[x] = n
        BY <1>4, <2>2 DEF Before
      <3> QED
        BY <2>2, <3>1, FromFacts DEF Beyond
    <2>3. CASE x = i /\ y \in All(m)
      <3>1. y \in Msg /\ y < i
        BY <1>18, <2>3
      <3> QED
        BY <1>13, <2>3, <3>1
    <2> QED
      BY <1>16, <1>17, <2>1, <2>2, <2>3
  <1>21. SoloInv'
    <2> SUFFICES ASSUME Solo, NEW g \in Node, NEW m \in Node, NEW x \in All(g)', x \in All(m)'
                 PROVE  g = m
      BY <1>4, <1>6 DEF SoloInv, WayInv
    <2>1. x = i => i \notin All(g) /\ i \notin All(m)
      BY <1>18
    <2>2. CASE x = i
      BY <1>16, <2>1, <2>2
    <2>3. CASE x # i
      <3>1. x \in All(g) /\ x \in All(m)
        BY <1>16, <2>3
      <3> QED
        BY <3>1 DEF WayInv, SoloInv
    <2> QED
      BY <2>2, <2>3
  <1> QED
    BY <1>11, <1>12, <1>14, <1>15, <1>20, <1>21 DEF WayInv

-----------------------------------------------------------------------------
(* A new link.                                                             *)

LEMMA DialWay ==
  ASSUME TypeOK, FreshInv, WayInv, NEW l \in Link, Dial(l)
  PROVE  FreshInv' /\ WayInv'
  <1>1. UNCHANGED <<proto, uwq, urq, q, in, fwd, nmsg, origin, got>>
    BY DEF Dial, appVars
  <1>2. Made \subseteq Made'
    BY DEF Dial, Made, TypeOK
  <1>3. ASSUME NEW o, NEW h PROVE From(o, h) \subseteq From(o, h)'
    <2> SUFFICES ASSUME NEW n \in From(o, h), NEW X \in SUBSET Node,
                        o \in X, Closed(X, Avoiding(h)')
                 PROVE  n \in X
      BY DEF From, Reach
    <2>1. Avoiding(h) \subseteq Avoiding(h)'
      BY <1>2 DEF Avoiding
    <2>2. Closed(X, Avoiding(h))
      BY <2>1 DEF Closed
    <2> QED
      BY <2>2 DEF From, Reach
  <1>4. /\ \A o, h, n : Outward(o, h, n) => Outward(o, h, n)'
        /\ \A o, h, n : Beyond(o, h, n)' => Beyond(o, h, n)
    BY <1>2, <1>3 DEF Outward, Beyond
  <1>5. /\ \A n : (Relays(n)' <=> Relays(n)) /\ Leaving(n)' = Leaving(n)
        /\ (Direct' <=> Direct) /\ (Solo' <=> Solo)
        /\ \A i, j : Before(i, j)' <=> Before(i, j)
    BY <1>1 DEF Relays, Leaving, Direct, Solo, Before
  <1>6. \A n \in Node, k \in Places : Place(n, k)' = Place(n, k)
    BY <1>1 DEF Place, Ids, Elems
  <1>7. \A n \in Node : All(n)' = All(n) /\ Coming(n)' = Coming(n)
    <2>1. \A n \in Node : Leaving(n) \subseteq Places
      BY DEF Leaving, Places
    <2> QED
      BY <1>5, <1>6, <2>1 DEF All, Coming
  <1>8. FreshInv'
    BY <1>1, <1>7 DEF FreshInv
  <1>9. AwayInv'
    <2>1. /\ \A h, n, c : LinkFine(h, n, c) => LinkFine(h, n, c)'
          /\ \A n, c : UpFine(n, c) => UpFine(n, c)'
          /\ \A n, c : FwdFine(n, c) => FwdFine(n, c)'
      BY <1>1, <1>4, <1>5 DEF LinkFine, UpFine, FwdFine
    <2>2. \A n, c : DownFine(n, c) => DownFine(n, c)'
      BY <1>1, <2>1 DEF DownFine
    <2> SUFFICES ASSUME NEW n \in Node
                 PROVE  /\ \A h \in Node :
                             /\ \A c \in Elems(q'[h][n]) : LinkFine(h, n, c)'
                             /\ in'[n][h] # NoMsg => LinkFine(h, n, in[n][h])'
                        /\ \A c \in Elems(urq'[n]) : UpFine(n, c)'
                        /\ \A c \in fwd'[n] : FwdFine(n, c)'
                        /\ \A c \in Elems(uwq'[n]) : DownFine(n, c)'
                        /\ \A m \in Msg : got'[n][m] > 0 => n # origin'[m] /\ ~Relays(n)'
      BY DEF AwayInv
    <2>3. ASSUME NEW h \in Node PROVE \A c \in Elems(q'[h][n]) : LinkFine(h, n, c)'
      BY <1>1, <2>1 DEF WayInv, AwayInv
    <2>4. ASSUME NEW h \in Node, in'[n][h] # NoMsg PROVE LinkFine(h, n, in[n][h])'
      <3>1. PICK c : c = in[n][h]
        OBVIOUS
      <3>2. LinkFine(h, n, c)
        BY <1>1, <2>4, <3>1 DEF WayInv, AwayInv
      <3>3. LinkFine(h, n, c)'
        BY <2>1, <3>2
      <3> QED
        BY <1>1, <3>1, <3>3 DEF LinkFine
    <2>5. /\ \A c \in Elems(urq'[n]) : UpFine(n, c)'
          /\ \A c \in fwd'[n] : FwdFine(n, c)'
          /\ \A c \in Elems(uwq'[n]) : DownFine(n, c)'
      BY <1>1, <2>1, <2>2 DEF WayInv, AwayInv
    <2>6. \A m \in Msg : got'[n][m] > 0 => n # origin'[m] /\ ~Relays(n)'
      BY <1>1, <1>5 DEF WayInv, AwayInv
    <2> QED
      BY <2>3, <2>4, <2>5, <2>6
  <1>10. PlaceInv'
    BY <1>5, <1>6 DEF WayInv, PlaceInv
  <1>11. OnceInv'
    <2>1. OnceNext
      BY <1>1 DEF WayInv, OnceInv, OnceNext
    <2> SUFFICES ASSUME NEW n \in Node
                 PROVE  /\ Sorted(uwq[n])' /\ Sorted(urq[n])' /\ \A h \in Node : Sorted(q[h][n])'
                        /\ \A c, d \in fwd'[n] : c.id = d.id => c = d
                        /\ \A m \in Msg : got'[n][m] <= 1
      BY DEF OnceInv
    <2>2. Sorted(uwq[n])' /\ Sorted(urq[n])'
      BY <1>5, <2>1 DEF OnceNext, Sorted
    <2>3. ASSUME NEW h \in Node PROVE Sorted(q[h][n])'
      BY <1>5, <2>1 DEF OnceNext, Sorted
    <2> QED
      BY <2>1, <2>2, <2>3 DEF OnceNext
  <1>12. BeyondInv'
    <2> SUFFICES ASSUME NEW h \in Node, NEW n \in Node, NEW i \in Coming(h)',
                        NEW j \in All(n)', Before(i, j)', Beyond(origin[i], h, n)'
                 PROVE  FALSE
      BY DEF BeyondInv
    <2>1. i \in Coming(h) /\ j \in All(n) /\ Before(i, j)
      BY <1>5, <1>7
    <2>2. Beyond(origin[i], h, n)
      <3>1. PICK o : o = origin[i]
        OBVIOUS
      <3>2. Beyond(o, h, n)'
        BY <1>1, <3>1 DEF Beyond
      <3> QED
        BY <1>4, <3>1, <3>2
    <2> QED
      BY <2>1, <2>2 DEF WayInv, BeyondInv
  <1>13. SoloInv'
    BY <1>1, <1>5, <1>7 DEF WayInv, SoloInv
  <1> QED
    BY <1>8, <1>9, <1>10, <1>11, <1>12, <1>13 DEF WayInv

-----------------------------------------------------------------------------
(* The invariant of every step.                                            *)

LEMMA TameStep ==
  ASSUME TypeOK, [Next]_vars, Tame'
  PROVE  Tame
  <1>1. UNCHANGED proto
    <2>1. ASSUME NEW n \in Node,
                 \/ Send(n) \/ Recv(n) \/ SendStep(n) \/ FwdStep(n)
                 \/ \E s \in Topic : Subscribe(n, s) \/ Unsubscribe(n, s + 1)
          PROVE  UNCHANGED proto
      BY <2>1 DEF Send, Recv, SendStep, PubSend, BusSend, StarSend, Broadcast, FwdStep, FwdTake,
                  FwdSend, Subscribe, Unsubscribe
    <2>2. ASSUME NEW n \in Node, NEW k \in Node,
                 \/ AddEndpoint(n, k) \/ RemoveEndpoint(n, k)
                 \/ PeerStep(n, k) \/ RecvStep(n, k)
          PROVE  UNCHANGED proto
      BY <2>2 DEF AddEndpoint, RemoveEndpoint, PeerStep, Transmit, PushSend, PairSend, Take, Lose,
                  RecvStep, PullRecv, PairRecv, SubRecv, BusRecv, StarRecv
    <2>3. ASSUME NEW l \in Link, Dial(l) \/ PipeDown(l) PROVE UNCHANGED proto
      BY <2>3 DEF Dial, PipeDown
    <2>4. UNCHANGED vars => UNCHANGED proto
      BY DEF vars
    <2> QED
      BY <2>1, <2>2, <2>3, <2>4 DEF Next
  <1>2. Forest' => Forest
    <2>1. Made \subseteq Made'
      BY MadeStep
    <2>2. Forest <=> \A L \in (SUBSET Made) \ {{}} :
                       \E n \in Node : Cardinality({l \in L : n \in l}) = 1
      BY DEF Forest, Made
    <2>3. Forest' <=> \A L \in (SUBSET Made') \ {{}} :
                        \E n \in Node : Cardinality({l \in L : n \in l}) = 1
      BY DEF Forest, Made
    <2> QED
      BY <2>1, <2>2, <2>3
  <1> QED
    BY <1>1, <1>2 DEF Tame, Direct

LEMMA InitPath == Init => PathInv
  <1> SUFFICES ASSUME Init PROVE FreshInv /\ WayInv
    BY DEF PathInv
  <1>1. /\ \A n \in Node : uwq[n] = <<>> /\ urq[n] = <<>> /\ fwd[n] = {}
        /\ \A n, h \in Node : q[h][n] = <<>> /\ in[n][h] = NoMsg
        /\ \A n \in Node, m \in Msg : got[n][m] = 0
        /\ nmsg = 0
    BY DEF Init
  <1>2. Elems(<<>>) = {} /\ Ids(<<>>) = {} /\ Sorted(<<>>)
    BY SortedEmpty DEF Elems, Ids
  <1>3. \A n \in Node, k \in Places : Place(n, k) = {}
    <2>1. NoMsg.id \notin Msg
      BY DEF NoMsg, Msg
    <2>2. \A n \in Node : Ids(urq[n]) = {} /\ Ids(uwq[n]) = {} /\ \A h \in Node : Ids(q[h][n]) = {}
      BY <1>1, <1>2
    <2>3. \A n \in Node : Place(n, 1) = {} /\ Place(n, 3) = {} /\ Place(n, 5) = {}
      BY <2>2 DEF Place
    <2>4. \A n \in Node : Place(n, 2) = {} /\ Place(n, 4) = {} /\ Place(n, 6) = {}
      BY <1>1, <2>1 DEF Place
    <2> QED
      BY <2>3, <2>4 DEF Places
  <1>4. \A n \in Node : All(n) = {} /\ Coming(n) = {}
    BY <1>3 DEF All, Coming, Leaving, Places
  <1>5. FreshInv
    BY <1>1, <1>4 DEF FreshInv
  <1>6. AwayInv
    BY <1>1, <1>2 DEF AwayInv
  <1>7. OnceInv
    BY <1>1, <1>2 DEF OnceInv
  <1>8. PlaceInv /\ BeyondInv
    BY <1>3, <1>4 DEF PlaceInv, BeyondInv
  <1>9. SoloInv
    BY <1>1, <1>4 DEF SoloInv
  <1> QED
    BY <1>5, <1>6, <1>7, <1>8, <1>9 DEF WayInv

LEMMA PathStep ==
  ASSUME TypeOK, TableInv, PathInv, [Next]_vars
  PROVE  PathInv'
  <1> SUFFICES ASSUME Tame, FreshInv, WayInv PROVE FreshInv' /\ WayInv'
    BY TameStep DEF PathInv
  <1>0. EpInv
    BY DEF TableInv
  <1>1. ASSUME NEW l \in Link, Dial(l) PROVE FreshInv' /\ WayInv'
    BY <1>1, DialWay
  <1>2. ASSUME NEW n \in Node, Send(n) \/ Recv(n) \/ SendStep(n) PROVE FreshInv' /\ WayInv'
    BY <1>0, <1>2, SendWay, AppRecvWay, BroadcastWay
  <1>3. ASSUME NEW n \in Node, FwdStep(n) PROVE FreshInv' /\ WayInv'
    BY <1>3, FwdTakeWay, FwdSendWay DEF FwdStep
  <1>4. ASSUME NEW n \in Node, NEW k \in Node, PeerStep(n, k) PROVE FreshInv' /\ WayInv'
    <2>1. CASE Transmit(n, k)
      BY <2>1, TransmitWay
    <2>2. CASE PushSend(n, k) \/ PairSend(n, k)
      <3>1. Solo /\ (Take(n, k) \/ Lose(n, k))
        BY <2>2 DEF PushSend, PairSend, Solo
      <3> QED
        BY <1>0, <3>1, TakeWay, LoseWay
    <2> QED
      BY <1>4, <2>1, <2>2 DEF PeerStep
  <1>5. ASSUME NEW n \in Node, NEW k \in Node, RecvStep(n, k) PROVE FreshInv' /\ WayInv'
    <2>0. Ready(n, k)
      BY <1>5 DEF RecvStep
    <2>1. CASE PullRecv(n, k) \/ PairRecv(n, k) \/ SubRecv(n, k) \/ BusRecv(n, k)
      BY <2>0, <2>1, RecvWay
    <2>2. CASE StarRecv(n, k) /\ in[n][k].hops < ttl
      BY <1>0, <2>0, <2>2, StarWay
    <2>3. CASE StarRecv(n, k) /\ ~(in[n][k].hops < ttl)
      <3>1. in[n][k] \in Copy /\ proto = "star"
        BY <2>0, <2>3 DEF Ready, TypeOK, StarRecv
      <3>2. /\ Received(n, k) /\ UNCHANGED urq
            /\ UNCHANGED <<proto, ttl, connVars, uwq, q, fwd, appVars>>
        BY <2>3 DEF StarRecv
      <3> QED
        BY <2>0, <3>1, <3>2, UpWay
    <2> QED
      BY <1>5, <2>1, <2>2, <2>3 DEF RecvStep
  <1> QED
    BY <1>1, <1>2, <1>3, <1>4, <1>5, TableWay DEF Next

THEOREM PathsHold == SafeSpec => []PathInv
  <1>1. Init => PathInv
    BY InitPath
  <1>2. TypeOK /\ TableInv /\ PathInv /\ [Next]_vars => PathInv'
    BY PathStep
  <1> QED
    BY <1>1, <1>2, TypeCorrect, TablesHold, PTL DEF SafeSpec

-----------------------------------------------------------------------------
(* In a topology without cycles no application receives a message twice,   *)
(* through devices and STAR nodes either; in PUSH/PULL and PAIR no two     *)
(* applications receive the same message, in any topology (uwq and the     *)
(* endpoints' queues, receivers, forwarders).                              *)
THEOREM DeliversOnce == SafeSpec => []AtMostOnce
  <1>1. ASSUME PathInv PROVE AtMostOnce
    <2> SUFFICES ASSUME NEW m \in Msg
                 PROVE  /\ Forest => \A n \in Node : got[n][m] <= 1
                        /\ proto \in {"pipeline", "pair"} =>
                             Cardinality({n \in Node : got[n][m] > 0}) <= 1
      BY DEF AtMostOnce
    <2>1. ASSUME Forest PROVE \A n \in Node : got[n][m] <= 1
      BY <1>1, <2>1 DEF PathInv, Tame, WayInv, OnceInv
    <2>2. ASSUME proto \in {"pipeline", "pair"}
          PROVE  Cardinality({n \in Node : got[n][m] > 0}) <= 1
      <3> DEFINE S == {n \in Node : got[n][m] > 0}
      <3>1. Solo /\ SoloInv
        BY <1>1, <2>2 DEF PathInv, Tame, Direct, WayInv, Solo
      <3>2. \A n \in S : m \in All(n)
        BY DEF All, Place, Places
      <3>3. \A n, k \in S : n = k
        BY <3>1, <3>2 DEF SoloInv
      <3> HIDE DEF S
      <3>4. CASE S = {}
        BY <3>4, FS_EmptySet DEF S
      <3>5. CASE S # {}
        <4>1. PICK n : S = {n}
          BY <3>3, <3>5
        <4>2. Cardinality(S) = 1
          BY <4>1, FS_Singleton
        <4> QED
          BY <4>2 DEF S
      <3> QED
        BY <3>4, <3>5
    <2> QED
      BY <2>1, <2>2
  <1> QED
    BY <1>1, PathsHold, PTL

(* In a topology without cycles a message does not come back to the        *)
(* application that sent it (bus.broadcast skips where a message came      *)
(* from, star.broadcast too).                                              *)
THEOREM NeverEchoes == SafeSpec => []NoEcho
  <1>1. ASSUME TypeOK, PathInv PROVE NoEcho
    <2> SUFFICES ASSUME Forest, NEW m \in 1 .. nmsg PROVE got[origin[m]][m] = 0
      BY DEF NoEcho
    <2>1. FreshInv /\ AwayInv
      BY <1>1 DEF PathInv, Tame, WayInv
    <2>2. m \in Msg /\ origin[m] \in Node
      BY <1>1, <2>1, PatternAssumption DEF FreshInv, TypeOK, Msg
    <2>3. got[origin[m]][m] \in 0 .. 2 /\ ~(got[origin[m]][m] > 0)
      BY <1>1, <2>1, <2>2 DEF TypeOK, AwayInv
    <2> QED
      BY <2>3
  <1> QED
    BY <1>1, TypeCorrect, PathsHold, PTL

(* An application receives what another one sent in the order it was sent, *)
(* unless a loopback device may reorder it (the queues, and that a message *)
(* has one way to a node).                                                 *)
THEOREM KeepsOrder == SafeSpec => InOrder
  <1> DEFINE Ordered ==
        \A n \in Node, m \in Msg :
          got'[n][m] # got[n][m] /\ (proto = "bus" => Device = {}) /\ Forest =>
            \A k \in m + 1 .. nmsg : origin[k] = origin[m] => got[n][k] = 0
  <1>1. ASSUME TypeOK, PathInv, [Next]_vars PROVE [Ordered]_vars
    <2> SUFFICES ASSUME NEW n \in Node, NEW m \in Msg, got'[n][m] # got[n][m],
                        proto = "bus" => Device = {}, Forest,
                        NEW k \in m + 1 .. nmsg, origin[k] = origin[m]
                 PROVE  got[n][k] = 0
      OBVIOUS
    <2>1. PlaceInv
      BY <1>1 DEF PathInv, Tame, WayInv
    <2>2. k \in Msg /\ m < k
      BY <1>1, PatternAssumption DEF TypeOK, Msg
    <2>3. Recv(n)
      <3>1. ASSUME NEW h \in Node,
                   \/ Send(h) \/ SendStep(h) \/ FwdStep(h)
                   \/ \E s \in Topic : Subscribe(h, s) \/ Unsubscribe(h, s + 1)
            PROVE  UNCHANGED got
        BY <3>1 DEF Send, SendStep, PubSend, BusSend, StarSend, Broadcast, FwdStep, FwdTake,
                    FwdSend, Subscribe, Unsubscribe, appVars
      <3>2. ASSUME NEW h \in Node, NEW g \in Node,
                   \/ AddEndpoint(h, g) \/ RemoveEndpoint(h, g)
                   \/ PeerStep(h, g) \/ RecvStep(h, g)
            PROVE  UNCHANGED got
        BY <3>2 DEF AddEndpoint, RemoveEndpoint, PeerStep, Transmit, PushSend, PairSend, Take,
                    Lose, RecvStep, PullRecv, PairRecv, SubRecv, BusRecv, StarRecv, appVars
      <3>3. ASSUME NEW l \in Link, Dial(l) \/ PipeDown(l) PROVE UNCHANGED got
        BY <3>3 DEF Dial, PipeDown, appVars
      <3>4. UNCHANGED vars => UNCHANGED got
        BY DEF vars, appVars
      <3>5. ASSUME NEW h \in Node, Recv(h), h # n PROVE got'[n] = got[n]
        BY <1>1, <3>5 DEF Recv, TypeOK
      <3> QED
        BY <1>1, <3>1, <3>2, <3>3, <3>4, <3>5 DEF Next
    <2>4. m = Head(urq[n]).id /\ urq[n] # <<>>
      BY <1>1, <2>3 DEF Recv, TypeOK
    <2>5. m \in Place(n, 3)
      <3>1. urq[n] \in Seq(Copy)
        BY <1>1 DEF TypeOK
      <3>2. m \in Ids(urq[n])
        BY <2>4, <3>1, IdsFacts
      <3> QED
        BY <3>2 DEF Place
    <2>6. k \notin Place(n, 6)
      <3>1. Before(m, k)
        BY <2>2 DEF Before
      <3> QED
        BY <2>1, <2>5, <3>1 DEF PlaceInv, Places
    <2>7. got[n][k] \in 0 .. 2
      BY <1>1, <2>2 DEF TypeOK
    <2> QED
      BY <2>2, <2>6, <2>7 DEF Place
  <1>2. TypeOK /\ PathInv /\ [Next]_vars => [Ordered]_vars
    BY <1>1
  <1> QED
    BY <1>2, TypeCorrect, PathsHold, PTL DEF SafeSpec, InOrder

-----------------------------------------------------------------------------
(* How far a message has come.                                             *)

(* A set of numbers that contains 0, and the successor of each, is all.    *)
LEMMA NatSet ==
  ASSUME NEW S, 0 \in S, \A j \in Nat : j \in S => j + 1 \in S
  PROVE  \A j \in Nat : j \in S
  <1> SUFFICES ASSUME NEW m \in Nat, m \notin S PROVE FALSE
    OBVIOUS
  <1> DEFINE T == {I \in SUBSET (0 .. m) : \E k \in Nat : I = 0 .. k /\ k \notin S}
             R == StrictSubsetOrdering(0 .. m)
  <1>1. IsWellFoundedOn(R, SUBSET (0 .. m))
    <2>1. IsFiniteSet(0 .. m)
      BY FS_Interval
    <2> QED
      BY <2>1, FS_StrictSubsetOrderingWellFounded, FS_FiniteSubsetsOfFinite
  <1>2. T \subseteq SUBSET (0 .. m) /\ 0 .. m \in T
    OBVIOUS
  <1>3. PICK I \in T : \A J \in T : <<J, I>> \notin R
    <2> HIDE DEF T, R
    <2> QED
      BY <1>1, <1>2, WFMin
  <1>4. PICK k \in Nat : I = 0 .. k /\ k \notin S
    OBVIOUS
  <1>5. k # 0 /\ k - 1 \in Nat /\ k - 1 \notin S
    <2>1. k # 0
      BY <1>4
    <2>2. k - 1 \in Nat /\ (k - 1) + 1 = k
      BY <2>1
    <2> QED
      BY <1>4, <2>1, <2>2
  <1>6. 0 .. k - 1 \in SUBSET (0 .. m) /\ 0 .. k - 1 \subseteq I /\ 0 .. k - 1 # I
    BY <1>4, <1>5, SMTT(30)
  <1>7. 0 .. k - 1 \in T
    BY <1>5, <1>6
  <1>8. <<0 .. k - 1, I>> \in R
    BY <1>6 DEF StrictSubsetOrdering
  <1> QED
    BY <1>3, <1>7, <1>8

(* The nodes of X and their neighbours.                                    *)
Widen(X) == X \union {k \in Node : \E h \in X : {h, k} \in Made}

(* A walk of j steps from o, some of which may stay where they are, shows  *)
(* that the equations of Within have a solution.                           *)
Trail(o, j) ==
  {s \in [0 .. j -> Node] :
     s[0] = o /\ \A i \in 0 .. j - 1 : s[i] = s[i + 1] \/ {s[i], s[i + 1]} \in Made}

LEMMA TrailStep ==
  ASSUME NEW o \in Node, NEW j \in Nat
  PROVE  {s[j + 1] : s \in Trail(o, j + 1)} = Widen({s[j] : s \in Trail(o, j)})
  <1>1. ASSUME NEW s \in Trail(o, j + 1)
        PROVE  s[j + 1] \in Widen({t[j] : t \in Trail(o, j)})
    <2> DEFINE t == [i \in 0 .. j |-> s[i]]
    <2>1. t \in Trail(o, j) /\ t[j] = s[j]
      BY DEF Trail
    <2>2. s[j + 1] \in Node /\ (s[j] = s[j + 1] \/ {s[j], s[j + 1]} \in Made)
      BY DEF Trail
    <2> HIDE DEF t
    <2>3. s[j] \in {u[j] : u \in Trail(o, j)}
      BY <2>1
    <2> QED
      BY <2>2, <2>3 DEF Widen
  <1>2. ASSUME NEW s \in Trail(o, j), NEW k \in Node, s[j] = k \/ {s[j], k} \in Made
        PROVE  k \in {t[j + 1] : t \in Trail(o, j + 1)}
    <2> DEFINE t == [i \in 0 .. j + 1 |-> IF i = j + 1 THEN k ELSE s[i]]
    <2>1. t \in [0 .. j + 1 -> Node] /\ t[0] = o /\ t[j + 1] = k
      BY DEF Trail
    <2>2. \A i \in 0 .. j : t[i] = s[i]
      OBVIOUS
    <2>3. ASSUME NEW i \in 0 .. (j + 1) - 1 PROVE t[i] = t[i + 1] \/ {t[i], t[i + 1]} \in Made
      <3> HIDE DEF t
      <3>1. CASE i = j
        <4>1. t[i] = s[j] /\ t[i + 1] = k
          BY <2>1, <2>2, <3>1
        <4> QED
          BY <1>2, <4>1
      <3>2. CASE i # j
        <4>1. i \in 0 .. j - 1 /\ i \in 0 .. j /\ i + 1 \in 0 .. j
          BY <3>2
        <4>2. s[i] = s[i + 1] \/ {s[i], s[i + 1]} \in Made
          BY <4>1 DEF Trail
        <4> QED
          BY <2>2, <4>1, <4>2
      <3> QED
        BY <3>1, <3>2
    <2>4. t \in Trail(o, j + 1)
      <3> HIDE DEF t
      <3> QED
        BY <2>1, <2>3 DEF Trail
    <2> HIDE DEF t
    <2> QED
      BY <2>1, <2>4
  <1>3. ASSUME NEW k \in Widen({s[j] : s \in Trail(o, j)})
        PROVE  k \in {t[j + 1] : t \in Trail(o, j + 1)}
    <2>1. \A s \in Trail(o, j) : s[j] \in Node
      BY DEF Trail
    <2>2. PICK s \in Trail(o, j) : k \in Node /\ (s[j] = k \/ {s[j], k} \in Made)
      BY <2>1 DEF Widen
    <2> QED
      BY <1>2, <2>2
  <1> QED
    BY <1>1, <1>3

LEMMA WithinFacts ==
  ASSUME NEW o \in Node
  PROVE  /\ Within(o)[0] = {o}
         /\ \A j \in Nat : Within(o)[j + 1] = Widen(Within(o)[j])
  <1> DEFINE Solves(W) ==
        W = [j \in Nat |-> IF j = 0 THEN {o}
                           ELSE W[j - 1] \union {k \in Node : \E h \in W[j - 1] :
                                   {h, k} \in Link /\ conn[{h, k}] # "none"}]
             V == [j \in Nat |-> {s[j] : s \in Trail(o, j)}]
  <1>1. Within(o) = CHOOSE W : Solves(W)
    BY DEF Within
  <1>2. \A X : X \union {k \in Node : \E h \in X : {h, k} \in Link /\ conn[{h, k}] # "none"}
               = Widen(X)
    BY DEF Widen, Made
  <1>3. Solves(V)
    <2>1. V[0] = {o}
      <3>1. [i \in 0 .. 0 |-> o] \in Trail(o, 0) /\ [i \in 0 .. 0 |-> o][0] = o
        BY DEF Trail
      <3>2. \A s \in Trail(o, 0) : s[0] = o
        BY DEF Trail
      <3>3. {s[0] : s \in Trail(o, 0)} = {o}
        BY <3>1, <3>2
      <3> QED
        BY <3>3
    <2>2. ASSUME NEW j \in Nat, j # 0 PROVE V[j] = Widen(V[j - 1])
      <3>1. PICK i \in Nat : i = j - 1 /\ j = i + 1
        BY <2>2
      <3> QED
        BY <3>1, TrailStep
    <2>3. V = [j \in Nat |-> V[j]]
      OBVIOUS
    <2> HIDE DEF V
    <2>4. V = [j \in Nat |-> IF j = 0 THEN {o} ELSE Widen(V[j - 1])]
      BY <2>1, <2>2, <2>3
    <2> QED
      BY <1>2, <2>4
  <1>4. Solves(Within(o))
    <2> HIDE DEF Solves, V
    <2> QED
      BY <1>1, <1>3
  <1>5. PICK W : W = Within(o)
    OBVIOUS
  <1>6. W = [j \in Nat |-> IF j = 0 THEN {o} ELSE Widen(W[j - 1])]
    BY <1>2, <1>4, <1>5
  <1>7. \A j \in Nat : j + 1 \in Nat /\ j + 1 # 0 /\ (j + 1) - 1 = j
    OBVIOUS
  <1> QED
    BY <1>5, <1>6, <1>7

(* A walk of d links away from o ends at n.                                *)
Walk(o, n, d) ==
  \E f \in [0 .. d -> Node] :
    f[0] = o /\ f[d] = n /\ \A i \in 0 .. d - 1 : Outward(o, f[i], f[i + 1])

LEMMA WalkStart ==
  ASSUME NEW o \in Node
  PROVE  Walk(o, o, 0)
  <1>1. [i \in 0 .. 0 |-> o] \in [0 .. 0 -> Node] /\ [i \in 0 .. 0 |-> o][0] = o
    OBVIOUS
  <1>2. \A i \in 0 .. 0 - 1 : FALSE
    OBVIOUS
  <1> QED
    BY <1>1, <1>2 DEF Walk

LEMMA WalkOn ==
  ASSUME NEW o, NEW h, NEW n, NEW d \in Nat, Walk(o, h, d), Outward(o, h, n)
  PROVE  Walk(o, n, d + 1)
  <1>1. PICK f \in [0 .. d -> Node] :
          f[0] = o /\ f[d] = h /\ \A i \in 0 .. d - 1 : Outward(o, f[i], f[i + 1])
    BY DEF Walk
  <1>2. n \in Node
    BY LinkFacts DEF Outward
  <1> DEFINE g == [i \in 0 .. d + 1 |-> IF i = d + 1 THEN n ELSE f[i]]
  <1>3. g \in [0 .. d + 1 -> Node] /\ g[0] = o /\ g[d + 1] = n
    BY <1>1, <1>2
  <1>4. \A i \in 0 .. d : g[i] = f[i]
    OBVIOUS
  <1> HIDE DEF g
  <1>5. ASSUME NEW i \in 0 .. (d + 1) - 1 PROVE Outward(o, g[i], g[i + 1])
    <2>1. CASE i = d
      <3>1. g[i] = h /\ g[i + 1] = n
        BY <1>1, <1>3, <1>4, <2>1
      <3> QED
        BY <3>1
    <2>2. CASE i # d
      <3>1. i \in 0 .. d - 1 /\ g[i] = f[i] /\ g[i + 1] = f[i + 1]
        BY <1>4, <2>2
      <3> QED
        BY <1>1, <3>1
    <2> QED
      BY <2>1, <2>2
  <1> QED
    BY <1>3, <1>5 DEF Walk

(* The neighbours of n other than the one towards o are farther from o.    *)
LEMMA WithinUp ==
  ASSUME Forest, NEW o \in Node, NEW j \in Nat
  PROVE  /\ o \in Within(o)[j]
         /\ \A h, n : Outward(o, h, n) /\ n \in Within(o)[j] => j # 0 /\ h \in Within(o)[j - 1]
  <1> DEFINE W(i) == Within(o)[i]
             Good(i) == /\ o \in W(i)
                        /\ \A h, n : Outward(o, h, n) /\ n \in W(i) => i # 0 /\ h \in W(i - 1)
             S == {i \in Nat : Good(i)}
  <1>1. W(0) = {o} /\ \A i \in Nat : W(i + 1) = Widen(W(i))
    BY WithinFacts
  <1>2. Good(0)
    <2>1. \A h, n : Outward(o, h, n) => n # o
      BY OutwardFacts
    <2> QED
      BY <1>1, <2>1
  <1>3. ASSUME NEW i \in Nat, Good(i) PROVE Good(i + 1)
    <2> HIDE DEF W
    <2>1. o \in W(i + 1)
      BY <1>1, <1>3 DEF Widen
    <2>2. i + 1 # 0 /\ (i + 1) - 1 = i
      OBVIOUS
    <2>3. i # 0 => W(i - 1) \subseteq W(i)
      <3>1. i # 0 => i - 1 \in Nat /\ (i - 1) + 1 = i
        OBVIOUS
      <3> QED
        BY <1>1, <3>1 DEF Widen
    <2>4. ASSUME NEW h, NEW n, Outward(o, h, n), n \in W(i + 1) PROVE h \in W(i)
      <3>1. CASE n \in W(i)
        BY <1>3, <2>3, <2>4, <3>1
      <3>2. CASE n \notin W(i)
        <4>1. PICK k \in W(i) : {k, n} \in Made
          BY <1>1, <2>4, <3>2 DEF Widen
        <4>2. {n, k} = {k, n}
          OBVIOUS
        <4>3. CASE k # h
          <5>1. Outward(o, n, k)
            BY <2>4, <4>1, <4>2, <4>3, Forward
          <5> QED
            BY <1>3, <2>3, <3>2, <4>1, <5>1
        <4> QED
          BY <4>1, <4>3
      <3> QED
        BY <3>1, <3>2
    <2> QED
      BY <2>1, <2>2, <2>4
  <1>4. \A i \in Nat : i \in S
    <2>1. 0 \in S /\ \A i \in Nat : i \in S => i + 1 \in S
      <3> HIDE DEF Good
      <3> QED
        BY <1>2, <1>3
    <2> HIDE DEF S
    <2> QED
      BY <2>1, NatSet
  <1> QED
    BY <1>4

(* The nodes of a walk are reached one after the other.                    *)
LEMMA WalkReach ==
  ASSUME Forest, NEW o \in Node, NEW d \in Nat, NEW f \in [0 .. d -> Node], f[0] = o,
         \A i \in 0 .. d - 1 : Outward(o, f[i], f[i + 1])
  PROVE  \A i \in 0 .. d, j \in Nat : f[i] \in Within(o)[j] <=> i <= j
  <1> DEFINE S == {i \in Nat : i <= d => \A j \in Nat : f[i] \in Within(o)[j] <=> i <= j}
  <1>1. 0 \in S
    BY WithinUp
  <1>2. ASSUME NEW i \in Nat, i \in S PROVE i + 1 \in S
    <2> SUFFICES ASSUME i + 1 <= d, NEW j \in Nat
                 PROVE  f[i + 1] \in Within(o)[j] <=> i + 1 <= j
      OBVIOUS
    <2>1. Outward(o, f[i], f[i + 1]) /\ f[i + 1] \in Node /\ i <= d
      OBVIOUS
    <2>2. {f[i], f[i + 1]} \in Made
      BY <2>1 DEF Outward
    <2>3. \A k \in Nat : f[i] \in Within(o)[k] <=> i <= k
      BY <1>2, <2>1
    <2>4. ASSUME f[i + 1] \in Within(o)[j] PROVE i + 1 <= j
      <3>1. j # 0 /\ f[i] \in Within(o)[j - 1]
        BY <2>1, <2>4, WithinUp
      <3>2. j - 1 \in Nat
        BY <3>1
      <3>3. i <= j - 1
        BY <2>3, <3>1, <3>2
      <3> QED
        BY <3>3
    <2>5. ASSUME i + 1 <= j PROVE f[i + 1] \in Within(o)[j]
      <3>1. j - 1 \in Nat /\ (j - 1) + 1 = j /\ i <= j - 1
        BY <2>5
      <3>2. f[i] \in Within(o)[j - 1] /\ Within(o)[j] = Widen(Within(o)[j - 1])
        <4>1. \A k \in Nat : Within(o)[k + 1] = Widen(Within(o)[k])
          BY WithinFacts
        <4>2. Within(o)[(j - 1) + 1] = Widen(Within(o)[j - 1])
          BY <3>1, <4>1
        <4> QED
          BY <2>3, <3>1, <4>2
      <3> QED
        BY <2>1, <2>2, <3>2 DEF Widen
    <2> QED
      BY <2>4, <2>5
  <1>3. \A i \in Nat : i \in S
    <2> HIDE DEF S
    <2> QED
      BY <1>1, <1>2, NatSet
  <1> QED
    BY <1>3

(* So a walk is as long as its end is far from o.                          *)
LEMMA WalkLength ==
  ASSUME Forest, NEW o \in Node, NEW n, NEW d \in Nat, Walk(o, n, d)
  PROVE  d = Cardinality({j \in 0 .. Cardinality(Node) : n \notin Within(o)[j]})
  <1>1. PICK f \in [0 .. d -> Node] :
          f[0] = o /\ f[d] = n /\ \A i \in 0 .. d - 1 : Outward(o, f[i], f[i + 1])
    BY DEF Walk
  <1>2. \A i \in 0 .. d, j \in Nat : f[i] \in Within(o)[j] <=> i <= j
    BY <1>1, WalkReach
  <1>3. Cardinality(Node) \in Nat
    BY PatternAssumption, FS_CardinalityType
  <1>4. d + 1 <= Cardinality(Node)
    <2>1. \A i, k \in 0 .. d : f[i] = f[k] => i = k
      <3> SUFFICES ASSUME NEW i \in 0 .. d, NEW k \in 0 .. d, f[i] = f[k] PROVE i = k
        OBVIOUS
      <3>1. i <= k /\ k <= i
        <4>1. (f[i] \in Within(o)[k] <=> i <= k) /\ (f[k] \in Within(o)[k] <=> k <= k)
          BY <1>2
        <4>2. (f[k] \in Within(o)[i] <=> k <= i) /\ (f[i] \in Within(o)[i] <=> i <= i)
          BY <1>2
        <4> QED
          BY <4>1, <4>2
      <3> QED
        BY <3>1
    <2>2. f \in Injection(0 .. d, Node)
      BY <2>1 DEF Injection, IsInjective
    <2>3. Cardinality(0 .. d) <= Cardinality(Node)
      BY <2>2, PatternAssumption, FS_Injection
    <2>4. Cardinality(0 .. d) = d + 1
      BY FS_Interval
    <2> QED
      BY <2>3, <2>4
  <1>5. {j \in 0 .. Cardinality(Node) : n \notin Within(o)[j]} = 0 .. d - 1
    <2>1. \A j \in Nat : n \in Within(o)[j] <=> d <= j
      BY <1>1, <1>2
    <2> QED
      BY <1>3, <1>4, <2>1
  <1>6. Cardinality(0 .. d - 1) = d
    BY FS_Interval
  <1> QED
    BY <1>5, <1>6

(* A message that STAR passes on or up has counted a walk to the node that *)
(* it was sent from, or to where it is; a new one has counted nothing.     *)
CountInv ==
  \A n \in Node :
    /\ \A h \in Node :
         /\ \A c \in Elems(q[h][n]) : Walk(origin[c.id], h, c.hops)
         /\ in[n][h] # NoMsg => Walk(origin[in[n][h].id], h, in[n][h].hops)
    /\ \A c \in Elems(urq[n]) : Walk(origin[c.id], n, c.hops) /\ c.hops <= ttl
    /\ \A c \in Elems(uwq[n]) : n = origin[c.id] /\ c.hops = 0

HopInv == proto = "star" /\ Forest => CountInv

(* The copies on their way to n and at n.                                  *)
Here(n) ==
  (UNION {Elems(q[h][n]) : h \in Node}) \union ({in[n][h] : h \in Node} \ {NoMsg})
    \union Elems(urq[n]) \union Elems(uwq[n])

(* What is new has counted its hops.                                       *)
NewCount ==
  \A n \in Node :
    /\ \A h \in Node :
         /\ \A c \in Elems(q'[h][n]) :
              c \in Elems(q[h][n]) \/ Walk(origin[c.id], h, c.hops)
         /\ \/ in'[n][h] \in {in[n][h], NoMsg}
            \/ Walk(origin[in'[n][h].id], h, in'[n][h].hops)
    /\ \A c \in Elems(urq'[n]) :
         c \in Elems(urq[n]) \/ (Walk(origin[c.id], n, c.hops) /\ c.hops <= ttl)
    /\ \A c \in Elems(uwq'[n]) : c \in Elems(uwq[n])

LEMMA HereFacts ==
  ASSUME TypeOK, FreshInv
  PROVE  \A n \in Node : \A c \in Here(n) : c.id \in 1 .. nmsg
  <1> SUFFICES ASSUME NEW n \in Node, NEW c \in Here(n) PROVE c.id \in 1 .. nmsg
    OBVIOUS
  <1>1. ASSUME NEW h \in Node, c \in Elems(q[h][n]) PROVE c.id \in Place(n, 1)
    BY <1>1 DEF Place, Ids
  <1>2. ASSUME NEW h \in Node, c = in[n][h], c # NoMsg PROVE c.id \in Place(n, 2)
    <2>1. c \in Copy
      BY <1>2 DEF TypeOK
    <2> QED
      BY <1>2, <2>1 DEF Place, Copy
  <1>3. c \in Elems(urq[n]) => c.id \in Place(n, 3)
    BY DEF Place, Ids
  <1>4. c \in Elems(uwq[n]) => c.id \in Place(n, 5)
    BY DEF Place, Ids
  <1>5. \E k \in Places : c.id \in Place(n, k)
    BY <1>1, <1>2, <1>3, <1>4 DEF Here, Places
  <1> QED
    BY <1>5, OldFacts

LEMMA CountKeep ==
  ASSUME CountInv, NewCount, UNCHANGED <<ttl, origin>>, Made \subseteq Made'
  PROVE  CountInv'
  <1>1. \A o, n, d : Walk(o, n, d) => Walk(o, n, d)'
    <2>1. \A o, h : From(o, h) \subseteq From(o, h)'
      <3> SUFFICES ASSUME NEW o, NEW h, NEW n \in From(o, h), NEW X \in SUBSET Node,
                          o \in X, Closed(X, Avoiding(h)')
                   PROVE  n \in X
        BY DEF From, Reach
      <3>1. Avoiding(h) \subseteq Avoiding(h)'
        BY DEF Avoiding
      <3>2. Closed(X, Avoiding(h))
        BY <3>1 DEF Closed
      <3> QED
        BY <3>2 DEF From, Reach
    <2>2. \A o, h, n : Outward(o, h, n) => Outward(o, h, n)'
      BY <2>1 DEF Outward
    <2> QED
      BY <2>2 DEF Walk
  <1> SUFFICES ASSUME NEW n \in Node
               PROVE  /\ \A h \in Node :
                           /\ \A c \in Elems(q'[h][n]) : Walk(origin[c.id], h, c.hops)'
                           /\ in'[n][h] # NoMsg => Walk(origin[in[n][h].id], h, in[n][h].hops)'
                      /\ \A c \in Elems(urq'[n]) : Walk(origin[c.id], n, c.hops)' /\ c.hops <= ttl'
                      /\ \A c \in Elems(uwq'[n]) : n = origin'[c.id] /\ c.hops = 0
    BY DEF CountInv
  <1>2. \A n1, c : Walk(origin[c.id], n1, c.hops) => Walk(origin[c.id], n1, c.hops)'
    <2> SUFFICES ASSUME NEW n1, NEW c, Walk(origin[c.id], n1, c.hops)
                 PROVE  Walk(origin[c.id], n1, c.hops)'
      OBVIOUS
    <2>1. PICK o : o = origin[c.id] /\ o = origin'[c.id]
      OBVIOUS
    <2>2. Walk(o, n1, c.hops)'
      BY <1>1, <2>1
    <2> QED
      BY <2>1, <2>2 DEF Walk
  <1>3. ASSUME NEW h \in Node, NEW c \in Elems(q'[h][n]) PROVE Walk(origin[c.id], h, c.hops)'
    BY <1>2 DEF CountInv, NewCount
  <1>4. ASSUME NEW h \in Node, in'[n][h] # NoMsg
        PROVE  Walk(origin[in[n][h].id], h, in[n][h].hops)'
    <2>1. PICK c : c = in'[n][h]
      OBVIOUS
    <2>2. Walk(origin[c.id], h, c.hops)
      BY <1>4, <2>1 DEF CountInv, NewCount
    <2>3. Walk(origin[c.id], h, c.hops)'
      BY <1>2, <2>2
    <2> QED
      BY <2>1, <2>3 DEF Walk
  <1>5. ASSUME NEW c \in Elems(urq'[n]) PROVE Walk(origin[c.id], n, c.hops)' /\ c.hops <= ttl'
    BY <1>2 DEF CountInv, NewCount
  <1>6. ASSUME NEW c \in Elems(uwq'[n]) PROVE n = origin'[c.id] /\ c.hops = 0
    BY DEF CountInv, NewCount
  <1> QED
    BY <1>3, <1>4, <1>5, <1>6

LEMMA SendCount ==
  ASSUME TypeOK, FreshInv, CountInv, NEW n \in Node, Send(n)
  PROVE  CountInv'
  <1>1. /\ UNCHANGED <<ttl, conn, q, in, urq>>
        /\ nmsg \in Nat /\ nmsg + 1 \in Msg
        /\ origin' = [origin EXCEPT ![nmsg + 1] = n]
    BY PatternAssumption DEF Send, connVars, TypeOK, Msg
  <1>2. PICK t \in Topic \union {0} :
          uwq' = [uwq EXCEPT ![n] =
                    Append(@, [id |-> nmsg + 1, hops |-> 0, via |-> NoNode, topic |-> t])]
    BY DEF Send
  <1>3. PICK d : d = [id |-> nmsg + 1, hops |-> 0, via |-> NoNode, topic |-> t]
    OBVIOUS
  <1>4. d \in Copy /\ d.id = nmsg + 1 /\ d.hops = 0
    <2>1. t \in Topic
      BY PatternAssumption DEF Topic
    <2> QED
      BY <1>1, <1>3, <2>1 DEF Copy
  <1>5. \A o, h, d1 : Walk(o, h, d1)' <=> Walk(o, h, d1)
    <2>1. Made' = Made
      BY <1>1 DEF Made
    <2> QED
      BY <2>1 DEF Walk, Outward, From, Reach, Avoiding
  <1>6. \A m \in Node : \A c \in Here(m) : origin'[c.id] = origin[c.id]
    <2>1. \A k \in 1 .. nmsg : origin'[k] = origin[k]
      BY <1>1 DEF TypeOK, Msg
    <2> QED
      BY <2>1, HereFacts
  <1>7. \A m \in Node : /\ m # n => uwq'[m] = uwq[m]
                        /\ Elems(uwq'[n]) = Elems(uwq[n]) \union {d}
    <2>1. uwq[n] \in Seq(Copy)
      BY DEF TypeOK
    <2>2. Elems(Append(uwq[n], d)) = Elems(uwq[n]) \union {d}
      BY <1>4, <2>1, ElemsFacts
    <2> QED
      BY <1>2, <1>3, <2>2 DEF TypeOK
  <1> SUFFICES ASSUME NEW m \in Node
               PROVE  /\ \A h \in Node :
                           /\ \A c \in Elems(q'[h][m]) : Walk(origin[c.id], h, c.hops)'
                           /\ in'[m][h] # NoMsg => Walk(origin[in[m][h].id], h, in[m][h].hops)'
                      /\ \A c \in Elems(urq'[m]) : Walk(origin[c.id], m, c.hops)' /\ c.hops <= ttl'
                      /\ \A c \in Elems(uwq'[m]) : m = origin'[c.id] /\ c.hops = 0
    BY DEF CountInv
  <1>8. ASSUME NEW c \in Here(m), NEW h, Walk(origin[c.id], h, c.hops)
        PROVE  Walk(origin[c.id], h, c.hops)'
    <2>1. PICK o : o = origin[c.id] /\ o = origin'[c.id]
      BY <1>6
    <2>2. Walk(o, h, c.hops)'
      BY <1>5, <1>8, <2>1
    <2> QED
      BY <2>1, <2>2 DEF Walk
  <1>9. ASSUME NEW h \in Node
        PROVE  /\ \A c \in Elems(q'[h][m]) : Walk(origin[c.id], h, c.hops)'
               /\ in'[m][h] # NoMsg => Walk(origin[in[m][h].id], h, in[m][h].hops)'
    <2>1. \A c \in Elems(q[h][m]) : c \in Here(m)
      BY DEF Here
    <2>2. ASSUME in[m][h] # NoMsg PROVE Walk(origin[in[m][h].id], h, in[m][h].hops)'
      <3>1. PICK c : c = in[m][h]
        OBVIOUS
      <3>2. c \in Here(m) /\ Walk(origin[c.id], h, c.hops)
        BY <2>2, <3>1 DEF Here, CountInv
      <3>3. Walk(origin[c.id], h, c.hops)'
        BY <1>8, <3>2
      <3> QED
        BY <1>1, <3>1, <3>3 DEF Walk
    <2> QED
      BY <1>1, <1>8, <2>1, <2>2 DEF CountInv
  <1>10. \A c \in Elems(urq'[m]) : Walk(origin[c.id], m, c.hops)' /\ c.hops <= ttl'
    <2>1. \A c \in Elems(urq[m]) : c \in Here(m)
      BY DEF Here
    <2> QED
      BY <1>1, <1>8, <2>1 DEF CountInv
  <1>11. ASSUME NEW c \in Elems(uwq'[m]) PROVE m = origin'[c.id] /\ c.hops = 0
    <2>1. CASE c \in Elems(uwq[m])
      <3>1. c \in Here(m)
        BY <2>1 DEF Here
      <3> QED
        BY <1>6, <2>1, <3>1 DEF CountInv
    <2>2. CASE m = n /\ c = d
      BY <1>1, <1>4, <2>2 DEF TypeOK
    <2> QED
      BY <1>7, <2>1, <2>2
  <1> QED
    BY <1>9, <1>10, <1>11

(* What an offered message c is new to.                                    *)
LEMMA OfferCount ==
  ASSUME TypeOK, NEW n \in Node, NEW c \in Copy, NEW S, q' = [q EXCEPT ![n] = Offer(n, c, S)]
  PROVE  \A h, k \in Node : \A d \in Elems(q'[h][k]) : d \in Elems(q[h][k]) \/ (h = n /\ d = c)
  <1> SUFFICES ASSUME NEW h \in Node, NEW k \in Node, NEW d \in Elems(q'[h][k]),
                      d \notin Elems(q[h][k])
               PROVE  h = n /\ d = c
    OBVIOUS
  <1>1. q'[h][k] = q[h][k] \/ (h = n /\ q'[h][k] = Append(q[h][k], c))
    <2>1. Offer(n, c, S)[k] = q[n][k] \/ Offer(n, c, S)[k] = Append(q[n][k], c)
      BY OfferFacts
    <2>2. q'[h][k] = q[h][k] \/ (h = n /\ q'[h][k] = Offer(n, c, S)[k])
      BY DEF TypeOK
    <2> QED
      BY <2>1, <2>2
  <1>2. q[h][k] \in Seq(Copy)
    BY DEF TypeOK
  <1>3. Elems(Append(q[h][k], c)) = Elems(q[h][k]) \union {c}
    BY <1>2, ElemsFacts
  <1>4. h = n /\ Elems(q'[h][k]) = Elems(q[h][k]) \union {c}
    <2>1. q'[h][k] # q[h][k]
      OBVIOUS
    <2> QED
      BY <1>1, <1>3, <2>1
  <1> QED
    BY <1>4

LEMMA TransmitCount ==
  ASSUME TypeOK, CountInv, NEW n \in Node, NEW k \in Node, Transmit(n, k)
  PROVE  NewCount
  <1>1. q[n][k] \in Seq(Copy) /\ q[n][k] # <<>>
    BY DEF Transmit, TypeOK
  <1>2. Head(q[n][k]) \in Elems(q[n][k]) /\ Elems(Tail(q[n][k])) \subseteq Elems(q[n][k])
    BY <1>1, ElemsFacts
  <1>3. /\ q'[n][k] = Tail(q[n][k])
        /\ \A g, m \in Node : g # n \/ m # k => q'[g][m] = q[g][m]
        /\ in'[k][n] = Head(q[n][k])
        /\ \A g, m \in Node : g # n \/ m # k => in'[m][g] = in[m][g]
        /\ UNCHANGED <<uwq, urq>>
    BY DEF Transmit, TypeOK
  <1>4. Walk(origin[Head(q[n][k]).id], n, Head(q[n][k]).hops)
    BY <1>2 DEF CountInv
  <1>5. \A g, m \in Node : Elems(q'[g][m]) \subseteq Elems(q[g][m])
    BY <1>2, <1>3
  <1>6. \A g, m \in Node : in'[m][g] = in[m][g] \/ Walk(origin[in'[m][g].id], g, in'[m][g].hops)
    BY <1>3, <1>4
  <1> QED
    BY <1>3, <1>5, <1>6 DEF NewCount

LEMMA StarSendCount ==
  ASSUME TypeOK, FreshInv, CountInv, NEW n \in Node, StarSend(n)
  PROVE  NewCount
  <1>1. PICK c : c = Head(uwq[n])
    OBVIOUS
  <1>2. uwq[n] \in Seq(Copy) /\ uwq[n] # <<>>
    BY DEF StarSend, Broadcast, TypeOK
  <1>3. c \in Copy /\ c \in Elems(uwq[n]) /\ Elems(Tail(uwq[n])) \subseteq Elems(uwq[n])
    BY <1>1, <1>2, ElemsFacts
  <1>4. q' = [q EXCEPT ![n] = Offer(n, c, eps[n])] /\ UNCHANGED <<in, urq>>
    BY <1>1 DEF StarSend, Broadcast
  <1>5. \A m \in Node : Elems(uwq'[m]) \subseteq Elems(uwq[m])
    <2>1. uwq'[n] = Tail(uwq[n]) /\ \A m \in Node : m # n => uwq'[m] = uwq[m]
      BY DEF StarSend, Broadcast, TypeOK
    <2> QED
      BY <1>3, <2>1
  <1>6. Walk(origin[c.id], n, c.hops)
    <2>1. n = origin[c.id] /\ c.hops = 0
      BY <1>3 DEF CountInv
    <2> QED
      BY <2>1, WalkStart
  <1>7. \A h, k \in Node : \A d \in Elems(q'[h][k]) : d \in Elems(q[h][k]) \/ (h = n /\ d = c)
    BY <1>3, <1>4, OfferCount
  <1> QED
    BY <1>4, <1>5, <1>6, <1>7 DEF NewCount

LEMMA StarRecvCount ==
  ASSUME TypeOK, FreshInv, AwayInv, CountInv, NEW n \in Node, NEW k \in Node,
         Ready(n, k), StarRecv(n, k)
  PROVE  NewCount
  <1>1. PICK c : c = NextHop(in[n][k])
    OBVIOUS
  <1>2. in[n][k] \in Copy /\ in[n][k] # NoMsg /\ c \in Copy /\ c.id = in[n][k].id
        /\ in[n][k].hops \in Nat /\ c.hops = in[n][k].hops + 1
    <2>1. in[n][k] \in Copy /\ in[n][k] # NoMsg
      BY DEF Ready, TypeOK
    <2>2. in[n][k].hops \in Nat /\ NextHop(in[n][k]).hops = in[n][k].hops + 1
      BY <2>1 DEF Copy, NextHop
    <2> QED
      BY <1>1, <2>1, <2>2, CopyFacts
  <1>3. /\ in'[n][k] = NoMsg /\ UNCHANGED uwq
        /\ \A m, h \in Node : m # n \/ h # k => in'[m][h] = in[m][h]
    BY DEF StarRecv, Received, TypeOK
  <1>4. \A m, h \in Node : in'[m][h] \in {in[m][h], NoMsg}
    BY <1>3
  <1>5. CASE in[n][k].hops >= ttl /\ UNCHANGED <<q, urq>>
    BY <1>3, <1>4, <1>5 DEF NewCount
  <1>6. CASE /\ in[n][k].hops < ttl
             /\ q' = [q EXCEPT ![n] = Offer(n, c, StarOthers(n, k))]
             /\ UpOrDrop(n, c)
    <2>1. Walk(origin[c.id], n, c.hops)
      <3>1. Outward(origin[c.id], k, n) /\ Walk(origin[c.id], k, in[n][k].hops)
        BY <1>2 DEF AwayInv, LinkFine, CountInv
      <3> QED
        BY <1>2, <3>1, WalkOn
    <2>2. c.hops <= ttl
      BY <1>2, <1>6 DEF TypeOK
    <2>3. \A h, m \in Node : \A d \in Elems(q'[h][m]) : d \in Elems(q[h][m]) \/ (h = n /\ d = c)
      <3>1. PICK S : S = StarOthers(n, k)
        OBVIOUS
      <3>2. q' = [q EXCEPT ![n] = Offer(n, c, S)] /\ c \in Copy
        BY <1>2, <1>6, <3>1
      <3> QED
        BY <3>2, OfferCount
    <2>4. \A m \in Node : \A d \in Elems(urq'[m]) : d \in Elems(urq[m]) \/ (m = n /\ d = c)
      <3>1. urq[n] \in Seq(Copy)
        BY DEF TypeOK
      <3>2. Elems(Append(urq[n], c)) = Elems(urq[n]) \union {c}
        BY <1>2, <3>1, ElemsFacts
      <3>3. /\ \A m \in Node : m # n => urq'[m] = urq[m]
            /\ urq'[n] = urq[n] \/ urq'[n] = Append(urq[n], c)
        BY <1>6 DEF UpOrDrop, PushUp, TypeOK
      <3>4. \A d \in Elems(urq'[n]) : d \in Elems(urq[n]) \/ d = c
        BY <3>2, <3>3
      <3> QED
        BY <3>3, <3>4
    <2> QED
      BY <1>3, <1>4, <2>1, <2>2, <2>3, <2>4 DEF NewCount
  <1> QED
    BY <1>1, <1>5, <1>6 DEF StarRecv

LEMMA HopStep ==
  ASSUME TypeOK, PathInv, HopInv, [Next]_vars
  PROVE  HopInv'
  <1> SUFFICES ASSUME proto' = "star", Forest' PROVE CountInv'
    BY DEF HopInv
  <1>1. UNCHANGED <<proto, ttl>> /\ Made \subseteq Made'
    <2>1. ASSUME NEW n \in Node,
                 \/ Send(n) \/ Recv(n) \/ SendStep(n) \/ FwdStep(n)
                 \/ \E s \in Topic : Subscribe(n, s) \/ Unsubscribe(n, s + 1)
          PROVE  UNCHANGED <<proto, ttl>>
      BY <2>1 DEF Send, Recv, SendStep, PubSend, BusSend, StarSend, Broadcast, FwdStep, FwdTake,
                  FwdSend, Subscribe, Unsubscribe
    <2>2. ASSUME NEW n \in Node, NEW k \in Node,
                 \/ AddEndpoint(n, k) \/ RemoveEndpoint(n, k)
                 \/ PeerStep(n, k) \/ RecvStep(n, k)
          PROVE  UNCHANGED <<proto, ttl>>
      BY <2>2 DEF AddEndpoint, RemoveEndpoint, PeerStep, Transmit, PushSend, PairSend, Take, Lose,
                  RecvStep, PullRecv, PairRecv, SubRecv, BusRecv, StarRecv
    <2>3. ASSUME NEW l \in Link, Dial(l) \/ PipeDown(l) PROVE UNCHANGED <<proto, ttl>>
      BY <2>3 DEF Dial, PipeDown
    <2>4. UNCHANGED vars => UNCHANGED <<proto, ttl>>
      BY DEF vars
    <2> QED
      BY <2>1, <2>2, <2>3, <2>4, MadeStep DEF Next
  <1>2. proto = "star" /\ Forest /\ FreshInv /\ AwayInv /\ CountInv
    <2>1. Tame'
      BY DEF Tame
    <2>2. Tame /\ ~Direct
      BY <1>1, <2>1, TameStep DEF Direct
    <2> QED
      BY <1>1, <2>2 DEF Tame, PathInv, WayInv, HopInv
  <1>3. UNCHANGED origin /\ NewCount => CountInv'
    BY <1>1, <1>2, CountKeep
  <1>4. UNCHANGED <<q, in, urq, uwq>> => NewCount
    BY DEF NewCount
  <1>5. CASE UNCHANGED vars
    BY <1>3, <1>4, <1>5 DEF vars, appVars
  <1>6. ASSUME NEW l \in Link, Dial(l) \/ PipeDown(l) PROVE CountInv'
    BY <1>3, <1>4, <1>6 DEF Dial, PipeDown, appVars
  <1>7. ASSUME NEW n \in Node, NEW k \in Node, AddEndpoint(n, k) PROVE CountInv'
    BY <1>3, <1>4, <1>7 DEF AddEndpoint, appVars
  <1>8. ASSUME NEW n \in Node, NEW k \in Node, RemoveEndpoint(n, k) PROVE CountInv'
    <2>1. q' = [q EXCEPT ![n][k] = <<>>] /\ UNCHANGED <<in, urq, uwq, origin>>
      BY <1>2, <1>8 DEF RemoveEndpoint, PushRemove, PairRemove, PubRemove, BusRemove, StarRemove,
                        CloseQueue, appVars
    <2>2. \A h, m \in Node : q'[h][m] = q[h][m] \/ q'[h][m] = <<>>
      BY <2>1 DEF TypeOK
    <2>3. Elems(<<>>) = {}
      BY DEF Elems
    <2>4. \A h, m \in Node : Elems(q'[h][m]) \subseteq Elems(q[h][m])
      BY <2>2, <2>3
    <2>5. NewCount
      BY <2>1, <2>4 DEF NewCount
    <2> QED
      BY <1>3, <2>1, <2>5
  <1>9. ASSUME NEW n \in Node, Send(n) PROVE CountInv'
    BY <1>2, <1>9, SendCount
  <1>10. ASSUME NEW n \in Node, Recv(n) PROVE CountInv'
    <2>1. urq[n] \in Seq(Copy) /\ urq[n] # <<>>
      BY <1>10 DEF Recv, TypeOK
    <2>2. Elems(Tail(urq[n])) \subseteq Elems(urq[n])
      BY <2>1, ElemsFacts
    <2>3. UNCHANGED <<q, in, uwq, origin>>
          /\ \A m \in Node : urq'[m] = IF m = n THEN Tail(urq[n]) ELSE urq[m]
      BY <1>10 DEF Recv, TypeOK
    <2>4. NewCount
      BY <2>2, <2>3 DEF NewCount
    <2> QED
      BY <1>3, <2>3, <2>4
  <1>11. ASSUME NEW n \in Node, SendStep(n) PROVE CountInv'
    <2>1. StarSend(n)
      BY <1>2, <1>11 DEF SendStep, PubSend, BusSend
    <2>2. UNCHANGED origin
      BY <2>1 DEF StarSend, Broadcast, appVars
    <2> QED
      BY <1>2, <1>3, <2>1, <2>2, StarSendCount
  <1>12. ASSUME NEW n \in Node, FwdStep(n) PROVE CountInv'
    <2>1. fwd[n] = {}
      BY <1>2 DEF AwayInv, FwdFine, Relays
    <2> QED
      BY <1>2, <1>12, <2>1 DEF FwdStep, FwdTake
  <1>13. ASSUME NEW n \in Node, NEW k \in Node, PeerStep(n, k) PROVE CountInv'
    <2>1. Transmit(n, k)
      BY <1>2, <1>13 DEF PeerStep, PushSend, PairSend
    <2>2. UNCHANGED origin
      BY <2>1 DEF Transmit, appVars
    <2> QED
      BY <1>2, <1>3, <2>1, <2>2, TransmitCount
  <1>14. ASSUME NEW n \in Node, NEW k \in Node, RecvStep(n, k) PROVE CountInv'
    <2>1. Ready(n, k) /\ StarRecv(n, k)
      BY <1>2, <1>14 DEF RecvStep, PullRecv, PairRecv, SubRecv, BusRecv
    <2>2. UNCHANGED origin
      BY <2>1 DEF StarRecv, appVars
    <2> QED
      BY <1>2, <1>3, <2>1, <2>2, StarRecvCount
  <1>15. ASSUME NEW n \in Node, NEW s \in Topic, Subscribe(n, s) \/ Unsubscribe(n, s + 1)
         PROVE  CountInv'
    BY <1>2, <1>15 DEF Subscribe, Unsubscribe
  <1> QED
    BY <1>5, <1>6, <1>7, <1>8, <1>9, <1>10, <1>11, <1>12, <1>13, <1>14, <1>15 DEF Next

(* In a topology without cycles STAR's hop count is the distance that a    *)
(* message has come, and no more than the TTL when it is passed up         *)
(* (star.SendHook, receiver, broadcast).                                   *)
THEOREM CountsHops == SafeSpec => []HopsCount
  <1>1. Init => HopInv
    <2> SUFFICES ASSUME Init PROVE CountInv
      BY DEF HopInv
    <2>1. /\ \A n \in Node : uwq[n] = <<>> /\ urq[n] = <<>>
          /\ \A n, h \in Node : q[h][n] = <<>> /\ in[n][h] = NoMsg
      BY DEF Init
    <2>2. Elems(<<>>) = {}
      BY DEF Elems
    <2> QED
      BY <2>1, <2>2 DEF CountInv
  <1>2. TypeOK /\ PathInv /\ HopInv /\ [Next]_vars => HopInv'
    BY HopStep
  <1>3. ASSUME TypeOK, PathInv, HopInv PROVE HopsCount
    <2> DEFINE Far(c, n) == c.hops = Cardinality({j \in 0 .. Cardinality(Node) :
                                                    n \notin Within(origin[c.id])[j]})
    <2> SUFFICES ASSUME proto = "star", Forest, NEW n \in Node
                 PROVE  /\ \A k \in Node : in[n][k] # NoMsg => Far(in[n][k], k)
                        /\ \A i \in 1 .. Len(urq[n]) :
                             Far(urq[n][i], n) /\ urq[n][i].hops <= ttl
      BY DEF HopsCount
    <2>1. CountInv /\ FreshInv
      BY <1>3 DEF HopInv, PathInv, Tame
    <2>2. ASSUME NEW c \in Here(n), c \in Copy, NEW k, Walk(origin[c.id], k, c.hops)
          PROVE  Far(c, k)
      <3>1. origin[c.id] \in Node
        BY <1>3, <2>1, HereFacts DEF FreshInv
      <3>2. c.hops \in Nat
        BY <2>2 DEF Copy
      <3> QED
        BY <2>2, <3>1, <3>2, WalkLength
    <2>3. ASSUME NEW k \in Node, in[n][k] # NoMsg PROVE Far(in[n][k], k)
      <3>1. in[n][k] \in Copy
        BY <1>3, <2>3 DEF TypeOK
      <3>2. in[n][k] \in Here(n) /\ Walk(origin[in[n][k].id], k, in[n][k].hops)
        BY <2>1, <2>3 DEF Here, CountInv
      <3> QED
        BY <2>2, <3>1, <3>2
    <2>4. ASSUME NEW i \in 1 .. Len(urq[n]) PROVE Far(urq[n][i], n) /\ urq[n][i].hops <= ttl
      <3>1. urq[n][i] \in Copy
        BY <1>3 DEF TypeOK
      <3>2. urq[n][i] \in Elems(urq[n]) /\ urq[n][i] \in Here(n)
        BY DEF Elems, Here
      <3>3. Walk(origin[urq[n][i].id], n, urq[n][i].hops) /\ urq[n][i].hops <= ttl
        BY <2>1, <3>2 DEF CountInv
      <3> HIDE DEF Far
      <3> QED
        BY <2>2, <3>1, <3>2, <3>3
    <2> QED
      BY <2>3, <2>4
  <1> QED
    BY <1>1, <1>2, <1>3, TypeCorrect, PathsHold, PTL DEF SafeSpec

=============================================================================
