--------------------------- MODULE UnitListProofs ---------------------------
(***************************************************************************)
(* The lists of unit/unit_list.[ch], for any number of items and of lists: *)
(* the pointers of a list stand for a sequence of items, and each call     *)
(* does to the sequences what ListSpec says.                               *)
(***************************************************************************)
EXTENDS UnitList, FiniteSetTheorems, SequenceTheorems, WellFoundedInduction, TLAPS

-----------------------------------------------------------------------------
(* Induction over the natural numbers, with a set in the place of the      *)
(* predicate.                                                              *)

LEMMA Smallest ==
  ASSUME NEW S, S \subseteq Nat, S # {}
  PROVE  \E n \in S : \A m \in S : n <= m
  <1> DEFINE R == {p \in Nat \X Nat : p[1] < p[2]}
  <1>1. IsWellFoundedOn(R, Nat)
    BY NatLessThanWellFounded DEF OpToRel
  <1>2. PICK n \in S : \A m \in S : <<m, n>> \notin R
    BY <1>1, WFMin
  <1>3. \A m \in S : m < n => <<m, n>> \in R
    OBVIOUS
  <1> HIDE DEF R
  <1>4. \A m \in S : m \in Nat /\ n \in Nat /\ ~(m < n)
    BY <1>2, <1>3
  <1>5. \A m \in S : n <= m
    BY <1>4
  <1> QED
    BY <1>5

LEMMA InductionOnSets ==
  ASSUME NEW S, 0 \in S, \A n \in Nat : n \in S => n + 1 \in S
  PROVE  Nat \subseteq S
  <1> SUFFICES ASSUME Nat \ S # {} PROVE FALSE
    OBVIOUS
  <1>1. PICK n \in Nat \ S : \A m \in Nat \ S : n <= m
    BY Smallest
  <1>2. n # 0 /\ n - 1 \in Nat /\ n - 1 \notin Nat \ S
    BY <1>1
  <1> QED
    BY <1>1, <1>2

-----------------------------------------------------------------------------
(* Walks and paths along pointers.                                         *)

LEMMA WalkIs ==
  ASSUME NEW f, NEW from
  PROVE  Walk(f, from) = [k \in Nat |-> IF k = 0 THEN from
                                        ELSE IF Walk(f, from)[k - 1] = Null THEN Null
                                             ELSE f[Walk(f, from)[k - 1]]]
  <1> DEFINE Def(g, k) == IF k = 0 THEN from ELSE IF g[k - 1] = Null THEN Null ELSE f[g[k - 1]]
             Upto(g, n) == g = [k \in 0 .. n |-> Def(g, k)]
             Defined == {n \in Nat : \E g : Upto(g, n)}
             part(n) == CHOOSE g : Upto(g, n)
             Agreed == {k \in Nat : \A m, n \in Nat : k <= m /\ k <= n => part(m)[k] = part(n)[k]}
             all == [k \in Nat |-> part(k)[k]]
             walk[k \in Nat] == Def(walk, k)
  <1>1. ASSUME NEW g, NEW h, NEW k \in Nat, k # 0 => g[k - 1] = h[k - 1]
        PROVE  Def(g, k) = Def(h, k)
    BY <1>1
  <1>2. \A g, n, k : Upto(g, n) /\ n \in Nat /\ k \in 0 .. n => g[k] = Def(g, k)
    <2> HIDE DEF Def
    <2> QED
      OBVIOUS
  <1>3. ASSUME NEW g PROVE Def(g, 0) = from
    OBVIOUS
  <1> HIDE DEF Def
  <1>4. 0 \in Defined
    <2>1. Upto([k \in 0 .. 0 |-> from], 0)
      BY <1>3
    <2> QED
      BY <2>1
  <1>5. ASSUME NEW n \in Nat, n \in Defined PROVE n + 1 \in Defined
    <2>1. PICK g : Upto(g, n)
      BY <1>5
    <2> DEFINE h == [k \in 0 .. n + 1 |-> IF k = n + 1 THEN Def(g, n + 1) ELSE g[k]]
    <2>2. \A k \in 0 .. n : h[k] = g[k]
      OBVIOUS
    <2>3. h[n + 1] = Def(g, n + 1)
      OBVIOUS
    <2> HIDE DEF h
    <2>4. \A k \in 0 .. n + 1 : Def(h, k) = Def(g, k)
      <3> SUFFICES ASSUME NEW k \in 0 .. n + 1 PROVE Def(h, k) = Def(g, k)
        OBVIOUS
      <3>1. k \in Nat /\ (k # 0 => h[k - 1] = g[k - 1])
        BY <2>2
      <3> QED
        BY <1>1, <3>1
    <2>5. \A k \in 0 .. n : g[k] = Def(g, k)
      BY <1>2, <2>1
    <2>6. \A k \in 0 .. n + 1 : h[k] = Def(h, k)
      BY <2>2, <2>3, <2>4, <2>5
    <2>7. Upto(h, n + 1)
      BY <2>6 DEF h
    <2> QED
      BY <2>7
  <1>6. Nat \subseteq Defined
    <2> HIDE DEF Defined
    <2> QED
      BY <1>4, <1>5, InductionOnSets
  <1>7. \A n \in Nat : Upto(part(n), n)
    BY <1>6
  <1> HIDE DEF part
  <1>8. \A n \in Nat : \A k \in 0 .. n : part(n)[k] = Def(part(n), k)
    <2> HIDE DEF Upto
    <2> QED
      BY <1>2, <1>7
  <1>9. 0 \in Agreed
    BY <1>3, <1>8
  <1>10. ASSUME NEW j \in Nat, j \in Agreed PROVE j + 1 \in Agreed
    <2> SUFFICES ASSUME NEW m \in Nat, NEW n \in Nat, j + 1 <= m, j + 1 <= n
                 PROVE  part(m)[j + 1] = part(n)[j + 1]
      OBVIOUS
    <2>1. part(m)[j] = part(n)[j]
      BY <1>10
    <2>2. j + 1 \in Nat /\ (j + 1) - 1 = j /\ j + 1 \in 0 .. m /\ j + 1 \in 0 .. n
      OBVIOUS
    <2>3. Def(part(m), j + 1) = Def(part(n), j + 1)
      BY <1>1, <2>1, <2>2
    <2> QED
      BY <1>8, <2>2, <2>3
  <1>11. Nat \subseteq Agreed
    <2> HIDE DEF Agreed
    <2> QED
      BY <1>9, <1>10, InductionOnSets
  <1>12. \A k \in Nat : all[k] = Def(all, k)
    <2> SUFFICES ASSUME NEW k \in Nat PROVE part(k)[k] = Def(all, k)
      BY DEF all
    <2>1. k # 0 => part(k)[k - 1] = all[k - 1]
      BY <1>11
    <2>2. Def(part(k), k) = Def(all, k)
      <3> HIDE DEF all
      <3> QED
        BY <1>1, <2>1
    <2> QED
      BY <1>8, <2>2
  <1>13. all = [k \in Nat |-> Def(all, k)]
    <2> DEFINE rhs == [k \in Nat |-> Def(all, k)]
    <2>1. all = [k \in Nat |-> all[k]]
      OBVIOUS
    <2> HIDE DEF all
    <2>2. [k \in Nat |-> all[k]] = rhs
      BY <1>12
    <2> QED
      BY <2>1, <2>2
  <1> HIDE DEF all
  <1>14. walk = [k \in Nat |-> Def(walk, k)]
    BY <1>13
  <1>15. walk = Walk(f, from)
    BY DEF Walk, Def, walk
  <1> HIDE DEF walk
  <1> QED
    BY <1>14, <1>15 DEF Def

(* The k-th node of a closed chain: a list, its items, and the list again. *)
Node(s, l, k) == IF k \in 1 .. Len(s) THEN s[k] ELSE l

LEMMA PathIs ==
  ASSUME NEW f, NEW from, NEW to, NEW s \in Seq(Items), Len(s) <= Cardinality(Items),
         \A k \in 1 .. Len(s) : s[k] # to /\ f[s[k]] = Node(s, to, k + 1),
         from = Node(s, to, 1)
  PROVE  Path(f, from, to) = s
  <1> DEFINE walk == Walk(f, from)
             Along == {k \in Nat : k <= Len(s) => walk[k] = Node(s, to, k + 1)}
             Bound == Cardinality(Items) + 1
             First(k) == walk[k] = to /\ \A j \in 0 .. k - 1 : walk[j] # to
             n == IF \E k \in 0 .. Bound : walk[k] = to THEN CHOOSE k \in 0 .. Bound : First(k) ELSE Bound
  <1>1. /\ Len(s) \in Nat /\ Cardinality(Items) \in Nat /\ DOMAIN s = 1 .. Len(s)
        /\ \A k \in 1 .. Len(s) : s[k] \in Items /\ s[k] # Null
    BY UnitListAssumption, FS_CardinalityType, LenProperties
  <1>2. /\ walk[0] = from
        /\ \A k \in Nat : walk[k + 1] = IF walk[k] = Null THEN Null ELSE f[walk[k]]
    <2>1. walk = [k \in Nat |-> IF k = 0 THEN from ELSE IF walk[k - 1] = Null THEN Null ELSE f[walk[k - 1]]]
      BY WalkIs
    <2> HIDE DEF walk
    <2>2. \A k \in Nat : walk[k] = IF k = 0 THEN from ELSE IF walk[k - 1] = Null THEN Null ELSE f[walk[k - 1]]
      BY <2>1
    <2>3. \A k \in Nat : k + 1 \in Nat /\ k + 1 # 0 /\ (k + 1) - 1 = k
      OBVIOUS
    <2> QED
      BY <2>2, <2>3
  <1>3. Path(f, from, to) = [k \in 1 .. n |-> walk[k - 1]]
    BY DEF Path
  <1> HIDE DEF walk
  <1>4. 0 \in Along
    BY <1>2
  <1>5. ASSUME NEW k \in Nat, k \in Along PROVE k + 1 \in Along
    <2> SUFFICES ASSUME k + 1 <= Len(s) PROVE walk[k + 1] = Node(s, to, k + 2)
      OBVIOUS
    <2>1. k + 1 \in 1 .. Len(s) /\ walk[k] = s[k + 1]
      BY <1>1, <1>5 DEF Node
    <2>2. s[k + 1] # Null /\ f[s[k + 1]] = Node(s, to, (k + 1) + 1) /\ (k + 1) + 1 = k + 2
      BY <1>1, <2>1
    <2> QED
      BY <1>2, <2>1, <2>2
  <1>6. Nat \subseteq Along
    <2> HIDE DEF Along
    <2> QED
      BY <1>4, <1>5, InductionOnSets
  <1>7. \A k \in 0 .. Len(s) - 1 : walk[k] = s[k + 1] /\ walk[k] # to
    <2> SUFFICES ASSUME NEW k \in 0 .. Len(s) - 1 PROVE walk[k] = s[k + 1] /\ walk[k] # to
      OBVIOUS
    <2>1. k \in Nat /\ k <= Len(s) /\ k + 1 \in 1 .. Len(s)
      BY <1>1
    <2>2. walk[k] = Node(s, to, k + 1)
      BY <1>6, <2>1
    <2> QED
      BY <2>1, <2>2 DEF Node
  <1>8. walk[Len(s)] = to
    BY <1>1, <1>6 DEF Node
  <1>9. Len(s) \in 0 .. Bound /\ First(Len(s))
    BY <1>1, <1>7, <1>8
  <1>10. ASSUME NEW k \in 0 .. Bound, First(k) PROVE k = Len(s)
    <2>1. ~(Len(s) \in 0 .. k - 1)
      BY <1>8, <1>10
    <2>2. ~(k \in 0 .. Len(s) - 1)
      BY <1>7, <1>10
    <2>3. k \in Nat /\ Len(s) \in Nat
      BY <1>1
    <2> HIDE DEF First
    <2> QED
      BY <2>1, <2>2, <2>3
  <1>11. n = Len(s)
    <2>1. \E k \in 0 .. Bound : walk[k] = to
      BY <1>9
    <2>2. n = CHOOSE k \in 0 .. Bound : First(k)
      BY <2>1
    <2> HIDE DEF First, Bound
    <2> QED
      BY <1>9, <1>10, <2>2
  <1> HIDE DEF n
  <1>12. \A k \in 1 .. Len(s) : walk[k - 1] = s[k]
    BY <1>7
  <1>13. s = [k \in 1 .. Len(s) |-> s[k]]
    BY LenProperties
  <1> QED
    BY <1>3, <1>11, <1>12, <1>13

-----------------------------------------------------------------------------
(* The invariant: each list stands for a sequence of items, along the next *)
(* pointers and against the prev pointers, and no item is in two places.   *)

Distinct(c) ==
  \A l, m \in Lists : \A j \in 1 .. Len(c[l]), k \in 1 .. Len(c[m]) :
    c[l][j] = c[m][k] => l = m /\ j = k
Contents == {c \in [Lists -> Seq(Items)] : Distinct(c)}
Holder(c, i, l) == \E k \in 1 .. Len(c[l]) : c[l][k] = i

Edge(u, v) == next[u] = v /\ prev[v] = u
Closed(s, l) == \A k \in 0 .. Len(s) : Edge(Node(s, l, k), Node(s, l, k + 1))

PointerType ==
  /\ next \in [Nodes -> Nodes \cup {Null}] /\ prev \in [Nodes -> Nodes \cup {Null}]
  /\ owner \in [Nodes -> Lists \cup {Null}] /\ on \in [Nodes -> Nat]
  /\ length \in [Lists -> Nat]
ItemOK(c, i) ==
  \/ on[i] = 0 /\ owner[i] = Null /\ \A l \in Lists : ~Holder(c, i, l)
  \/ on[i] = 1 /\ owner[i] \in Lists /\ Holder(c, i, owner[i])
Holds(c, over) ==
  /\ PointerType /\ over \in [Lists -> Nat]
  /\ \A l \in Lists : Closed(c[l], l) /\ length[l] = Len(c[l]) + over[l] /\ on[l] = 1 /\ owner[l] = l
  /\ \A i \in Items : ItemOK(c, i)

LEMMA ContentsType ==
  ASSUME NEW c \in Contents, NEW l \in Lists
  PROVE  /\ c[l] \in Seq(Items) /\ Len(c[l]) \in Nat /\ DOMAIN c[l] = 1 .. Len(c[l])
         /\ \A k \in 1 .. Len(c[l]) : c[l][k] \in Items /\ c[l][k] \notin Lists /\ c[l][k] # Null
         /\ \A k \in Int : Node(c[l], l, k) \in Nodes
  BY UnitListAssumption, LenProperties DEF Contents, Node, Nodes

(* A node has one place in the chains.                                     *)
LEMMA NodesApart ==
  ASSUME NEW c \in Contents, NEW l \in Lists, NEW m \in Lists,
         NEW j \in 1 .. Len(c[l]) + 1, NEW k \in 1 .. Len(c[m]) + 1,
         Node(c[l], l, j) = Node(c[m], m, k)
  PROVE  l = m /\ j = k
  <1>1. /\ Len(c[l]) \in Nat /\ Len(c[m]) \in Nat
        /\ \A i \in 1 .. Len(c[l]) : c[l][i] \notin Lists
        /\ \A i \in 1 .. Len(c[m]) : c[m][i] \notin Lists
    BY ContentsType
  <1>2. \A a \in 1 .. Len(c[l]), b \in 1 .. Len(c[m]) : c[l][a] = c[m][b] => l = m /\ a = b
    BY DEF Contents, Distinct
  <1> QED
    BY <1>1, <1>2 DEF Node

LEMMA NodesApart0 ==
  ASSUME NEW c \in Contents, NEW l \in Lists, NEW m \in Lists,
         NEW j \in 0 .. Len(c[l]), NEW k \in 0 .. Len(c[m]),
         Node(c[l], l, j) = Node(c[m], m, k)
  PROVE  l = m /\ j = k
  <1>1. /\ Len(c[l]) \in Nat /\ Len(c[m]) \in Nat
        /\ \A i \in 1 .. Len(c[l]) : c[l][i] \notin Lists
        /\ \A i \in 1 .. Len(c[m]) : c[m][i] \notin Lists
    BY ContentsType
  <1>2. \A a \in 1 .. Len(c[l]), b \in 1 .. Len(c[m]) : c[l][a] = c[m][b] => l = m /\ a = b
    BY DEF Contents, Distinct
  <1> QED
    BY <1>1, <1>2 DEF Node

LEMMA LengthBounded ==
  ASSUME NEW c \in Contents, NEW l \in Lists
  PROVE  Len(c[l]) <= Cardinality(Items)
  <1>1. c[l] \in [1 .. Len(c[l]) -> Items] /\ Len(c[l]) \in Nat
    BY LenProperties DEF Contents
  <1>2. \A j, k \in 1 .. Len(c[l]) : c[l][j] = c[l][k] => j = k
    BY DEF Contents, Distinct
  <1>3. c[l] \in Injection(1 .. Len(c[l]), Items)
    BY <1>1, <1>2 DEF Injection, IsInjective
  <1>4. Cardinality(1 .. Len(c[l])) <= Cardinality(Items)
    BY <1>3, FS_Injection, UnitListAssumption
  <1>5. Cardinality(1 .. Len(c[l])) = Len(c[l])
    <2> DEFINE n == Len(c[l])
    <2>1. n \in Int /\ n \in Nat /\ 1 \in Int
      BY <1>1
    <2> HIDE DEF n
    <2>2. Cardinality(1 .. n) = IF 1 > n THEN 0 ELSE n - 1 + 1
      BY <2>1, FS_Interval
    <2>3. Cardinality(1 .. n) = n
      BY <2>1, <2>2
    <2> QED
      BY <2>3 DEF n
  <1> QED
    BY <1>4, <1>5

(* What a walk along the next pointers finds.                              *)
LEMMA ChainFollowed ==
  ASSUME NEW c \in Contents, NEW l \in Lists, NEW f,
         \A k \in 0 .. Len(c[l]) : f[Node(c[l], l, k)] = Node(c[l], l, k + 1)
  PROVE  Path(f, f[l], l) = c[l]
  <1>1. /\ c[l] \in Seq(Items) /\ Len(c[l]) \in Nat
        /\ \A k \in 1 .. Len(c[l]) : c[l][k] # l
    BY ContentsType
  <1>2. f[l] = Node(c[l], l, 1)
    BY <1>1 DEF Node
  <1>3. \A k \in 1 .. Len(c[l]) : f[c[l][k]] = Node(c[l], l, k + 1)
    BY <1>1 DEF Node
  <1> HIDE DEF Node
  <1> QED
    BY <1>1, <1>2, <1>3, PathIs, LengthBounded

LEMMA ForwardIs ==
  ASSUME NEW c \in Contents, NEW over, Holds(c, over), NEW l \in Lists
  PROVE  Forward(l) = c[l]
  <1>1. \A k \in 0 .. Len(c[l]) : next[Node(c[l], l, k)] = Node(c[l], l, k + 1)
    BY DEF Holds, Closed, Edge
  <1> QED
    BY <1>1, ChainFollowed DEF Forward

LEMMA ForwardBecomes ==
  ASSUME NEW c \in Contents, NEW over, Holds(c, over)', NEW l \in Lists
  PROVE  Forward(l)' = c[l]
  <1>1. \A k \in 0 .. Len(c[l]) : next'[Node(c[l], l, k)] = Node(c[l], l, k + 1)
    BY DEF Holds, Closed, Edge
  <1> QED
    BY <1>1, ChainFollowed DEF Forward

(* The invariant is what the properties say of a state.                    *)
LEMMA HoldsLinked ==
  ASSUME NEW c \in Contents, NEW over, Holds(c, over)
  PROVE  DoublyLinked
  <1> SUFFICES ASSUME NEW u \in Nodes, on[u] = 1
               PROVE  /\ next[u] \in Nodes /\ on[next[u]] = 1 /\ prev[next[u]] = u
                      /\ prev[u] \in Nodes /\ on[prev[u]] = 1 /\ next[prev[u]] = u
    BY DEF DoublyLinked
  <1>1. ASSUME NEW l \in Lists, NEW k \in Int PROVE on[Node(c[l], l, k)] = 1
    <2>1. CASE k \in 1 .. Len(c[l])
      <3>1. c[l][k] \in Items /\ Holder(c, c[l][k], l)
        BY <2>1, ContentsType DEF Holder
      <3>2. ItemOK(c, c[l][k])
        BY <3>1 DEF Holds
      <3> QED
        BY <2>1, <3>1, <3>2 DEF ItemOK, Node
    <2>2. CASE k \notin 1 .. Len(c[l])
      BY <2>2 DEF Node, Holds
    <2> QED
      BY <2>1, <2>2
  <1>2. \E l \in Lists : \E j \in 0 .. Len(c[l]) : \E k \in 0 .. Len(c[l]) :
          u = Node(c[l], l, j) /\ u = Node(c[l], l, k + 1)
    <2>1. CASE u \in Lists
      <3>1. Len(c[u]) \in Nat
        BY <2>1, ContentsType
      <3>2. u = Node(c[u], u, 0) /\ u = Node(c[u], u, Len(c[u]) + 1)
        BY <3>1 DEF Node
      <3> QED
        BY <2>1, <3>1, <3>2
    <2>2. CASE u \in Items
      <3>1. ItemOK(c, u)
        BY <2>2 DEF Holds
      <3>2. PICK l \in Lists : Holder(c, u, l)
        BY <3>1 DEF ItemOK
      <3>3. PICK k \in 1 .. Len(c[l]) : c[l][k] = u
        BY <3>2 DEF Holder
      <3>4. Len(c[l]) \in Nat
        BY ContentsType
      <3>5. k \in 0 .. Len(c[l]) /\ k - 1 \in 0 .. Len(c[l]) /\ (k - 1) + 1 = k /\ Node(c[l], l, k) = u
        BY <3>3, <3>4 DEF Node
      <3> QED
        BY <3>5
    <2> QED
      BY <2>1, <2>2 DEF Nodes
  <1>3. PICK l \in Lists : \E j \in 0 .. Len(c[l]) : \E k \in 0 .. Len(c[l]) :
          u = Node(c[l], l, j) /\ u = Node(c[l], l, k + 1)
    BY <1>2
  <1>4. PICK j \in 0 .. Len(c[l]), k \in 0 .. Len(c[l]) :
          u = Node(c[l], l, j) /\ u = Node(c[l], l, k + 1)
    BY <1>3
  <1>5. Edge(u, Node(c[l], l, j + 1)) /\ Edge(Node(c[l], l, k), u)
    BY <1>4 DEF Holds, Closed
  <1>6. Len(c[l]) \in Nat /\ j \in Int /\ j + 1 \in Int /\ k \in Int
    BY ContentsType
  <1> QED
    BY <1>1, <1>5, <1>6, ContentsType DEF Edge

LEMMA HoldsChecked ==
  ASSUME NEW c \in Contents, Holds(c, front), lost # {} => \E l \in Lists : front[l] # 0
  PROVE  SpotChecks
  <1>1. \A l \in Lists : Forward(l) = c[l]
    BY ForwardIs
  <1>2. \A l \in Lists : length[l] = Len(Forward(l)) + front[l]
    BY <1>1 DEF Holds
  <1>3. \A l \in Lists, i \in Items : OnPath(Forward(l), i) <=> Holder(c, i, l)
    <2> SUFFICES ASSUME NEW l \in Lists, NEW i \in Items
                 PROVE  OnPath(c[l], i) <=> Holder(c, i, l)
      BY <1>1
    <2> QED
      BY ContentsType DEF OnPath, Holder
  <1>4. ASSUME NEW i \in Items, NEW l \in Lists, NEW m \in Lists, Holder(c, i, l), Holder(c, i, m)
        PROVE  l = m
    BY <1>4 DEF Holder, Contents, Distinct
  <1>5. ASSUME NEW i \in Items
        PROVE  \/ on[i] = 0 /\ owner[i] = Null /\ \A l \in Lists : ~OnPath(Forward(l), i)
               \/ on[i] = 1 /\ \A l \in Lists : OnPath(Forward(l), i) <=> owner[i] = l
    <2>1. ItemOK(c, i)
      BY DEF Holds
    <2>2. CASE on[i] = 0
      BY <1>3, <2>1, <2>2 DEF ItemOK
    <2>3. CASE on[i] # 0
      BY <1>3, <1>4, <2>1, <2>3 DEF ItemOK
    <2> QED
      BY <2>2, <2>3
  <1> QED
    BY <1>2, <1>5 DEF SpotChecks

LEMMA InitHolds == Init => \E c \in Contents : Holds(c, front)
  <1> SUFFICES ASSUME Init PROVE \E c \in Contents : Holds(c, front)
    OBVIOUS
  <1> DEFINE c == [l \in Lists |-> <<>>]
  <1>1. \A l \in Lists : c[l] = <<>> /\ Len(c[l]) = 0
    OBVIOUS
  <1>2. c \in [Lists -> Seq(Items)]
    OBVIOUS
  <1> HIDE DEF c
  <1>3. c \in Contents
    BY <1>1, <1>2 DEF Contents, Distinct
  <1>4. PointerType
    BY UnitListAssumption DEF Init, PointerType, Nodes
  <1>5. ASSUME NEW l \in Lists
        PROVE  Closed(c[l], l) /\ length[l] = Len(c[l]) + front[l] /\ on[l] = 1 /\ owner[l] = l
    <2>1. next[l] = l /\ prev[l] = l /\ length[l] = 0 /\ front[l] = 0 /\ on[l] = 1 /\ owner[l] = l
      BY DEF Init, Nodes
    <2> QED
      BY <1>1, <2>1 DEF Closed, Node, Edge
  <1>6. ASSUME NEW i \in Items PROVE ItemOK(c, i)
    <2>1. on[i] = 0 /\ owner[i] = Null
      BY UnitListAssumption DEF Init, Nodes
    <2> QED
      BY <1>1, <2>1 DEF ItemOK, Holder
  <1>7. Holds(c, front)
    <2>1. front \in [Lists -> Nat]
      BY DEF Init
    <2> QED
      BY <1>4, <1>5, <1>6, <2>1 DEF Holds
  <1> QED
    BY <1>3, <1>7

-----------------------------------------------------------------------------
(* What the assignments of a call do to the edges of the chains.           *)

LEMMA InsertEdges ==
  ASSUME PointerType, NEW u \in Nodes, NEW v \in Nodes, NEW i \in Nodes, Edge(u, v), i # u, i # v,
         LinkAfter(u, i) \/ LinkBefore(v, i)
  PROVE  /\ next' \in [Nodes -> Nodes \cup {Null}] /\ prev' \in [Nodes -> Nodes \cup {Null}]
         /\ Edge(u, i)' /\ Edge(i, v)'
         /\ \A a, b \in Nodes : Edge(a, b) /\ a # u /\ a # i /\ b # i => Edge(a, b)'
  <1>1. next[u] = v /\ prev[v] = u
    BY DEF Edge
  <1>2. /\ next' = [next EXCEPT ![i] = v, ![u] = i]
        /\ prev' = [prev EXCEPT ![i] = u, ![v] = i]
    <2>1. CASE LinkAfter(u, i)
      BY <1>1, <2>1 DEF LinkAfter
    <2>2. CASE LinkBefore(v, i)
      BY <1>1, <2>2 DEF LinkBefore
    <2> QED
      BY <2>1, <2>2
  <1>3. /\ next' \in [Nodes -> Nodes \cup {Null}] /\ prev' \in [Nodes -> Nodes \cup {Null}]
    BY <1>2 DEF PointerType
  <1>4. Edge(u, i)' /\ Edge(i, v)'
    BY <1>2 DEF PointerType, Edge
  <1>5. ASSUME NEW a \in Nodes, NEW b \in Nodes, Edge(a, b), a # u, a # i, b # i PROVE Edge(a, b)'
    <2>1. b # v
      BY <1>1, <1>5 DEF Edge
    <2> QED
      BY <1>2, <1>5, <2>1 DEF PointerType, Edge
  <1> QED
    BY <1>3, <1>4, <1>5

(* The pointers of the item that is taken off may become anything.         *)
LEMMA RemoveEdges ==
  ASSUME NEW u \in Nodes, NEW v \in Nodes, NEW i \in Nodes, Edge(u, i), Edge(i, v), i # u, i # v,
         \A n \in Nodes \ {i} : /\ next'[n] = IF n = u THEN v ELSE next[n]
                                /\ prev'[n] = IF n = v THEN u ELSE prev[n]
  PROVE  /\ Edge(u, v)'
         /\ \A a, b \in Nodes : Edge(a, b) /\ a # i /\ b # i => Edge(a, b)'
  <1>1. Edge(u, v)'
    BY DEF Edge
  <1>2. ASSUME NEW a \in Nodes, NEW b \in Nodes, Edge(a, b), a # i, b # i PROVE Edge(a, b)'
    BY <1>2 DEF Edge
  <1> QED
    BY <1>1, <1>2

LEMMA TransferEdges ==
  ASSUME PointerType, NEW pos \in Nodes, NEW begin \in Nodes, NEW end \in Nodes,
         pos # begin, pos # end, begin # end,
         NEW p \in Nodes, NEW b \in Nodes, NEW e \in Nodes,
         Edge(p, pos), Edge(b, begin), Edge(e, end),
         next' = NextMoved(pos, begin, end), prev' = PrevMoved(pos, begin, end)
  PROVE  /\ next' \in [Nodes -> Nodes \cup {Null}] /\ prev' \in [Nodes -> Nodes \cup {Null}]
         /\ Edge(e, pos)' /\ Edge(b, end)' /\ Edge(p, begin)'
         /\ \A x, y \in Nodes : Edge(x, y) /\ x \notin {p, b, e} => Edge(x, y)'
  <1>1. /\ next[p] = pos /\ prev[pos] = p /\ next[b] = begin /\ prev[begin] = b
        /\ next[e] = end /\ prev[end] = e
    BY DEF Edge
  <1>2. p # b /\ p # e /\ b # e
    BY <1>1
  <1>3. /\ next' = [next EXCEPT ![e] = pos, ![b] = end, ![p] = begin]
        /\ prev' = [prev EXCEPT ![pos] = e, ![end] = b, ![begin] = p]
    BY <1>1 DEF NextMoved, PrevMoved
  <1>4. /\ next' \in [Nodes -> Nodes \cup {Null}] /\ prev' \in [Nodes -> Nodes \cup {Null}]
    BY <1>3 DEF PointerType
  <1>5. Edge(e, pos)' /\ Edge(b, end)' /\ Edge(p, begin)'
    BY <1>2, <1>3 DEF PointerType, Edge
  <1>6. ASSUME NEW x \in Nodes, NEW y \in Nodes, Edge(x, y), x \notin {p, b, e} PROVE Edge(x, y)'
    <2>1. y \notin {pos, begin, end}
      BY <1>1, <1>6 DEF Edge
    <2> QED
      BY <1>3, <1>6, <2>1 DEF PointerType, Edge
  <1> QED
    BY <1>4, <1>5, <1>6

-----------------------------------------------------------------------------
(* An item is put on a list behind the p-th node.                          *)

Inserted(s, t, p, i) ==
  /\ t \in Seq(Items) /\ Len(t) = Len(s) + 1
  /\ \A k \in 1 .. Len(s) + 1 : t[k] = IF k <= p THEN s[k] ELSE IF k = p + 1 THEN i ELSE s[k - 1]

LEMMA InsertContents ==
  ASSUME NEW c \in Contents, NEW l \in Lists, NEW i \in Items, \A m \in Lists : ~Holder(c, i, m),
         NEW p \in 0 .. Len(c[l]), NEW t, Inserted(c[l], t, p, i)
  PROVE  /\ [c EXCEPT ![l] = t] \in Contents
         /\ \A m \in Lists, j \in Items :
              Holder([c EXCEPT ![l] = t], j, m) <=> Holder(c, j, m) \/ (m = l /\ j = i)
  <1> DEFINE d == [c EXCEPT ![l] = t]
  <1>1. d[l] = t /\ (\A m \in Lists \ {l} : d[m] = c[m]) /\ d \in [Lists -> Seq(Items)]
    BY DEF Contents, Inserted
  <1>2. /\ \A m \in Lists : Len(c[m]) \in Nat
        /\ \A m \in Lists : \A k \in 1 .. Len(c[m]) : c[m][k] \in Items /\ c[m][k] # i
    BY ContentsType DEF Holder
  <1>3. \A m, n \in Lists : \A j \in 1 .. Len(c[m]), k \in 1 .. Len(c[n]) :
          c[m][j] = c[n][k] => m = n /\ j = k
    BY DEF Contents, Distinct
  <1> HIDE DEF d
  <1>4. /\ Len(d[l]) = Len(c[l]) + 1
        /\ \A k \in 1 .. Len(c[l]) + 1 :
             d[l][k] = IF k <= p THEN c[l][k] ELSE IF k = p + 1 THEN i ELSE c[l][k - 1]
    BY <1>1 DEF Inserted
  <1>5. Distinct(d)
    <2> SUFFICES ASSUME NEW m \in Lists, NEW n \in Lists,
                        NEW j \in 1 .. Len(d[m]), NEW k \in 1 .. Len(d[n]), d[m][j] = d[n][k]
                 PROVE  m = n /\ j = k
      BY DEF Distinct
    <2>1. CASE m = l /\ n = l
      <3>1. Len(c[l]) \in Nat /\ j \in 1 .. Len(c[l]) + 1 /\ k \in 1 .. Len(c[l]) + 1
        BY <1>2, <1>4, <2>1
      <3>2. d[l][j] = d[l][k]
        BY <2>1
      <3>3. CASE j = p + 1 \/ k = p + 1
        <4>1. \A a \in 1 .. Len(c[l]) + 1 : a # p + 1 => d[l][a] # i
          BY <1>2, <1>4, SMTT(60)
        <4>2. d[l][p + 1] = i
          BY <1>4, <3>1, SMTT(60)
        <4> QED
          BY <2>1, <3>1, <3>2, <3>3, <4>1, <4>2
      <3>4. CASE j # p + 1 /\ k # p + 1
        <4> DEFINE a == IF j <= p THEN j ELSE j - 1
                   b == IF k <= p THEN k ELSE k - 1
        <4>1. a \in 1 .. Len(c[l]) /\ b \in 1 .. Len(c[l]) /\ d[l][j] = c[l][a] /\ d[l][k] = c[l][b]
          BY <1>4, <3>1, <3>4
        <4>2. a = b
          <5> HIDE DEF a, b
          <5>1. c[l][a] = c[l][b]
            BY <3>2, <4>1
          <5>2. \A x, y \in 1 .. Len(c[l]) : c[l][x] = c[l][y] => x = y
            BY <1>3
          <5> QED
            BY <4>1, <5>1, <5>2
        <4> QED
          BY <2>1, <3>1, <3>4, <4>2
      <3> QED
        BY <3>3, <3>4
    <2>2. CASE m # l /\ n = l
      BY <1>1, <1>2, <1>3, <1>4, <2>2
    <2>3. CASE m = l /\ n # l
      BY <1>1, <1>2, <1>3, <1>4, <2>3
    <2>4. CASE m # l /\ n # l
      <3>1. d[m] = c[m] /\ d[n] = c[n]
        BY <1>1, <2>4
      <3>2. j \in 1 .. Len(c[m]) /\ k \in 1 .. Len(c[n]) /\ c[m][j] = c[n][k]
        BY <3>1
      <3> QED
        BY <1>3, <3>2
    <2> QED
      BY <2>1, <2>2, <2>3, <2>4
  <1>6. d \in Contents
    BY <1>1, <1>5 DEF Contents
  <1>7. ASSUME NEW m \in Lists, NEW j \in Items
        PROVE  Holder(d, j, m) <=> Holder(c, j, m) \/ (m = l /\ j = i)
    <2>1. CASE m # l
      BY <1>1, <2>1 DEF Holder
    <2>2. CASE m = l
      <3>1. ASSUME NEW k \in 1 .. Len(d[l]), d[l][k] = j PROVE Holder(c, j, l) \/ j = i
        <4>1. k <= p => k \in 1 .. Len(c[l])
          BY <1>2
        <4>2. k > p + 1 => k - 1 \in 1 .. Len(c[l])
          BY <1>2, <1>4
        <4> QED
          BY <1>2, <1>4, <3>1, <4>1, <4>2, SMTT(60) DEF Holder
      <3>2. ASSUME NEW k \in 1 .. Len(c[l]), c[l][k] = j PROVE Holder(d, j, l)
        <4>1. CASE k <= p
          <5>1. k \in 1 .. Len(d[l]) /\ d[l][k] = j
            BY <1>2, <1>4, <3>2, <4>1
          <5> QED
            BY <5>1 DEF Holder
        <4>2. CASE k > p
          <5>1. k + 1 \in 1 .. Len(d[l]) /\ d[l][k + 1] = j
            BY <1>2, <1>4, <3>2, <4>2
          <5> QED
            BY <5>1 DEF Holder
        <4> QED
          BY <4>1, <4>2
      <3>3. Holder(d, i, l)
        <4>1. p + 1 \in 1 .. Len(d[l]) /\ d[l][p + 1] = i
          BY <1>2, <1>4
        <4> QED
          BY <4>1 DEF Holder
      <3> QED
        BY <2>2, <3>1, <3>2, <3>3 DEF Holder
    <2> QED
      BY <2>1, <2>2
  <1> QED
    BY <1>6, <1>7 DEF d

LEMMA InsertHolds ==
  ASSUME NEW c \in Contents, NEW over, Holds(c, over), NEW l \in Lists, NEW i \in Items, Free(i),
         NEW p \in 0 .. Len(c[l]), NEW t, Inserted(c[l], t, p, i),
         LinkAfter(Node(c[l], l, p), i) \/ LinkBefore(Node(c[l], l, p + 1), i),
         NEW more \in Nat, length' = [length EXCEPT ![l] = @ + (1 + more)], Attach(l, i)
  PROVE  /\ [c EXCEPT ![l] = t] \in Contents
         /\ Holds([c EXCEPT ![l] = t], [over EXCEPT ![l] = @ + more])'
  <1> DEFINE d == [c EXCEPT ![l] = t]
             u == Node(c[l], l, p)
             v == Node(c[l], l, p + 1)
  <1>1. \A m \in Lists : ~Holder(c, i, m)
    <2>1. ItemOK(c, i) /\ on[i] = 0
      BY DEF Holds, Free
    <2> QED
      BY <2>1 DEF ItemOK
  <1>2. /\ d \in Contents
        /\ \A m \in Lists, j \in Items : Holder(d, j, m) <=> Holder(c, j, m) \/ (m = l /\ j = i)
    BY <1>1, InsertContents
  <1>3. d[l] = t /\ (\A m \in Lists \ {l} : d[m] = c[m])
    BY DEF Contents, Inserted
  <1> HIDE DEF d
  <1>4. \A m \in Lists : Len(c[m]) \in Nat
    BY ContentsType
  <1>5. \A m \in Lists : \A k \in Int : Node(c[m], m, k) \in Nodes /\ Node(c[m], m, k) # i
    <2> SUFFICES ASSUME NEW m \in Lists, NEW k \in Int PROVE Node(c[m], m, k) \in Nodes /\ Node(c[m], m, k) # i
      OBVIOUS
    <2> QED
      BY <1>1, ContentsType, UnitListAssumption DEF Node, Holder
  <1>6. Edge(u, v) /\ u \in Nodes /\ v \in Nodes /\ i \in Nodes /\ u # i /\ v # i
    BY <1>5 DEF Holds, Closed, Nodes
  <1>7. /\ next' \in [Nodes -> Nodes \cup {Null}] /\ prev' \in [Nodes -> Nodes \cup {Null}]
        /\ Edge(u, i)' /\ Edge(i, v)'
        /\ \A a, b \in Nodes : Edge(a, b) /\ a # u /\ a # i /\ b # i => Edge(a, b)'
    <2> HIDE DEF u, v
    <2>1. LinkAfter(u, i) \/ LinkBefore(v, i)
      BY DEF u, v
    <2> QED
      BY <1>6, <2>1, InsertEdges DEF Holds
  <1>8. ASSUME NEW m \in Lists, NEW k \in 0 .. Len(c[m]), m # l \/ k # p
        PROVE  Edge(Node(c[m], m, k), Node(c[m], m, k + 1))'
    <2>1. Edge(Node(c[m], m, k), Node(c[m], m, k + 1))
      BY DEF Holds, Closed
    <2>2. Node(c[m], m, k) # u
      BY <1>8, NodesApart0
    <2>3. Node(c[m], m, k) \in Nodes \ {i} /\ Node(c[m], m, k + 1) \in Nodes \ {i}
      BY <1>5
    <2> HIDE DEF u, v
    <2> QED
      BY <1>7, <2>1, <2>2, <2>3
  <1>9. ASSUME NEW m \in Lists PROVE Closed(d[m], m)'
    <2>1. CASE m # l
      BY <1>3, <1>8, <2>1 DEF Closed
    <2>2. CASE m = l
      <3>1. /\ Len(t) = Len(c[l]) + 1
            /\ \A k \in 1 .. Len(c[l]) + 1 :
                 t[k] = IF k <= p THEN c[l][k] ELSE IF k = p + 1 THEN i ELSE c[l][k - 1]
        BY DEF Inserted
      <3>2. \A k \in 0 .. Len(t) + 1 :
              Node(t, l, k) = IF k <= p THEN Node(c[l], l, k) ELSE IF k = p + 1 THEN i
                              ELSE Node(c[l], l, k - 1)
        BY <1>4, <3>1 DEF Node
      <3>3. ASSUME NEW k \in 0 .. Len(t) PROVE Edge(Node(t, l, k), Node(t, l, k + 1))'
        <4>1. CASE k < p
          <5>0. k \in 0 .. Len(t) + 1 /\ k + 1 \in 0 .. Len(t) + 1 /\ k <= p /\ k + 1 <= p
            BY <1>4, <3>1, <4>1
          <5>1. Node(t, l, k) = Node(c[l], l, k) /\ Node(t, l, k + 1) = Node(c[l], l, k + 1)
            BY <3>2, <5>0
          <5>2. k \in 0 .. Len(c[l]) /\ k # p
            BY <1>4, <4>1
          <5> QED
            BY <1>8, <5>1, <5>2
        <4>2. CASE k = p
          <5>0. k \in 0 .. Len(t) + 1 /\ k + 1 \in 0 .. Len(t) + 1 /\ k <= p /\ ~(k + 1 <= p) /\ k + 1 = p + 1
            BY <1>4, <3>1, <4>2
          <5>1. Node(t, l, k) = u /\ Node(t, l, k + 1) = i
            BY <3>2, <4>2, <5>0
          <5> QED
            BY <1>7, <5>1
        <4>3. CASE k = p + 1
          <5>1. k \in 0 .. Len(t) + 1 /\ k + 1 \in 0 .. Len(t) + 1 /\ ~(k <= p) /\ ~(k + 1 <= p)
                /\ k + 1 # p + 1 /\ (k + 1) - 1 = p + 1
            BY <1>4, <3>1, <4>3
          <5>2. Node(t, l, k) = i /\ Node(t, l, k + 1) = Node(c[l], l, (k + 1) - 1)
            BY <3>2, <4>3, <5>1
          <5>3. Node(t, l, k) = i /\ Node(t, l, k + 1) = v
            BY <5>1, <5>2
          <5> QED
            BY <1>7, <5>3
        <4>4. CASE k > p + 1
          <5>1. Node(t, l, k) = Node(c[l], l, k - 1) /\ Node(t, l, k + 1) = Node(c[l], l, (k - 1) + 1)
            BY <1>4, <3>1, <3>2, <4>4
          <5>2. k - 1 \in 0 .. Len(c[l]) /\ k - 1 # p
            BY <1>4, <3>1, <4>4
          <5> QED
            BY <1>8, <5>1, <5>2
        <4> QED
          BY <4>1, <4>2, <4>3, <4>4
      <3> QED
        BY <1>3, <2>2, <3>3 DEF Closed
    <2> QED
      BY <2>1, <2>2
  <1>10. /\ on' \in [Nodes -> Nat] /\ owner' \in [Nodes -> Lists \cup {Null}] /\ length' \in [Lists -> Nat]
         /\ on'[i] = 1 /\ owner'[i] = l
         /\ \A n \in Nodes \ {i} : on'[n] = on[n] /\ owner'[n] = owner[n]
         /\ \A m \in Lists : length'[m] = IF m = l THEN length[l] + (1 + more) ELSE length[m]
    BY <1>6 DEF Holds, PointerType, Attach, Free
  <1> DEFINE all == [over EXCEPT ![l] = @ + more]
  <1>10a. all \in [Lists -> Nat] /\ \A m \in Lists : over[m] \in Nat /\ all[m] = IF m = l THEN over[m] + more ELSE over[m]
    BY DEF Holds
  <1> HIDE DEF all
  <1>11. ASSUME NEW m \in Lists PROVE length'[m] = Len(d[m]) + all[m] /\ on'[m] = 1 /\ owner'[m] = m
    <2>1. length[m] = Len(c[m]) + over[m] /\ on[m] = 1 /\ owner[m] = m /\ m # i /\ m \in Nodes
      BY UnitListAssumption DEF Holds, Nodes
    <2> QED
      <3>1. on'[m] = 1 /\ owner'[m] = m
        BY <1>10, <2>1
      <3>2. CASE m = l
        <4>1. Len(d[m]) = Len(c[m]) + 1 /\ Len(c[m]) \in Nat
          BY <1>3, <1>4, <3>2 DEF Inserted
        <4>2. length'[m] = length[m] + (1 + more) /\ all[m] = over[m] + more /\ over[m] \in Nat
          BY <1>10, <1>10a, <3>2
        <4>3. \A a, b, e : a \in Nat /\ b \in Nat /\ e = a + b => e + (1 + more) = (a + 1) + (b + more)
          OBVIOUS
        <4>4. length[m] + (1 + more) = (Len(c[m]) + 1) + (over[m] + more)
          BY <2>1, <4>1, <4>2, <4>3
        <4> QED
          BY <3>1, <4>1, <4>2, <4>4, Zenon
      <3>3. CASE m # l
        BY <1>3, <1>10, <1>10a, <2>1, <3>1, <3>3
      <3> QED
        BY <3>2, <3>3
  <1>12. ASSUME NEW j \in Items PROVE ItemOK(d, j)'
    <2>1. CASE j = i
      BY <1>2, <1>10, <2>1 DEF ItemOK
    <2>2. CASE j # i
      <3>1. on'[j] = on[j] /\ owner'[j] = owner[j] /\ \A m \in Lists : Holder(d, j, m) <=> Holder(c, j, m)
        BY <1>2, <1>10, <2>2 DEF Nodes
      <3>2. ItemOK(c, j)
        BY DEF Holds
      <3> QED
        BY <3>1, <3>2 DEF ItemOK
    <2> QED
      BY <2>1, <2>2
  <1>13. Holds(d, all)'
    BY <1>7, <1>9, <1>10, <1>10a, <1>11, <1>12 DEF Holds, PointerType
  <1> QED
    BY <1>2, <1>13 DEF d, all

LEMMA OneMoreHolds ==
  ASSUME NEW c \in Contents, NEW over, Holds(c, over), NEW l \in Lists, NEW i \in Items, Free(i),
         NEW p \in 0 .. Len(c[l]), NEW t, Inserted(c[l], t, p, i),
         LinkAfter(Node(c[l], l, p), i) \/ LinkBefore(Node(c[l], l, p + 1), i),
         Grow(l), Attach(l, i)
  PROVE  [c EXCEPT ![l] = t] \in Contents /\ Holds([c EXCEPT ![l] = t], over)'
  <1>1. length' = [length EXCEPT ![l] = @ + (1 + 0)]
    BY DEF Grow
  <1>2. [over EXCEPT ![l] = @ + 0] = over
    BY DEF Holds
  <1>3. PICK z \in Nat : z = 0
    OBVIOUS
  <1>4. /\ [c EXCEPT ![l] = t] \in Contents
        /\ Holds([c EXCEPT ![l] = t], [over EXCEPT ![l] = @ + z])'
    BY <1>1, <1>3, InsertHolds
  <1> QED
    BY <1>2, <1>3, <1>4

-----------------------------------------------------------------------------
(* The p-th item of a list is taken off.                                   *)

TakenOff(s, t, p) ==
  /\ t \in Seq(Items) /\ Len(t) = Len(s) - 1
  /\ \A k \in 1 .. Len(s) - 1 : t[k] = IF k < p THEN s[k] ELSE s[k + 1]

LEMMA RemoveContents ==
  ASSUME NEW c \in Contents, NEW l \in Lists, NEW p \in 1 .. Len(c[l]), NEW t, TakenOff(c[l], t, p)
  PROVE  /\ [c EXCEPT ![l] = t] \in Contents
         /\ \A m \in Lists, j \in Items :
              Holder([c EXCEPT ![l] = t], j, m) <=> Holder(c, j, m) /\ j # c[l][p]
  <1> DEFINE d == [c EXCEPT ![l] = t]
             from(k) == IF k < p THEN k ELSE k + 1
  <1>1. d[l] = t /\ (\A m \in Lists \ {l} : d[m] = c[m]) /\ d \in [Lists -> Seq(Items)]
    BY DEF Contents, TakenOff
  <1>2. Len(c[l]) \in Nat
    BY ContentsType
  <1>3. \A m, n \in Lists : \A j \in 1 .. Len(c[m]), k \in 1 .. Len(c[n]) :
          c[m][j] = c[n][k] => m = n /\ j = k
    BY DEF Contents, Distinct
  <1>4. \A k \in 1 .. Len(t) : from(k) \in 1 .. Len(c[l]) /\ from(k) # p /\ t[k] = c[l][from(k)]
    BY <1>2 DEF TakenOff
  <1>5. \A j, k \in 1 .. Len(t) : from(j) = from(k) => j = k
    BY <1>2 DEF TakenOff
  <1> HIDE DEF d, from
  <1>6. Distinct(d)
    <2> SUFFICES ASSUME NEW m \in Lists, NEW n \in Lists,
                        NEW j \in 1 .. Len(d[m]), NEW k \in 1 .. Len(d[n]), d[m][j] = d[n][k]
                 PROVE  m = n /\ j = k
      BY DEF Distinct
    <2> DEFINE a == IF m = l THEN from(j) ELSE j
               b == IF n = l THEN from(k) ELSE k
    <2>1. a \in 1 .. Len(c[m]) /\ d[m][j] = c[m][a]
      BY <1>1, <1>4
    <2>2. b \in 1 .. Len(c[n]) /\ d[n][k] = c[n][b]
      BY <1>1, <1>4
    <2>3. m = n /\ a = b
      <3> HIDE DEF a, b
      <3>1. c[m][a] = c[n][b]
        BY <2>1, <2>2
      <3> QED
        BY <1>3, <2>1, <2>2, <3>1
    <2> QED
      BY <1>1, <1>5, <2>3
  <1>7. d \in Contents
    BY <1>1, <1>6 DEF Contents
  <1>8. ASSUME NEW m \in Lists, NEW j \in Items
        PROVE  Holder(d, j, m) <=> Holder(c, j, m) /\ j # c[l][p]
    <2>1. CASE m # l
      <3>1. d[m] = c[m]
        BY <1>1, <2>1
      <3>2. \A k \in 1 .. Len(c[m]) : c[m][k] # c[l][p]
        BY <1>3, <2>1
      <3> QED
        BY <3>1, <3>2 DEF Holder
    <2>2. CASE m = l
      <3>1. ASSUME NEW k \in 1 .. Len(t), t[k] = j PROVE Holder(c, j, l) /\ j # c[l][p]
        <4>1. from(k) \in 1 .. Len(c[l]) /\ from(k) # p /\ j = c[l][from(k)]
          BY <1>4, <3>1
        <4> QED
          BY <1>3, <4>1 DEF Holder
      <3>2. ASSUME NEW k \in 1 .. Len(c[l]), c[l][k] = j, k # p PROVE \E a \in 1 .. Len(t) : t[a] = j
        <4>1. CASE k < p
          <5>1. k \in 1 .. Len(t) /\ t[k] = c[l][k]
            BY <1>2, <4>1 DEF TakenOff
          <5> QED
            BY <3>2, <5>1
        <4>2. CASE k > p
          <5>1. k - 1 \in 1 .. Len(t) /\ t[k - 1] = c[l][k]
            BY <1>2, <4>2 DEF TakenOff
          <5> QED
            BY <3>2, <5>1
        <4> QED
          BY <1>2, <3>2, <4>1, <4>2
      <3> QED
        BY <1>1, <2>2, <3>1, <3>2 DEF Holder
    <2> QED
      BY <2>1, <2>2
  <1> QED
    BY <1>7, <1>8 DEF d

(* The pointers of the item that is taken off are either left or cleared.  *)
Unhooked(u, i, v) ==
  /\ next' \in [Nodes -> Nodes \cup {Null}] /\ prev' \in [Nodes -> Nodes \cup {Null}]
  /\ \A n \in Nodes \ {i} : /\ next'[n] = IF n = u THEN v ELSE next[n]
                            /\ prev'[n] = IF n = v THEN u ELSE prev[n]

LEMMA RemoveHolds ==
  ASSUME NEW c \in Contents, NEW over, Holds(c, over), NEW l \in Lists, NEW p \in 1 .. Len(c[l]),
         NEW t, TakenOff(c[l], t, p),
         Unhooked(Node(c[l], l, p - 1), c[l][p], Node(c[l], l, p + 1)),
         Shrink(l), Detach(c[l][p])
  PROVE  [c EXCEPT ![l] = t] \in Contents /\ Holds([c EXCEPT ![l] = t], over)'
  <1> DEFINE d == [c EXCEPT ![l] = t]
             i == c[l][p]
             u == Node(c[l], l, p - 1)
             v == Node(c[l], l, p + 1)
  <1>1. /\ d \in Contents
        /\ \A m \in Lists, j \in Items : Holder(d, j, m) <=> Holder(c, j, m) /\ j # i
    BY RemoveContents
  <1>2. d[l] = t /\ (\A m \in Lists \ {l} : d[m] = c[m])
    BY DEF Contents, TakenOff
  <1> HIDE DEF d
  <1>3. /\ \A m \in Lists : Len(c[m]) \in Nat
        /\ \A m \in Lists : \A k \in Int : Node(c[m], m, k) \in Nodes
    BY ContentsType
  <1>4. /\ p - 1 \in 0 .. Len(c[l]) /\ p \in 0 .. Len(c[l]) /\ p \in 1 .. Len(c[l]) + 1
        /\ p + 1 \in 1 .. Len(c[l]) + 1 /\ (p - 1) + 1 = p
    BY <1>3
  <1>5. i = Node(c[l], l, p)
    BY DEF Node
  <1>6. i \in Items /\ i \in Nodes /\ u \in Nodes /\ v \in Nodes
    BY <1>3, <1>4, ContentsType DEF Nodes
  <1>7. Edge(u, i) /\ Edge(i, v)
    BY <1>4, <1>5 DEF Holds, Closed
  <1>8. i # u /\ i # v
    <2>1. i # u
      BY <1>4, <1>5, NodesApart0
    <2>2. i # v
      BY <1>4, <1>5, NodesApart
    <2> QED
      BY <2>1, <2>2
  <1>9. /\ Edge(u, v)'
        /\ \A a, b \in Nodes : Edge(a, b) /\ a # i /\ b # i => Edge(a, b)'
    <2>1. \A n \in Nodes \ {i} : /\ next'[n] = IF n = u THEN v ELSE next[n]
                                 /\ prev'[n] = IF n = v THEN u ELSE prev[n]
      BY DEF Unhooked
    <2> HIDE DEF u, v, i
    <2> QED
      BY <1>6, <1>7, <1>8, <2>1, RemoveEdges
  <1>10. ASSUME NEW m \in Lists, NEW k \in 0 .. Len(c[m]), m # l \/ (k # p /\ k + 1 # p)
         PROVE  Edge(Node(c[m], m, k), Node(c[m], m, k + 1))'
    <2>1. Edge(Node(c[m], m, k), Node(c[m], m, k + 1))
      BY DEF Holds, Closed
    <2>2. Node(c[m], m, k) # i
      BY <1>4, <1>5, <1>10, NodesApart0
    <2>3. Node(c[m], m, k + 1) # i
      <3>1. k + 1 \in 1 .. Len(c[m]) + 1
        BY <1>3
      <3> QED
        BY <1>4, <1>5, <1>10, <3>1, NodesApart
    <2>4. Node(c[m], m, k) \in Nodes /\ Node(c[m], m, k + 1) \in Nodes
      BY <1>3
    <2> HIDE DEF u, v, i
    <2> QED
      BY <1>9, <2>1, <2>2, <2>3, <2>4
  <1>11. ASSUME NEW m \in Lists PROVE Closed(d[m], m)'
    <2>1. CASE m # l
      BY <1>2, <1>10, <2>1 DEF Closed
    <2>2. CASE m = l
      <3>1. Len(t) = Len(c[l]) - 1 /\ \A k \in 1 .. Len(c[l]) - 1 : t[k] = IF k < p THEN c[l][k] ELSE c[l][k + 1]
        BY DEF TakenOff
      <3>2. \A k \in 0 .. Len(t) + 1 :
              Node(t, l, k) = IF k < p THEN Node(c[l], l, k) ELSE Node(c[l], l, k + 1)
        BY <1>3, <3>1 DEF Node
      <3>3. ASSUME NEW k \in 0 .. Len(t) PROVE Edge(Node(t, l, k), Node(t, l, k + 1))'
        <4>1. CASE k + 1 < p
          <5>1. k < p /\ k \in 0 .. Len(t) + 1 /\ k + 1 \in 0 .. Len(t) + 1
            BY <1>3, <3>1, <4>1
          <5>2. Node(t, l, k) = Node(c[l], l, k) /\ Node(t, l, k + 1) = Node(c[l], l, k + 1)
            BY <3>2, <4>1, <5>1
          <5>3. k \in 0 .. Len(c[l]) /\ k # p /\ k + 1 # p
            BY <1>3, <3>1, <4>1
          <5> QED
            BY <1>10, <5>2, <5>3
        <4>2. CASE k + 1 = p
          <5>1. k = p - 1 /\ k < p /\ ~(k + 1 < p) /\ (k + 1) + 1 = p + 1
                /\ k \in 0 .. Len(t) + 1 /\ k + 1 \in 0 .. Len(t) + 1
            BY <1>3, <3>1, <4>2
          <5>2. Node(t, l, k) = Node(c[l], l, k) /\ Node(t, l, k + 1) = Node(c[l], l, (k + 1) + 1)
            BY <3>2, <5>1
          <5>3. Node(t, l, k) = u /\ Node(t, l, k + 1) = v
            BY <5>1, <5>2
          <5> QED
            BY <1>9, <5>3
        <4>3. CASE k + 1 > p
          <5>1. ~(k < p) /\ ~(k + 1 < p) /\ k \in 0 .. Len(t) + 1 /\ k + 1 \in 0 .. Len(t) + 1
            BY <1>3, <3>1, <4>3
          <5>2. Node(t, l, k) = Node(c[l], l, k + 1) /\ Node(t, l, k + 1) = Node(c[l], l, (k + 1) + 1)
            BY <3>2, <5>1
          <5>3. k + 1 \in 0 .. Len(c[l]) /\ k + 1 # p /\ (k + 1) + 1 # p
            BY <1>3, <3>1, <4>3
          <5> QED
            BY <1>10, <5>2, <5>3
        <4> QED
          BY <1>3, <4>1, <4>2, <4>3
      <3> QED
        BY <1>2, <2>2, <3>3 DEF Closed
    <2> QED
      BY <2>1, <2>2
  <1>12. on[i] = 1
    <2>1. Holder(c, i, l) /\ ItemOK(c, i)
      BY <1>6 DEF Holder, Holds
    <2> QED
      BY <2>1 DEF ItemOK
  <1>13. /\ on' \in [Nodes -> Nat] /\ owner' \in [Nodes -> Lists \cup {Null}]
         /\ on'[i] = 0 /\ owner'[i] = Null
         /\ \A n \in Nodes \ {i} : on'[n] = on[n] /\ owner'[n] = owner[n]
    <2> HIDE DEF i
    <2>1. on' = [on EXCEPT ![i] = @ - 1] /\ owner' = [owner EXCEPT ![i] = Null]
      BY DEF Detach, i
    <2> QED
      BY <1>6, <1>12, <2>1 DEF Holds, PointerType
  <1>14. /\ length' \in [Lists -> Nat]
         /\ \A m \in Lists : length'[m] = IF m = l THEN length[l] - 1 ELSE length[m]
    <2>1. length[l] = Len(c[l]) + over[l] /\ over[l] \in Nat /\ length[l] - 1 \in Nat
      BY <1>3 DEF Holds
    <2> QED
      BY <2>1 DEF Holds, PointerType, Shrink
  <1>15. ASSUME NEW m \in Lists PROVE length'[m] = Len(d[m]) + over[m] /\ on'[m] = 1 /\ owner'[m] = m
    <2>1. length[m] = Len(c[m]) + over[m] /\ over[m] \in Nat /\ on[m] = 1 /\ owner[m] = m /\ m # i /\ m \in Nodes
      BY <1>6, UnitListAssumption DEF Holds, Nodes
    <2> HIDE DEF i
    <2>2. on'[m] = 1 /\ owner'[m] = m
      BY <1>13, <2>1
    <2>3. CASE m = l
      <3>1. Len(d[m]) = Len(c[m]) - 1 /\ Len(c[m]) \in Nat
        BY <1>2, <1>3, <2>3 DEF TakenOff
      <3>2. length'[m] = length[m] - 1
        BY <1>14, <2>3
      <3> QED
        BY <2>1, <2>2, <3>1, <3>2
    <2>4. CASE m # l
      BY <1>2, <1>14, <2>1, <2>2, <2>4
    <2> QED
      BY <2>3, <2>4
  <1>16. ASSUME NEW j \in Items PROVE ItemOK(d, j)'
    <2>1. CASE j = i
      BY <1>1, <1>13, <2>1 DEF ItemOK
    <2>2. CASE j # i
      <3>1. on'[j] = on[j] /\ owner'[j] = owner[j] /\ \A m \in Lists : Holder(d, j, m) <=> Holder(c, j, m)
        BY <1>1, <1>13, <2>2 DEF Nodes
      <3>2. ItemOK(c, j)
        BY DEF Holds
      <3> QED
        BY <3>1, <3>2 DEF ItemOK
    <2> QED
      BY <2>1, <2>2
  <1>17. Holds(d, over)'
    BY <1>11, <1>13, <1>14, <1>15, <1>16 DEF Holds, PointerType, Unhooked
  <1> QED
    BY <1>1, <1>17 DEF d

-----------------------------------------------------------------------------
(* unit_list_transfer: the items of x from the a-th to the one in front of *)
(* the b-th node go in front of the p-th node of l.                        *)

Moving(c, x, a, b, i) == \E k \in a .. b - 1 : c[x][k] = i
Between(c, l, p, x, a, b) ==
  /\ p \in 1 .. Len(c[l]) + 1 /\ a \in 1 .. Len(c[x]) /\ b \in 1 .. Len(c[x]) + 1 /\ a < b
  /\ ~(l = x /\ a <= p /\ p <= b)

LEMMA TransferStep ==
  ASSUME NEW c \in Contents, NEW over, Holds(c, over), NEW l \in Lists, NEW x \in Lists, NEW p, NEW a, NEW b,
         Between(c, l, p, x, a, b), Transfer(Node(c[l], l, p), c[x][a], Node(c[x], x, b))
  PROVE  /\ length' \in [Lists -> Nat] => PointerType'
         /\ Edge(Node(c[l], l, p - 1), Node(c[x], x, a))'
         /\ Edge(Node(c[x], x, b - 1), Node(c[l], l, p))'
         /\ Edge(Node(c[x], x, a - 1), Node(c[x], x, b))'
         /\ \A m \in Lists : \A k \in 0 .. Len(c[m]) :
              ~(m = l /\ k = p - 1) /\ ~(m = x /\ k = a - 1) /\ ~(m = x /\ k = b - 1)
                => Edge(Node(c[m], m, k), Node(c[m], m, k + 1))'
         /\ on' = on
         /\ \A n \in Nodes : owner'[n] = IF Moving(c, x, a, b, n) THEN l ELSE owner[n]
  <1> DEFINE pos == Node(c[l], l, p)
             begin == Node(c[x], x, a)
             end == Node(c[x], x, b)
             u == Node(c[l], l, p - 1)
             v == Node(c[x], x, a - 1)
             w == Node(c[x], x, b - 1)
  <1>1. /\ \A m \in Lists : Len(c[m]) \in Nat
        /\ \A m \in Lists : \A k \in Int : Node(c[m], m, k) \in Nodes
    BY ContentsType
  <1>2. /\ p - 1 \in 0 .. Len(c[l]) /\ a - 1 \in 0 .. Len(c[x]) /\ b - 1 \in 0 .. Len(c[x])
        /\ (p - 1) + 1 = p /\ (a - 1) + 1 = a /\ (b - 1) + 1 = b
        /\ p \in 1 .. Len(c[l]) + 1 /\ a \in 1 .. Len(c[x]) + 1 /\ b \in 1 .. Len(c[x]) + 1
        /\ p \in Int /\ a \in Int /\ b \in Int /\ a < b
        /\ ~(l = x /\ p = a) /\ ~(l = x /\ p = b)
    BY <1>1 DEF Between
  <1>3. begin = c[x][a] /\ a \in 1 .. Len(c[x])
    BY DEF Between, Node
  <1>4. /\ pos \in Nodes /\ begin \in Nodes /\ end \in Nodes
        /\ u \in Nodes /\ v \in Nodes /\ w \in Nodes
    BY <1>1, <1>2
  <1>5. pos # begin /\ pos # end /\ begin # end
    <2>1. pos # begin
      BY <1>2, NodesApart
    <2>2. pos # end
      BY <1>2, NodesApart
    <2>3. begin # end
      BY <1>2, NodesApart
    <2> QED
      BY <2>1, <2>2, <2>3
  <1>6. Edge(u, pos) /\ Edge(v, begin) /\ Edge(w, end)
    BY <1>2 DEF Holds, Closed
  <1>7. /\ next' = NextMoved(pos, begin, end) /\ prev' = PrevMoved(pos, begin, end) /\ on' = on
        /\ owner' = [n \in Nodes |-> IF OnPath(Path(next', begin, pos), n) THEN owner[pos] ELSE owner[n]]
    BY <1>3 DEF Transfer
  <1> HIDE DEF pos, begin, end, u, v, w
  <1>8. /\ next' \in [Nodes -> Nodes \cup {Null}] /\ prev' \in [Nodes -> Nodes \cup {Null}]
        /\ Edge(w, pos)' /\ Edge(v, end)' /\ Edge(u, begin)'
        /\ \A y, z \in Nodes : Edge(y, z) /\ y \notin {u, v, w} => Edge(y, z)'
    BY <1>4, <1>5, <1>6, <1>7, TransferEdges DEF Holds
  <1>9. ASSUME NEW m \in Lists, NEW k \in 0 .. Len(c[m]),
               ~(m = l /\ k = p - 1), ~(m = x /\ k = a - 1), ~(m = x /\ k = b - 1)
        PROVE  Edge(Node(c[m], m, k), Node(c[m], m, k + 1))'
    <2>1. Edge(Node(c[m], m, k), Node(c[m], m, k + 1))
      BY DEF Holds, Closed
    <2>2. Node(c[m], m, k) # u
      BY <1>2, <1>9, NodesApart0 DEF u
    <2>3. Node(c[m], m, k) # v
      BY <1>2, <1>9, NodesApart0 DEF v
    <2>4. Node(c[m], m, k) # w
      BY <1>2, <1>9, NodesApart0 DEF w
    <2>5. Node(c[m], m, k) \in Nodes /\ Node(c[m], m, k + 1) \in Nodes
      BY <1>1
    <2> QED
      BY <1>8, <2>1, <2>2, <2>3, <2>4, <2>5
  <1> DEFINE s == SubSeq(c[x], a, b - 1)
  <1>10. /\ \A k \in a .. b - 1 : c[x][k] \in Items
         /\ s \in Seq(Items) /\ Len(s) = b - a
         /\ \A k \in 1 .. b - a : s[k] = c[x][a + k - 1]
    <2>1. \A k \in a .. b - 1 : c[x][k] \in Items
      BY <1>1, <1>2, ContentsType
    <2>2. /\ s \in Seq(Items) /\ Len(s) = (IF a <= b - 1 THEN b - 1 - a + 1 ELSE 0)
          /\ \A k \in 1 .. b - 1 - a + 1 : s[k] = c[x][a + k - 1]
      BY <1>2, <2>1, SubSeqProperties
    <2>3. (b - 1) - a + 1 = b - a /\ a <= b - 1
      BY <1>2
    <2> QED
      BY <2>1, <2>2, <2>3
  <1> HIDE DEF s
  <1>11. Len(s) <= Cardinality(Items)
    <2>1. Len(c[x]) <= Cardinality(Items) /\ Cardinality(Items) \in Nat
      BY LengthBounded, FS_CardinalityType, UnitListAssumption
    <2>2. b - a <= Len(c[x])
      BY <1>1, <1>2
    <2> QED
      BY <1>1, <1>2, <1>10, <2>1, <2>2
  <1>12. ASSUME NEW k \in 1 .. Len(s) PROVE s[k] # pos /\ next'[s[k]] = Node(s, pos, k + 1)
    <2> DEFINE q == a + k - 1
    <2>1. q \in 0 .. Len(c[x]) /\ q \in 1 .. Len(c[x]) /\ q \in 1 .. Len(c[x]) + 1 /\ a <= q /\ q <= b - 1
      BY <1>1, <1>2, <1>10
    <2>2. s[k] = c[x][q] /\ s[k] = Node(c[x], x, q)
      BY <1>10, <2>1 DEF Node
    <2> HIDE DEF q
    <2>3. s[k] # pos
      <3>1. ~(x = l /\ q = p)
        BY <1>2, <2>1 DEF Between
      <3> QED
        BY <1>2, <2>1, <2>2, <3>1, NodesApart DEF pos
    <2>4. CASE q = b - 1
      <3>1. Edge(s[k], pos)'
        BY <1>8, <2>2, <2>4 DEF w
      <3>2. k = Len(s)
        BY <1>2, <1>10, <2>4 DEF q
      <3>3. Node(s, pos, k + 1) = pos
        BY <3>2, <1>10, <1>2 DEF Node
      <3> QED
        BY <2>3, <3>1, <3>3 DEF Edge
    <2>5. CASE q # b - 1
      <3>1. ~(x = l /\ q = p - 1) /\ ~(q = a - 1)
        BY <1>2, <2>1, <2>5, SMTT(60) DEF Between
      <3>2. Edge(Node(c[x], x, q), Node(c[x], x, q + 1))'
        BY <1>9, <2>1, <2>5, <3>1
      <3>3. k + 1 \in 1 .. Len(s) /\ q + 1 \in 1 .. Len(c[x]) /\ a + (k + 1) - 1 = q + 1
        BY <1>1, <1>2, <1>10, <2>1, <2>5 DEF q
      <3>4. Node(s, pos, k + 1) = Node(c[x], x, q + 1)
        BY <1>10, <3>3 DEF Node
      <3> QED
        BY <2>2, <2>3, <3>2, <3>4 DEF Edge
    <2> QED
      BY <2>4, <2>5
  <1>13. begin = Node(s, pos, 1)
    <2>1. 1 \in 1 .. Len(s) /\ a + 1 - 1 = a
      BY <1>2, <1>10
    <2> QED
      BY <1>3, <1>10, <2>1 DEF Node
  <1>14. Path(next', begin, pos) = s
    BY <1>10, <1>11, <1>12, <1>13, PathIs
  <1>15. \A n \in Nodes : OnPath(s, n) <=> Moving(c, x, a, b, n)
    <2> SUFFICES ASSUME NEW n \in Nodes PROVE OnPath(s, n) <=> Moving(c, x, a, b, n)
      OBVIOUS
    <2>1. DOMAIN s = 1 .. b - a
      BY <1>10, LenProperties
    <2>2. ASSUME NEW k \in 1 .. b - a, s[k] = n PROVE Moving(c, x, a, b, n)
      <3>1. a + k - 1 \in a .. b - 1 /\ c[x][a + k - 1] = n
        BY <1>2, <1>10, <2>2
      <3> QED
        BY <3>1 DEF Moving
    <2>3. ASSUME NEW k \in a .. b - 1, c[x][k] = n PROVE OnPath(s, n)
      <3>1. k - a + 1 \in 1 .. b - a /\ a + (k - a + 1) - 1 = k
        BY <1>2
      <3>2. s[k - a + 1] = n
        BY <1>10, <2>3, <3>1
      <3> QED
        BY <2>1, <3>1, <3>2 DEF OnPath
    <2> QED
      BY <2>1, <2>2, <2>3 DEF OnPath, Moving
  <1>16. owner[pos] = l
    <2>1. CASE pos = l
      BY <2>1 DEF Holds
    <2>2. CASE pos # l
      <3>1. pos \in Items /\ Holder(c, pos, l)
        BY <2>2, ContentsType DEF pos, Node, Holder
      <3>2. ItemOK(c, pos)
        BY <3>1 DEF Holds
      <3>3. owner[pos] \in Lists /\ Holder(c, pos, owner[pos])
        BY <3>1, <3>2 DEF ItemOK
      <3> QED
        BY <3>1, <3>3 DEF Holder, Contents, Distinct
    <2> QED
      BY <2>1, <2>2
  <1>17. \A n \in Nodes : owner'[n] = IF Moving(c, x, a, b, n) THEN l ELSE owner[n]
    BY <1>7, <1>14, <1>15, <1>16
  <1>18. owner' \in [Nodes -> Lists \cup {Null}] /\ on' \in [Nodes -> Nat]
    <2>1. owner' = [n \in Nodes |-> IF OnPath(s, n) THEN l ELSE owner[n]]
      BY <1>7, <1>14, <1>16
    <2> QED
      BY <1>7, <2>1 DEF Holds, PointerType
  <1>19. length' \in [Lists -> Nat] => PointerType'
    BY <1>8, <1>18 DEF PointerType
  <1> QED
    BY <1>7, <1>8, <1>9, <1>17, <1>19 DEF pos, begin, end, u, v, w

(* The sequences after a transfer to another list.                         *)
MovedIn(s, t, p, r, a, b) ==
  /\ t \in Seq(Items) /\ Len(t) = Len(s) + (b - a)
  /\ \A k \in 1 .. Len(s) + (b - a) :
       t[k] = IF k < p THEN s[k] ELSE IF k < p + (b - a) THEN r[a + (k - p)] ELSE s[k - (b - a)]
MovedOut(r, w, a, b) ==
  /\ w \in Seq(Items) /\ Len(w) = Len(r) - (b - a)
  /\ \A k \in 1 .. Len(r) - (b - a) : w[k] = IF k < a THEN r[k] ELSE r[k + (b - a)]

(* What holders there are after a transfer.                                *)
Rearranged(c, d, l, x, a, b) ==
  /\ d \in Contents
  /\ \A m \in Lists, i \in Items :
       Holder(d, i, m) <=> IF Moving(c, x, a, b, i) THEN m = l ELSE Holder(c, i, m)

LEMMA AcrossContents ==
  ASSUME NEW c \in Contents, NEW l \in Lists, NEW x \in Lists, l # x,
         NEW p, NEW a, NEW b, Between(c, l, p, x, a, b),
         NEW t, MovedIn(c[l], t, p, c[x], a, b), NEW w, MovedOut(c[x], w, a, b)
  PROVE  Rearranged(c, [c EXCEPT ![l] = t, ![x] = w], l, x, a, b)
  <1> DEFINE d == [c EXCEPT ![l] = t, ![x] = w]
             n == b - a
             In(m, k) == m = l /\ p <= k /\ k < p + n
             S(m, k) == IF In(m, k) THEN x ELSE m
             T(m, k) == CASE m = l -> IF k < p THEN k ELSE IF k < p + n THEN a + (k - p) ELSE k - n
                          [] m = x -> IF k < a THEN k ELSE k + n
                          [] OTHER -> k
  <1>1. /\ d[l] = t /\ d[x] = w /\ (\A m \in Lists \ {l, x} : d[m] = c[m])
        /\ d \in [Lists -> Seq(Items)]
    BY DEF Contents, MovedIn, MovedOut
  <1>2. /\ \A m \in Lists : Len(c[m]) \in Nat
        /\ p \in 1 .. Len(c[l]) + 1 /\ a \in 1 .. Len(c[x]) /\ b \in 1 .. Len(c[x]) + 1 /\ a < b
    BY ContentsType DEF Between
  <1>3. n \in Nat /\ n # 0 /\ a + n = b /\ p \in Nat /\ a \in Nat /\ b \in Nat
    BY <1>2
  <1>4. \A m, o \in Lists : \A j \in 1 .. Len(c[m]), k \in 1 .. Len(c[o]) :
          c[m][j] = c[o][k] => m = o /\ j = k
    BY DEF Contents, Distinct
  <1>5. /\ Len(d[l]) = Len(c[l]) + n
        /\ \A k \in 1 .. Len(c[l]) + n :
             d[l][k] = IF k < p THEN c[l][k] ELSE IF k < p + n THEN c[x][a + (k - p)] ELSE c[l][k - n]
    BY <1>1 DEF MovedIn
  <1>6. /\ Len(d[x]) = Len(c[x]) - n
        /\ \A k \in 1 .. Len(c[x]) - n : d[x][k] = IF k < a THEN c[x][k] ELSE c[x][k + n]
    BY <1>1 DEF MovedOut
  <1> HIDE DEF d, n
  <1>7. ASSUME NEW m \in Lists, NEW k \in 1 .. Len(d[m])
        PROVE  /\ S(m, k) \in Lists /\ T(m, k) \in 1 .. Len(c[S(m, k)]) /\ d[m][k] = c[S(m, k)][T(m, k)]
               /\ In(m, k) <=> S(m, k) = x /\ a <= T(m, k) /\ T(m, k) < b
    <2>1. CASE m = l
      <3>1. k \in 1 .. Len(c[l]) + n
        BY <1>5, <2>1
      <3>2. CASE k < p
        BY <1>2, <1>3, <1>5, <2>1, <3>1, <3>2
      <3>3. CASE p <= k /\ k < p + n
        <4>1. S(m, k) = x /\ T(m, k) = a + (k - p) /\ In(m, k)
          BY <1>2, <1>3, <2>1, <3>1, <3>3
        <4>2. a + (k - p) \in 1 .. Len(c[x]) /\ a <= a + (k - p) /\ a + (k - p) < b
          BY <1>2, <1>3, <3>1, <3>3
        <4>3. d[l][k] = c[x][a + (k - p)]
          BY <1>3, <1>5, <3>1, <3>3
        <4> HIDE DEF S, T, In
        <4> QED
          BY <2>1, <4>1, <4>2, <4>3
      <3>4. CASE p + n <= k
        <4>1. S(m, k) = l /\ T(m, k) = k - n /\ ~In(m, k)
          BY <1>2, <1>3, <2>1, <3>1, <3>4
        <4>2. k - n \in 1 .. Len(c[l])
          BY <1>2, <1>3, <3>1, <3>4
        <4>3. d[l][k] = c[l][k - n]
          BY <1>3, <1>5, <3>1, <3>4
        <4> HIDE DEF S, T, In
        <4> QED
          BY <2>1, <4>1, <4>2, <4>3
      <3> QED
        BY <1>2, <1>3, <3>1, <3>2, <3>3, <3>4
    <2>2. CASE m = x
      <3>1. k \in 1 .. Len(c[x]) - n
        BY <1>6, <2>2
      <3>2. S(m, k) = x /\ ~In(m, k) /\ T(m, k) = IF k < a THEN k ELSE k + n
        BY <2>2
      <3>3. /\ (IF k < a THEN k ELSE k + n) \in 1 .. Len(c[x])
            /\ ~(a <= (IF k < a THEN k ELSE k + n) /\ (IF k < a THEN k ELSE k + n) < b)
        BY <1>2, <1>3, <3>1
      <3>4. d[x][k] = c[x][IF k < a THEN k ELSE k + n]
        BY <1>6, <3>1
      <3> HIDE DEF S, T, In
      <3> QED
        BY <2>2, <3>2, <3>3, <3>4
    <2>3. CASE m # l /\ m # x
      BY <1>1, <2>3
    <2> QED
      BY <2>1, <2>2, <2>3
  <1>8. ASSUME NEW m \in Lists, NEW k \in 1 .. Len(d[m]), NEW o \in Lists, NEW j \in 1 .. Len(d[o]),
               S(m, k) = S(o, j), T(m, k) = T(o, j)
        PROVE  m = o /\ k = j
    <2>1. m = o
      <3>1. In(m, k) <=> In(o, j)
        <4> HIDE DEF S, T, In
        <4> QED
          BY <1>7, <1>8
      <3> QED
        BY <1>8, <3>1
    <2>2. k \in Int /\ j \in Int
      OBVIOUS
    <2>3. CASE m = l
      <3>1. /\ T(l, k) = IF k < p THEN k ELSE IF k < p + n THEN a + (k - p) ELSE k - n
            /\ T(l, j) = IF j < p THEN j ELSE IF j < p + n THEN a + (j - p) ELSE j - n
        OBVIOUS
      <3>2. (p <= k /\ k < p + n) <=> (p <= j /\ j < p + n)
        <4>1. In(l, k) <=> In(l, j)
          <5> HIDE DEF S, T, In
          <5> QED
            BY <1>7, <1>8, <2>1, <2>3
        <4> QED
          BY <4>1
      <3>3. T(l, k) = T(l, j)
        BY <1>8, <2>1, <2>3
      <3> HIDE DEF T
      <3> QED
        BY <1>3, <2>1, <2>2, <2>3, <3>1, <3>2, <3>3
    <2>4. CASE m = x
      <3>1. T(x, k) = (IF k < a THEN k ELSE k + n) /\ T(x, j) = (IF j < a THEN j ELSE j + n)
        OBVIOUS
      <3>2. T(x, k) = T(x, j)
        BY <1>8, <2>1, <2>4
      <3> HIDE DEF T
      <3> QED
        BY <1>3, <2>1, <2>2, <3>1, <3>2
    <2>5. CASE m # l /\ m # x
      BY <1>8, <2>1, <2>5
    <2> QED
      BY <2>3, <2>4, <2>5
  <1>9. ASSUME NEW k \in a .. b - 1 PROVE Holder(d, c[x][k], l)
    <2>1. p + (k - a) \in 1 .. Len(d[l]) /\ ~(p + (k - a) < p) /\ p + (k - a) < p + n
      BY <1>2, <1>3, <1>5
    <2>2. a + ((p + (k - a)) - p) = k
      BY <1>3
    <2>3. d[l][p + (k - a)] = c[x][k]
      BY <1>5, <2>1, <2>2
    <2> QED
      BY <2>1, <2>3 DEF Holder
  <1>10. ASSUME NEW m \in Lists, NEW k \in 1 .. Len(c[m]), ~(m = x /\ a <= k /\ k < b)
         PROVE  Holder(d, c[m][k], m)
    <2>1. CASE m = l
      <3> DEFINE q == IF k < p THEN k ELSE k + n
      <3>1. q \in 1 .. Len(d[l]) /\ d[l][q] = c[l][k]
        <4>1. CASE k < p
          BY <1>2, <1>3, <1>5, <2>1, <4>1
        <4>2. CASE ~(k < p)
          <5>1. q = k + n /\ q \in 1 .. Len(c[l]) + n /\ ~(q < p) /\ ~(q < p + n) /\ q - n = k
            BY <1>2, <1>3, <2>1, <4>2
          <5> HIDE DEF q
          <5> QED
            BY <1>5, <5>1
        <4> QED
          BY <4>1, <4>2
      <3> QED
        BY <2>1, <3>1 DEF Holder
    <2>2. CASE m = x
      <3> DEFINE q == IF k < a THEN k ELSE k - n
      <3>1. q \in 1 .. Len(d[x]) /\ d[x][q] = c[x][k]
        <4>1. CASE k < a
          BY <1>2, <1>3, <1>6, <2>2, <4>1
        <4>2. CASE ~(k < a)
          <5>1. q = k - n /\ q \in 1 .. Len(c[x]) - n /\ ~(q < a) /\ q + n = k
            BY <1>2, <1>3, <1>10, <2>2, <4>2
          <5> HIDE DEF q
          <5> QED
            BY <1>6, <5>1
        <4> QED
          BY <4>1, <4>2
      <3> QED
        BY <2>2, <3>1 DEF Holder
    <2>3. CASE m # l /\ m # x
      BY <1>1, <2>3 DEF Holder
    <2> QED
      BY <2>1, <2>2, <2>3
  <1> HIDE DEF S, T
  <1>11. Distinct(d)
    <2> SUFFICES ASSUME NEW m \in Lists, NEW o \in Lists,
                        NEW k \in 1 .. Len(d[m]), NEW j \in 1 .. Len(d[o]), d[m][k] = d[o][j]
                 PROVE  m = o /\ k = j
      BY DEF Distinct
    <2>1. c[S(m, k)][T(m, k)] = c[S(o, j)][T(o, j)]
      BY <1>7
    <2>2. S(m, k) = S(o, j) /\ T(m, k) = T(o, j)
      BY <1>4, <1>7, <2>1
    <2> QED
      BY <1>8, <2>2
  <1>12. d \in Contents
    BY <1>1, <1>11 DEF Contents
  <1>13. ASSUME NEW m \in Lists, NEW i \in Items
         PROVE  Holder(d, i, m) <=> IF Moving(c, x, a, b, i) THEN m = l ELSE Holder(c, i, m)
    <2>1. ASSUME Holder(d, i, m) PROVE IF Moving(c, x, a, b, i) THEN m = l ELSE Holder(c, i, m)
      <3>1. PICK k \in 1 .. Len(d[m]) : d[m][k] = i
        BY <2>1 DEF Holder
      <3>2. CASE In(m, k)
        <4>1. S(m, k) = x /\ T(m, k) \in a .. b - 1 /\ c[x][T(m, k)] = i
          BY <1>3, <1>7, <3>1, <3>2
        <4>2. Moving(c, x, a, b, i)
          BY <4>1 DEF Moving
        <4> QED
          BY <3>2, <4>2
      <3>3. CASE ~In(m, k)
        <4>1. S(m, k) = m
          BY <3>3 DEF S
        <4>2. T(m, k) \in 1 .. Len(c[m]) /\ c[m][T(m, k)] = i /\ ~(m = x /\ a <= T(m, k) /\ T(m, k) < b)
          BY <1>7, <3>1, <3>3, <4>1
        <4>3. ~Moving(c, x, a, b, i)
          <5> SUFFICES ASSUME NEW j \in a .. b - 1, c[x][j] = i PROVE FALSE
            BY DEF Moving
          <5>1. j \in 1 .. Len(c[x]) /\ a <= j /\ j < b
            BY <1>2, <1>3
          <5>2. m = x /\ T(m, k) = j
            BY <1>4, <4>2, <5>1
          <5> QED
            BY <4>2, <5>1, <5>2
        <4> QED
          BY <4>2, <4>3 DEF Holder
      <3> QED
        BY <3>2, <3>3
    <2>2. ASSUME Moving(c, x, a, b, i), m = l PROVE Holder(d, i, m)
      BY <1>9, <2>2 DEF Moving
    <2>3. ASSUME ~Moving(c, x, a, b, i), Holder(c, i, m) PROVE Holder(d, i, m)
      <3>1. PICK k \in 1 .. Len(c[m]) : c[m][k] = i
        BY <2>3 DEF Holder
      <3>2. ~(m = x /\ a <= k /\ k < b)
        <4> SUFFICES ASSUME m = x, a <= k, k < b PROVE FALSE
          OBVIOUS
        <4>1. k \in a .. b - 1
          BY <1>3
        <4> QED
          BY <2>3, <3>1, <4>1 DEF Moving
      <3> QED
        BY <1>10, <3>1, <3>2
    <2> QED
      BY <2>1, <2>2, <2>3
  <1>14. Rearranged(c, d, l, x, a, b)
    BY <1>12, <1>13 DEF Rearranged
  <1> QED
    BY <1>14 DEF d

(* The sequence after a transfer within a list: the items from q change    *)
(* places with those from r, up to z.                                      *)
Swapped(s, t, q, r, z) ==
  /\ t \in Seq(Items) /\ Len(t) = Len(s)
  /\ \A k \in 1 .. Len(s) :
       t[k] = IF k < q THEN s[k] ELSE IF k < q + (z - r) THEN s[k + (r - q)]
              ELSE IF k < z THEN s[k - (z - r)] ELSE s[k]
Blocks(s, q, r, z) ==
  /\ q \in 1 .. Len(s) /\ r \in 1 .. Len(s) /\ z \in 1 .. Len(s) + 1 /\ q < r /\ r < z

LEMMA WithinContents ==
  ASSUME NEW c \in Contents, NEW l \in Lists, NEW q, NEW r, NEW z, Blocks(c[l], q, r, z),
         NEW t, Swapped(c[l], t, q, r, z)
  PROVE  /\ [c EXCEPT ![l] = t] \in Contents
         /\ \A m \in Lists, i \in Items : Holder([c EXCEPT ![l] = t], i, m) <=> Holder(c, i, m)
  <1> DEFINE d == [c EXCEPT ![l] = t]
             T(k) == IF k < q THEN k ELSE IF k < q + (z - r) THEN k + (r - q)
                     ELSE IF k < z THEN k - (z - r) ELSE k
             U(k) == IF k < q THEN k ELSE IF k < r THEN k + (z - r)
                     ELSE IF k < z THEN k - (r - q) ELSE k
  <1>1. d[l] = t /\ (\A m \in Lists \ {l} : d[m] = c[m]) /\ d \in [Lists -> Seq(Items)]
    BY DEF Contents, Swapped
  <1>2. /\ Len(c[l]) \in Nat /\ q \in 1 .. Len(c[l]) /\ r \in 1 .. Len(c[l]) /\ z \in 1 .. Len(c[l]) + 1
        /\ q < r /\ r < z
    BY ContentsType DEF Blocks
  <1>3. \A m, o \in Lists : \A j \in 1 .. Len(c[m]), k \in 1 .. Len(c[o]) :
          c[m][j] = c[o][k] => m = o /\ j = k
    BY DEF Contents, Distinct
  <1>4. Len(t) = Len(c[l]) /\ \A k \in 1 .. Len(t) : T(k) \in 1 .. Len(c[l]) /\ t[k] = c[l][T(k)]
    <2>1. Len(t) = Len(c[l])
      BY DEF Swapped
    <2>2. \A k \in 1 .. Len(c[l]) : T(k) \in 1 .. Len(c[l])
      BY <1>2
    <2>3. \A k \in 1 .. Len(c[l]) : t[k] = c[l][T(k)]
      BY DEF Swapped
    <2> HIDE DEF T
    <2> QED
      BY <2>1, <2>2, <2>3
  <1>5. \A k \in 1 .. Len(c[l]) : U(k) \in 1 .. Len(c[l]) /\ T(U(k)) = k /\ U(T(k)) = k
    BY <1>2
  <1> HIDE DEF d, T, U
  <1>6. Distinct(d)
    <2> SUFFICES ASSUME NEW m \in Lists, NEW n \in Lists,
                        NEW j \in 1 .. Len(d[m]), NEW k \in 1 .. Len(d[n]), d[m][j] = d[n][k]
                 PROVE  m = n /\ j = k
      BY DEF Distinct
    <2> DEFINE a == IF m = l THEN T(j) ELSE j
               b == IF n = l THEN T(k) ELSE k
    <2>1. a \in 1 .. Len(c[m]) /\ d[m][j] = c[m][a]
      BY <1>1, <1>4
    <2>2. b \in 1 .. Len(c[n]) /\ d[n][k] = c[n][b]
      BY <1>1, <1>4
    <2>3. m = n /\ a = b
      <3> HIDE DEF a, b
      <3>1. c[m][a] = c[n][b]
        BY <2>1, <2>2
      <3> QED
        BY <1>3, <2>1, <2>2, <3>1
    <2>4. CASE m = l
      <3>1. T(j) = T(k) /\ j \in 1 .. Len(c[l]) /\ k \in 1 .. Len(c[l])
        BY <1>1, <1>4, <2>3, <2>4
      <3>2. U(T(j)) = j /\ U(T(k)) = k
        BY <1>5, <3>1
      <3> QED
        BY <2>3, <3>1, <3>2
    <2> QED
      BY <2>3, <2>4
  <1>7. d \in Contents
    BY <1>1, <1>6 DEF Contents
  <1>8. ASSUME NEW m \in Lists, NEW i \in Items PROVE Holder(d, i, m) <=> Holder(c, i, m)
    <2>1. CASE m # l
      BY <1>1, <2>1 DEF Holder
    <2>2. CASE m = l
      <3>1. ASSUME NEW k \in 1 .. Len(d[l]), d[l][k] = i PROVE Holder(c, i, l)
        <4>1. T(k) \in 1 .. Len(c[l]) /\ c[l][T(k)] = i
          BY <1>1, <1>4, <3>1
        <4> QED
          BY <4>1 DEF Holder
      <3>2. ASSUME NEW k \in 1 .. Len(c[l]), c[l][k] = i PROVE Holder(d, i, l)
        <4>1. U(k) \in 1 .. Len(d[l]) /\ T(U(k)) = k
          BY <1>1, <1>4, <1>5
        <4>2. d[l][U(k)] = i
          BY <1>1, <1>4, <3>2, <4>1
        <4> QED
          BY <4>1, <4>2 DEF Holder
      <3> QED
        BY <2>2, <3>1, <3>2 DEF Holder
    <2> QED
      BY <2>1, <2>2
  <1> QED
    BY <1>7, <1>8 DEF d

(* The edges after a transfer, as TransferStep has them.                   *)
Reconnected(c, l, p, x, a, b) ==
  /\ Edge(Node(c[l], l, p - 1), Node(c[x], x, a))
  /\ Edge(Node(c[x], x, b - 1), Node(c[l], l, p))
  /\ Edge(Node(c[x], x, a - 1), Node(c[x], x, b))
Kept(c, l, p, x, a, b) ==
  \A m \in Lists : \A k \in 0 .. Len(c[m]) :
    ~(m = l /\ k = p - 1) /\ ~(m = x /\ k = a - 1) /\ ~(m = x /\ k = b - 1)
      => Edge(Node(c[m], m, k), Node(c[m], m, k + 1))

LEMMA AcrossClosed ==
  ASSUME NEW c \in Contents, NEW l \in Lists, NEW x \in Lists, l # x,
         NEW p, NEW a, NEW b, Between(c, l, p, x, a, b),
         NEW t, MovedIn(c[l], t, p, c[x], a, b), NEW w, MovedOut(c[x], w, a, b),
         Reconnected(c, l, p, x, a, b)', Kept(c, l, p, x, a, b)'
  PROVE  \A m \in Lists : Closed([c EXCEPT ![l] = t, ![x] = w][m], m)'
  <1> DEFINE d == [c EXCEPT ![l] = t, ![x] = w]
             n == b - a
  <1>1. d[l] = t /\ d[x] = w /\ (\A m \in Lists \ {l, x} : d[m] = c[m])
    BY DEF Contents
  <1>2. /\ Len(c[l]) \in Nat /\ Len(c[x]) \in Nat
        /\ p \in 1 .. Len(c[l]) + 1 /\ a \in 1 .. Len(c[x]) /\ b \in 1 .. Len(c[x]) + 1 /\ a < b
    BY ContentsType DEF Between
  <1>3. n \in Nat /\ n # 0 /\ a + n = b /\ p \in Nat /\ a \in Nat /\ b \in Nat
    BY <1>2
  <1>4. /\ Edge(Node(c[l], l, p - 1), Node(c[x], x, a))'
        /\ Edge(Node(c[x], x, b - 1), Node(c[l], l, p))'
        /\ Edge(Node(c[x], x, a - 1), Node(c[x], x, b))'
    BY DEF Reconnected
  <1>5. /\ \A k \in 0 .. Len(c[l]) : k # p - 1 => Edge(Node(c[l], l, k), Node(c[l], l, k + 1))'
        /\ \A k \in 0 .. Len(c[x]) :
             k # a - 1 /\ k # b - 1 => Edge(Node(c[x], x, k), Node(c[x], x, k + 1))'
    BY DEF Kept
  <1>6. /\ Len(t) = Len(c[l]) + n
        /\ \A k \in 0 .. Len(t) + 1 :
             Node(t, l, k) = IF k < p THEN Node(c[l], l, k) ELSE IF k < p + n THEN Node(c[x], x, a + (k - p))
                             ELSE Node(c[l], l, k - n)
    <2>1. /\ Len(t) = Len(c[l]) + n
          /\ \A k \in 1 .. Len(c[l]) + n :
               t[k] = IF k < p THEN c[l][k] ELSE IF k < p + n THEN c[x][a + (k - p)] ELSE c[l][k - n]
      BY DEF MovedIn
    <2> HIDE DEF n
    <2> SUFFICES ASSUME NEW k \in 0 .. Len(t) + 1
                 PROVE Node(t, l, k) = IF k < p THEN Node(c[l], l, k)
                                       ELSE IF k < p + n THEN Node(c[x], x, a + (k - p))
                                       ELSE Node(c[l], l, k - n)
      BY <2>1
    <2>2. CASE k = 0 \/ k = Len(t) + 1
      BY <1>2, <1>3, <2>1, <2>2 DEF Node
    <2>3. CASE k \in 1 .. Len(t) /\ p <= k /\ k < p + n
      <3>1. a + (k - p) \in 1 .. Len(c[x])
        BY <1>2, <1>3, <2>3
      <3> QED
        BY <1>3, <2>1, <2>3, <3>1 DEF Node
    <2>4. CASE k \in 1 .. Len(t) /\ ~(p <= k /\ k < p + n)
      BY <1>2, <1>3, <2>1, <2>4 DEF Node
    <2>5. k = 0 \/ k = Len(t) + 1 \/ k \in 1 .. Len(t)
      <3>1. Len(t) = Len(c[l]) + n
        BY <2>1
      <3>2. Len(t) \in Nat
        BY <1>2, <1>3, <3>1
      <3> QED
        BY <3>2
    <2> QED
      BY <2>2, <2>3, <2>4, <2>5
  <1>7. /\ Len(w) = Len(c[x]) - n
        /\ \A k \in 0 .. Len(w) + 1 :
             Node(w, x, k) = IF k < a THEN Node(c[x], x, k) ELSE Node(c[x], x, k + n)
    <2>1. /\ Len(w) = Len(c[x]) - n
          /\ \A k \in 1 .. Len(c[x]) - n : w[k] = IF k < a THEN c[x][k] ELSE c[x][k + n]
      BY DEF MovedOut
    <2> HIDE DEF n
    <2>2. ASSUME NEW k \in 0 .. Len(w) + 1
          PROVE  Node(w, x, k) = IF k < a THEN Node(c[x], x, k) ELSE Node(c[x], x, k + n)
      <3>1. k = 0 \/ k = Len(w) + 1 \/ k \in 1 .. Len(w)
        <4>1. Len(w) = Len(c[x]) - n /\ n <= Len(c[x])
          BY <1>2, <1>3, <2>1
        <4>2. Len(w) \in Nat
          BY <1>2, <1>3, <4>1
        <4> QED
          BY <4>2
      <3>2. CASE k = 0
        BY <1>2, <1>3, <3>2 DEF Node
      <3>3. CASE k = Len(w) + 1
        <4>1. ~(k < a) /\ k + n = Len(c[x]) + 1 /\ k \notin 1 .. Len(w)
          BY <1>2, <1>3, <2>1, <3>1, <3>3
        <4> QED
          BY <1>2, <4>1 DEF Node
      <3>4. CASE k \in 1 .. Len(w) /\ k < a
        BY <1>2, <1>3, <2>1, <3>4 DEF Node
      <3>5. CASE k \in 1 .. Len(w) /\ ~(k < a)
        <4>1. k + n \in 1 .. Len(c[x]) /\ k \in 1 .. Len(c[x]) - n
          BY <1>2, <1>3, <2>1, <3>5
        <4>2. w[k] = c[x][k + n]
          BY <2>1, <3>5, <4>1
        <4> QED
          BY <3>5, <4>1, <4>2 DEF Node
      <3> QED
        BY <3>1, <3>2, <3>3, <3>4, <3>5
    <2> QED
      BY <2>1, <2>2
  <1> HIDE DEF d, n
  <1>8. ASSUME NEW k \in 0 .. Len(t) PROVE Edge(Node(t, l, k), Node(t, l, k + 1))'
    <2>0. k \in 0 .. Len(t) + 1 /\ k + 1 \in 0 .. Len(t) + 1 /\ Len(t) \in Nat
      BY <1>2, <1>3, <1>6
    <2>1. CASE k < p - 1
      <3>1. k < p /\ k + 1 < p /\ k \in 0 .. Len(c[l]) /\ k # p - 1
        BY <1>2, <2>0, <2>1
      <3>2. Node(t, l, k) = Node(c[l], l, k) /\ Node(t, l, k + 1) = Node(c[l], l, k + 1)
        BY <1>6, <2>0, <3>1
      <3> QED
        BY <1>5, <3>1, <3>2
    <2>2. CASE k = p - 1
      <3>1. k < p /\ ~(k + 1 < p) /\ k + 1 < p + n /\ a + ((k + 1) - p) = a
        BY <1>3, <2>0, <2>2
      <3>2. Node(t, l, k) = Node(c[l], l, p - 1) /\ Node(t, l, k + 1) = Node(c[x], x, a)
        BY <1>6, <2>0, <2>2, <3>1
      <3> QED
        BY <1>4, <3>2
    <2>3. CASE p <= k /\ k < p + n - 1
      <3>1. /\ ~(k < p) /\ k < p + n /\ ~(k + 1 < p) /\ k + 1 < p + n
            /\ a + ((k + 1) - p) = (a + (k - p)) + 1 /\ a + (k - p) \in 0 .. Len(c[x])
            /\ a + (k - p) # a - 1 /\ a + (k - p) # b - 1
        BY <1>2, <1>3, <2>0, <2>3
      <3>2. Node(t, l, k) = Node(c[x], x, a + (k - p)) /\ Node(t, l, k + 1) = Node(c[x], x, (a + (k - p)) + 1)
        BY <1>6, <2>0, <3>1
      <3> QED
        BY <1>5, <3>1, <3>2
    <2>4. CASE k = p + n - 1
      <3>1. /\ ~(k < p) /\ k < p + n /\ ~(k + 1 < p) /\ ~(k + 1 < p + n)
            /\ a + (k - p) = b - 1 /\ (k + 1) - n = p
        BY <1>3, <2>0, <2>4
      <3>2. Node(t, l, k) = Node(c[x], x, b - 1) /\ Node(t, l, k + 1) = Node(c[l], l, p)
        <4>1. Node(t, l, k) = Node(c[x], x, a + (k - p)) /\ Node(t, l, k + 1) = Node(c[l], l, (k + 1) - n)
          BY <1>6, <2>0, <3>1
        <4> QED
          BY <3>1, <4>1
      <3> QED
        BY <1>4, <3>2
    <2>5. CASE p + n <= k
      <3>1. /\ ~(k < p) /\ ~(k < p + n) /\ ~(k + 1 < p) /\ ~(k + 1 < p + n)
            /\ (k + 1) - n = (k - n) + 1 /\ k - n \in 0 .. Len(c[l]) /\ k - n # p - 1
        BY <1>2, <1>3, <1>6, <2>0, <2>5
      <3>2. Node(t, l, k) = Node(c[l], l, k - n) /\ Node(t, l, k + 1) = Node(c[l], l, (k - n) + 1)
        BY <1>6, <2>0, <3>1
      <3> QED
        BY <1>5, <3>1, <3>2
    <2> QED
      BY <1>3, <2>0, <2>1, <2>2, <2>3, <2>4, <2>5
  <1>9. ASSUME NEW k \in 0 .. Len(w) PROVE Edge(Node(w, x, k), Node(w, x, k + 1))'
    <2>0. k \in 0 .. Len(w) + 1 /\ k + 1 \in 0 .. Len(w) + 1 /\ Len(w) \in Nat
      BY <1>2, <1>3, <1>7
    <2>1. CASE k < a - 1
      <3>1. k < a /\ k + 1 < a /\ k \in 0 .. Len(c[x]) /\ k # a - 1 /\ k # b - 1
        BY <1>2, <1>3, <2>0, <2>1
      <3>2. Node(w, x, k) = Node(c[x], x, k) /\ Node(w, x, k + 1) = Node(c[x], x, k + 1)
        BY <1>7, <2>0, <3>1
      <3> QED
        BY <1>5, <3>1, <3>2
    <2>2. CASE k = a - 1
      <3>1. k < a /\ ~(k + 1 < a) /\ (k + 1) + n = b
        BY <1>3, <2>0, <2>2
      <3>2. Node(w, x, k) = Node(c[x], x, a - 1) /\ Node(w, x, k + 1) = Node(c[x], x, (k + 1) + n)
        BY <1>7, <2>0, <2>2, <3>1
      <3> QED
        BY <1>4, <3>1, <3>2
    <2>3. CASE a <= k
      <3>1. /\ ~(k < a) /\ ~(k + 1 < a) /\ (k + 1) + n = (k + n) + 1
            /\ k + n \in 0 .. Len(c[x]) /\ k + n # a - 1 /\ k + n # b - 1
        BY <1>2, <1>3, <1>7, <2>0, <2>3
      <3>2. Node(w, x, k) = Node(c[x], x, k + n) /\ Node(w, x, k + 1) = Node(c[x], x, (k + n) + 1)
        BY <1>7, <2>0, <3>1
      <3> QED
        BY <1>5, <3>1, <3>2
    <2> QED
      BY <1>3, <2>0, <2>1, <2>2, <2>3
  <1>10. ASSUME NEW m \in Lists, m # l, m # x PROVE Closed(c[m], m)'
    BY <1>10 DEF Kept, Closed
  <1>11. \A m \in Lists : Closed(d[m], m)'
    BY <1>1, <1>8, <1>9, <1>10 DEF Closed
  <1> QED
    BY <1>11 DEF d

LEMMA WithinClosed ==
  ASSUME NEW c \in Contents, NEW l \in Lists, NEW q, NEW r, NEW z, Blocks(c[l], q, r, z),
         NEW t, Swapped(c[l], t, q, r, z),
         Edge(Node(c[l], l, q - 1), Node(c[l], l, r))',
         Edge(Node(c[l], l, z - 1), Node(c[l], l, q))',
         Edge(Node(c[l], l, r - 1), Node(c[l], l, z))',
         \A k \in 0 .. Len(c[l]) : k # q - 1 /\ k # r - 1 /\ k # z - 1
           => Edge(Node(c[l], l, k), Node(c[l], l, k + 1))'
  PROVE  Closed(t, l)'
  <1> DEFINE f == z - r
             g == r - q
  <1>1. /\ Len(c[l]) \in Nat /\ q \in 1 .. Len(c[l]) /\ r \in 1 .. Len(c[l]) /\ z \in 1 .. Len(c[l]) + 1
        /\ q < r /\ r < z
    BY ContentsType DEF Blocks
  <1>2. /\ f \in Nat /\ g \in Nat /\ f # 0 /\ g # 0 /\ q + g = r /\ r + f = z
        /\ q \in Nat /\ r \in Nat /\ z \in Nat
    BY <1>1
  <1>3. /\ Len(t) = Len(c[l])
        /\ \A k \in 0 .. Len(t) + 1 :
             Node(t, l, k) = IF k < q THEN Node(c[l], l, k) ELSE IF k < q + f THEN Node(c[l], l, k + g)
                             ELSE IF k < z THEN Node(c[l], l, k - f) ELSE Node(c[l], l, k)
    <2>1. /\ Len(t) = Len(c[l])
          /\ \A k \in 1 .. Len(c[l]) :
               t[k] = IF k < q THEN c[l][k] ELSE IF k < q + f THEN c[l][k + g]
                      ELSE IF k < z THEN c[l][k - f] ELSE c[l][k]
      BY DEF Swapped
    <2> HIDE DEF f, g
    <2> QED
      BY <1>1, <1>2, <2>1 DEF Node
  <1> HIDE DEF f, g
  <1> SUFFICES ASSUME NEW k \in 0 .. Len(t) PROVE Edge(Node(t, l, k), Node(t, l, k + 1))'
    BY DEF Closed
  <1>4. k \in 0 .. Len(t) + 1 /\ k + 1 \in 0 .. Len(t) + 1 /\ Len(t) \in Nat /\ k \in 0 .. Len(c[l])
    BY <1>1, <1>3
  <1>5. CASE k < q - 1 \/ z <= k
    <2>1. /\ k # q - 1 /\ k # r - 1 /\ k # z - 1
          /\ \/ k < q /\ k + 1 < q
             \/ ~(k < q) /\ ~(k < q + f) /\ ~(k < z) /\ ~(k + 1 < q) /\ ~(k + 1 < q + f) /\ ~(k + 1 < z)
      BY <1>2, <1>4, <1>5
    <2>2. Node(t, l, k) = Node(c[l], l, k) /\ Node(t, l, k + 1) = Node(c[l], l, k + 1)
      BY <1>3, <1>4, <2>1
    <2> QED
      BY <1>4, <2>1, <2>2
  <1>6. CASE k = q - 1
    <2>1. k < q /\ ~(k + 1 < q) /\ k + 1 < q + f /\ (k + 1) + g = r
      BY <1>2, <1>4, <1>6
    <2>2. Node(t, l, k) = Node(c[l], l, q - 1) /\ Node(t, l, k + 1) = Node(c[l], l, (k + 1) + g)
      BY <1>3, <1>4, <1>6, <2>1
    <2> QED
      BY <2>1, <2>2
  <1>7. CASE q <= k /\ k < q + f - 1
    <2>1. /\ ~(k < q) /\ k < q + f /\ ~(k + 1 < q) /\ k + 1 < q + f
          /\ (k + 1) + g = (k + g) + 1 /\ k + g \in 0 .. Len(c[l])
          /\ k + g # q - 1 /\ k + g # r - 1 /\ k + g # z - 1
      BY <1>1, <1>2, <1>4, <1>7
    <2>2. Node(t, l, k) = Node(c[l], l, k + g) /\ Node(t, l, k + 1) = Node(c[l], l, (k + g) + 1)
      BY <1>3, <1>4, <2>1
    <2> QED
      BY <2>1, <2>2
  <1>8. CASE k = q + f - 1
    <2>1. /\ ~(k < q) /\ k < q + f /\ ~(k + 1 < q) /\ ~(k + 1 < q + f) /\ k + 1 < z
          /\ k + g = z - 1 /\ (k + 1) - f = q
      BY <1>2, <1>4, <1>8
    <2>2. Node(t, l, k) = Node(c[l], l, k + g) /\ Node(t, l, k + 1) = Node(c[l], l, (k + 1) - f)
      BY <1>3, <1>4, <2>1
    <2> QED
      BY <2>1, <2>2
  <1>9. CASE q + f <= k /\ k < z - 1
    <2>1. /\ ~(k < q) /\ ~(k < q + f) /\ k < z /\ ~(k + 1 < q) /\ ~(k + 1 < q + f) /\ k + 1 < z
          /\ (k + 1) - f = (k - f) + 1 /\ k - f \in 0 .. Len(c[l])
          /\ k - f # q - 1 /\ k - f # r - 1 /\ k - f # z - 1
      BY <1>1, <1>2, <1>4, <1>9
    <2>2. Node(t, l, k) = Node(c[l], l, k - f) /\ Node(t, l, k + 1) = Node(c[l], l, (k - f) + 1)
      BY <1>3, <1>4, <2>1
    <2> QED
      BY <2>1, <2>2
  <1>10. CASE k = z - 1
    <2>1. /\ ~(k < q) /\ ~(k < q + f) /\ k < z /\ ~(k + 1 < q) /\ ~(k + 1 < q + f) /\ ~(k + 1 < z)
          /\ k - f = r - 1 /\ k + 1 = z
      BY <1>2, <1>4, <1>10
    <2>2. Node(t, l, k) = Node(c[l], l, k - f) /\ Node(t, l, k + 1) = Node(c[l], l, k + 1)
      BY <1>3, <1>4, <2>1
    <2> QED
      BY <2>1, <2>2
  <1> QED
    BY <1>2, <1>4, <1>5, <1>6, <1>7, <1>8, <1>9, <1>10

LEMMA TransferHolds ==
  ASSUME NEW c \in Contents, NEW over, Holds(c, over), NEW l \in Lists, NEW x \in Lists, NEW p, NEW a, NEW b,
         Between(c, l, p, x, a, b), NEW d, Rearranged(c, d, l, x, a, b),
         PointerType', \A m \in Lists : Closed(d[m], m)', \A m \in Lists : length'[m] = Len(d[m]) + over[m],
         on' = on, \A n \in Nodes : owner'[n] = IF Moving(c, x, a, b, n) THEN l ELSE owner[n]
  PROVE  Holds(d, over)'
  <1>1. \A k \in a .. b - 1 : k \in 1 .. Len(c[x]) /\ c[x][k] \in Items /\ c[x][k] \notin Lists
    BY ContentsType DEF Between
  <1>2. \A m \in Lists : m \in Nodes /\ ~Moving(c, x, a, b, m)
    BY <1>1 DEF Moving, Nodes
  <1>3. \A m \in Lists : on'[m] = 1 /\ owner'[m] = m
    BY <1>2 DEF Holds
  <1>4. ASSUME NEW i \in Items PROVE ItemOK(d, i)'
    <2>1. i \in Nodes /\ ItemOK(c, i) /\ \A m \in Lists : Holder(d, i, m) <=> IF Moving(c, x, a, b, i) THEN m = l ELSE Holder(c, i, m)
      BY DEF Holds, Nodes, Rearranged
    <2>2. CASE Moving(c, x, a, b, i)
      <3>1. Holder(c, i, x)
        BY <1>1, <2>2 DEF Moving, Holder
      <3>2. on[i] = 1
        BY <2>1, <3>1 DEF ItemOK
      <3>3. on'[i] = 1 /\ owner'[i] = l /\ Holder(d, i, l)
        BY <2>1, <2>2, <3>2
      <3> QED
        BY <3>3 DEF ItemOK
    <2>3. CASE ~Moving(c, x, a, b, i)
      <3>1. on'[i] = on[i] /\ owner'[i] = owner[i] /\ \A m \in Lists : Holder(d, i, m) <=> Holder(c, i, m)
        BY <2>1, <2>3
      <3> QED
        BY <2>1, <3>1 DEF ItemOK
    <2> QED
      BY <2>2, <2>3
  <1> QED
    BY <1>3, <1>4 DEF Holds

LEMMA AcrossHolds ==
  ASSUME NEW c \in Contents, NEW over, Holds(c, over), NEW l \in Lists, NEW x \in Lists, l # x,
         NEW p, NEW a, NEW b, Between(c, l, p, x, a, b),
         NEW t, MovedIn(c[l], t, p, c[x], a, b), NEW w, MovedOut(c[x], w, a, b),
         Transfer(Node(c[l], l, p), c[x][a], Node(c[x], x, b)),
         length' = [length EXCEPT ![l] = @ + (b - a), ![x] = @ - (b - a)]
  PROVE  [c EXCEPT ![l] = t, ![x] = w] \in Contents /\ Holds([c EXCEPT ![l] = t, ![x] = w], over)'
  <1> DEFINE d == [c EXCEPT ![l] = t, ![x] = w]
  <1>1. Rearranged(c, d, l, x, a, b)
    BY AcrossContents
  <1>2. /\ length' \in [Lists -> Nat] => PointerType'
        /\ Reconnected(c, l, p, x, a, b)' /\ Kept(c, l, p, x, a, b)'
        /\ on' = on /\ \A n \in Nodes : owner'[n] = IF Moving(c, x, a, b, n) THEN l ELSE owner[n]
    BY TransferStep DEF Reconnected, Kept
  <1>3. \A m \in Lists : Closed(d[m], m)'
    BY <1>2, AcrossClosed
  <1>4. /\ d[l] = t /\ d[x] = w /\ (\A m \in Lists \ {l, x} : d[m] = c[m])
        /\ Len(t) = Len(c[l]) + (b - a) /\ Len(w) = Len(c[x]) - (b - a)
    BY DEF Contents, MovedIn, MovedOut
  <1> HIDE DEF d
  <1>5. /\ Len(c[l]) \in Nat /\ Len(c[x]) \in Nat /\ b - a \in Nat /\ Len(c[x]) - (b - a) \in Nat
        /\ \A m \in Lists : length[m] = Len(c[m]) + over[m] /\ Len(c[m]) \in Nat /\ over[m] \in Nat
    BY ContentsType DEF Between, Holds
  <1>6. length' \in [Lists -> Nat] /\ \A m \in Lists : length'[m] = Len(d[m]) + over[m]
    <2> DEFINE n == b - a
    <2> HIDE DEF n
    <2>1. length \in [Lists -> Nat] /\ length' = [length EXCEPT ![l] = @ + n, ![x] = @ - n]
      BY DEF Holds, PointerType, n
    <2>2. n \in Nat /\ length[l] + n \in Nat /\ length[x] - n \in Nat
      BY <1>5 DEF n
    <2>3. /\ length'[l] = length[l] + n /\ length'[x] = length[x] - n
          /\ \A m \in Lists \ {l, x} : length'[m] = length[m]
      BY <2>1
    <2>4. length' \in [Lists -> Nat]
      BY <2>1, <2>2
    <2>5. Len(d[l]) + over[l] = length[l] + n /\ Len(d[x]) + over[x] = length[x] - n
      BY <1>4, <1>5 DEF n
    <2> QED
      BY <1>4, <1>5, <2>3, <2>4, <2>5
  <1>7. Holds(d, over)'
    BY <1>1, <1>2, <1>3, <1>6, TransferHolds
  <1>8. d \in Contents
    BY <1>1 DEF Rearranged
  <1> QED
    BY <1>7, <1>8 DEF d

(* Within a list the piece goes to the back or to the front: either way it *)
(* changes places with the items that it passes.                           *)
LEMMA WithinHolds ==
  ASSUME NEW c \in Contents, NEW over, Holds(c, over), NEW l \in Lists, NEW p, NEW a, NEW b, Between(c, l, p, l, a, b),
         NEW t, IF p < a THEN Swapped(c[l], t, p, a, b) ELSE Swapped(c[l], t, a, b, p),
         Transfer(Node(c[l], l, p), c[l][a], Node(c[l], l, b)), length' = length
  PROVE  [c EXCEPT ![l] = t] \in Contents /\ Holds([c EXCEPT ![l] = t], over)'
  <1> DEFINE d == [c EXCEPT ![l] = t]
  <1>1. /\ Len(c[l]) \in Nat /\ p \in 1 .. Len(c[l]) + 1 /\ a \in 1 .. Len(c[l]) /\ b \in 1 .. Len(c[l]) + 1
        /\ a < b /\ (p < a \/ b < p)
    BY ContentsType DEF Between
  <1>2. p < a => Blocks(c[l], p, a, b)
    BY <1>1 DEF Blocks
  <1>3. ~(p < a) => Blocks(c[l], a, b, p)
    BY <1>1 DEF Blocks
  <1>4. d \in Contents /\ \A m \in Lists, i \in Items : Holder(d, i, m) <=> Holder(c, i, m)
    <2>1. CASE p < a
      BY <1>2, <2>1, WithinContents
    <2>2. CASE ~(p < a)
      BY <1>3, <2>2, WithinContents
    <2> QED
      BY <2>1, <2>2
  <1>5. /\ length' \in [Lists -> Nat] => PointerType'
        /\ Edge(Node(c[l], l, p - 1), Node(c[l], l, a))'
        /\ Edge(Node(c[l], l, b - 1), Node(c[l], l, p))'
        /\ Edge(Node(c[l], l, a - 1), Node(c[l], l, b))'
        /\ Kept(c, l, p, l, a, b)'
        /\ on' = on /\ \A n \in Nodes : owner'[n] = IF Moving(c, l, a, b, n) THEN l ELSE owner[n]
    BY TransferStep DEF Kept
  <1>6. \A k \in 0 .. Len(c[l]) : k # p - 1 /\ k # a - 1 /\ k # b - 1
          => Edge(Node(c[l], l, k), Node(c[l], l, k + 1))'
    BY <1>5 DEF Kept
  <1>7. Closed(t, l)'
    <2>1. CASE p < a
      BY <1>2, <1>5, <1>6, <2>1, WithinClosed
    <2>2. CASE ~(p < a)
      BY <1>3, <1>5, <1>6, <2>2, WithinClosed
    <2> QED
      BY <2>1, <2>2
  <1>8. d[l] = t /\ (\A m \in Lists \ {l} : d[m] = c[m]) /\ Len(t) = Len(c[l])
    BY DEF Contents, Swapped
  <1> HIDE DEF d
  <1>9. \A m \in Lists : Closed(d[m], m)'
    <2>1. ASSUME NEW m \in Lists, m # l PROVE Closed(c[m], m)'
      BY <1>5, <2>1 DEF Kept, Closed
    <2> QED
      BY <1>7, <1>8, <2>1
  <1>10. Rearranged(c, d, l, l, a, b)
    <2>1. ASSUME NEW m \in Lists, NEW i \in Items, Moving(c, l, a, b, i) PROVE Holder(c, i, m) <=> m = l
      <3>1. Holder(c, i, l)
        BY <1>1, <2>1 DEF Moving, Holder
      <3> QED
        BY <3>1 DEF Holder, Contents, Distinct
    <2> QED
      BY <1>4, <2>1 DEF Rearranged
  <1>11. PointerType' /\ \A m \in Lists : length'[m] = Len(d[m]) + over[m]
    <2>1. length' \in [Lists -> Nat] /\ \A m \in Lists : length'[m] = Len(c[m]) + over[m]
      BY DEF Holds, PointerType
    <2> QED
      BY <1>5, <1>8, <2>1
  <1>12. Holds(d, over)'
    BY <1>5, <1>9, <1>10, <1>11, TransferHolds
  <1> QED
    BY <1>4, <1>12 DEF d

-----------------------------------------------------------------------------
(* The operators of ListSpec, position by position.                        *)

PutAt(s, p, t) == SubSeq(s, 1, p - 1) \o t \o SubSeq(s, p, Len(s))

LEMMA Segment ==
  ASSUME NEW s \in Seq(Items), NEW m \in 1 .. Len(s) + 1, NEW n \in m - 1 .. Len(s)
  PROVE  /\ SubSeq(s, m, n) \in Seq(Items) /\ Len(SubSeq(s, m, n)) = n - m + 1
         /\ \A k \in 1 .. n - m + 1 : SubSeq(s, m, n)[k] = s[m + k - 1]
  <1>1. m \in Int /\ n \in Int /\ Len(s) \in Nat /\ n - m + 1 \in Nat
    BY LenProperties
  <1>2. \A k \in m .. n : s[k] \in Items
    <2>1. \A k \in m .. n : k \in 1 .. Len(s)
      BY <1>1
    <2> QED
      BY <2>1, ElementOfSeq
  <1>3. /\ SubSeq(s, m, n) \in Seq(Items)
        /\ Len(SubSeq(s, m, n)) = IF m <= n THEN n - m + 1 ELSE 0
        /\ \A k \in 1 .. n - m + 1 : SubSeq(s, m, n)[k] = s[m + k - 1]
    BY <1>1, <1>2, SubSeqProperties
  <1>4. (IF m <= n THEN n - m + 1 ELSE 0) = n - m + 1
    BY <1>1
  <1> QED
    BY <1>3, <1>4

Assembled(r, s, p, t) ==
  /\ r \in Seq(Items) /\ Len(r) = Len(s) + Len(t)
  /\ \A k \in 1 .. Len(s) + Len(t) :
       r[k] = IF k < p THEN s[k] ELSE IF k < p + Len(t) THEN t[1 + (k - p)] ELSE s[k - Len(t)]

LEMMA PutAtIs ==
  ASSUME NEW s \in Seq(Items), NEW t \in Seq(Items), NEW p \in 1 .. Len(s) + 1
  PROVE  Assembled(PutAt(s, p, t), s, p, t)
  <1> DEFINE u == SubSeq(s, 1, p - 1)
             v == SubSeq(s, p, Len(s))
             n == Len(s)
             m == Len(t)
  <1>1. n \in Nat /\ m \in Nat /\ p \in 1 .. n + 1 /\ p - 1 \in 1 - 1 .. Len(s) /\ 1 \in 1 .. Len(s) + 1
        /\ n \in p - 1 .. Len(s)
    BY LenProperties
  <1>2. /\ u \in Seq(Items) /\ Len(u) = (p - 1) - 1 + 1 /\ \A k \in 1 .. (p - 1) - 1 + 1 : u[k] = s[1 + k - 1]
    BY <1>1, Segment
  <1>3. /\ v \in Seq(Items) /\ Len(v) = n - p + 1 /\ \A k \in 1 .. n - p + 1 : v[k] = s[p + k - 1]
    BY <1>1, Segment
  <1>4. /\ u \o t \in Seq(Items) /\ Len(u \o t) = Len(u) + m
        /\ \A k \in 1 .. Len(u) + m : (u \o t)[k] = IF k <= Len(u) THEN u[k] ELSE t[k - Len(u)]
    BY <1>2, ConcatProperties
  <1> DEFINE r == u \o t
  <1> HIDE DEF r
  <1>5. /\ r \o v \in Seq(Items) /\ Len(r \o v) = Len(r) + Len(v)
        /\ \A k \in 1 .. Len(r) + Len(v) : (r \o v)[k] = IF k <= Len(r) THEN r[k] ELSE v[k - Len(r)]
    <2>1. r \in Seq(Items)
      BY <1>4 DEF r
    <2> HIDE DEF v
    <2> QED
      BY <1>3, <2>1, ConcatProperties
  <1>6. PutAt(s, p, t) = r \o v
    BY DEF PutAt, r
  <1>7. Len(r) = p - 1 + m /\ \A k \in 1 .. p - 1 + m : r[k] = IF k <= p - 1 THEN u[k] ELSE t[k - (p - 1)]
    BY <1>1, <1>2, <1>4 DEF r
  <1> HIDE DEF u, v, n, m
  <1>8. Len(r) + Len(v) = n + m
    BY <1>1, <1>3, <1>7
  <1>9. ASSUME NEW k \in 1 .. n + m
        PROVE  (r \o v)[k] = IF k < p THEN s[k] ELSE IF k < p + m THEN t[1 + (k - p)] ELSE s[k - m]
    <2>1. CASE k < p
      <3>1. k <= Len(r) /\ k \in 1 .. p - 1 + m /\ k <= p - 1 /\ k \in 1 .. (p - 1) - 1 + 1 /\ 1 + k - 1 = k
        BY <1>1, <1>7, <2>1
      <3> QED
        BY <1>2, <1>5, <1>7, <1>8, <2>1, <3>1
    <2>2. CASE ~(k < p) /\ k < p + m
      <3>1. k <= Len(r) /\ k \in 1 .. p - 1 + m /\ ~(k <= p - 1) /\ k - (p - 1) = 1 + (k - p)
        BY <1>1, <1>7, <2>2
      <3> QED
        BY <1>5, <1>7, <1>8, <2>2, <3>1
    <2>3. CASE ~(k < p) /\ ~(k < p + m)
      <3>1. /\ ~(k <= Len(r)) /\ k - Len(r) \in 1 .. n - p + 1 /\ p + (k - Len(r)) - 1 = k - m
        BY <1>1, <1>7, <2>3
      <3>2. v[k - Len(r)] = s[p + (k - Len(r)) - 1]
        BY <1>3, <3>1
      <3> QED
        BY <1>5, <1>8, <2>3, <3>1, <3>2
    <2> QED
      BY <2>1, <2>2, <2>3
  <1> QED
    BY <1>5, <1>6, <1>8, <1>9 DEF n, m, Assembled

LEMMA PutOne ==
  ASSUME NEW s \in Seq(Items), NEW i \in Items, NEW p \in 0 .. Len(s)
  PROVE  Inserted(s, PutAt(s, p + 1, <<i>>), p, i)
  <1> DEFINE t == <<i>>
             r == PutAt(s, p + 1, t)
  <1>1. t \in Seq(Items) /\ Len(t) = 1 /\ t[1] = i
    OBVIOUS
  <1>2. Len(s) \in Nat /\ p + 1 \in 1 .. Len(s) + 1
    BY LenProperties
  <1> HIDE DEF t
  <1>3. /\ r \in Seq(Items) /\ Len(r) = Len(s) + 1
        /\ \A k \in 1 .. Len(s) + 1 :
             r[k] = IF k < p + 1 THEN s[k] ELSE IF k < p + 1 + 1 THEN t[1 + (k - (p + 1))] ELSE s[k - 1]
    <2>1. /\ r \in Seq(Items) /\ Len(r) = Len(s) + Len(t)
          /\ \A k \in 1 .. Len(s) + Len(t) :
               r[k] = IF k < p + 1 THEN s[k] ELSE IF k < p + 1 + Len(t) THEN t[1 + (k - (p + 1))]
                      ELSE s[k - Len(t)]
      <3> DEFINE q == p + 1
      <3>1. q \in 1 .. Len(s) + 1
        BY <1>2
      <3> HIDE DEF q
      <3>2. Assembled(PutAt(s, q, t), s, q, t)
        BY <1>1, <3>1, PutAtIs
      <3> QED
        BY <3>2 DEF q, Assembled
    <2> HIDE DEF r
    <2> QED
      BY <1>1, <2>1
  <1> HIDE DEF r
  <1>4. ASSUME NEW k \in 1 .. Len(s) + 1
        PROVE  r[k] = IF k <= p THEN s[k] ELSE IF k = p + 1 THEN i ELSE s[k - 1]
    <2>1. CASE k <= p
      BY <1>2, <1>3, <2>1, SMTT(40)
    <2>2. CASE k = p + 1
      <3>1. 1 + (k - (p + 1)) = 1 /\ ~(k < p + 1) /\ k < p + 1 + 1 /\ ~(k <= p)
        BY <2>2
      <3> QED
        BY <1>1, <1>3, <2>2, <3>1
    <2>3. CASE k > p + 1
      BY <1>2, <1>3, <2>3
    <2> QED
      BY <2>1, <2>2, <2>3
  <1> QED
    BY <1>3, <1>4 DEF Inserted, r, t

LEMMA AppendIs ==
  ASSUME NEW s \in Seq(Items), NEW i \in Items
  PROVE  Inserted(s, Append(s, i), Len(s), i)
  <1>1. /\ Append(s, i) \in Seq(Items) /\ Len(Append(s, i)) = Len(s) + 1
        /\ \A k \in 1 .. Len(s) : Append(s, i)[k] = s[k]
        /\ Append(s, i)[Len(s) + 1] = i
    BY AppendProperties
  <1> DEFINE t == Append(s, i)
  <1> HIDE DEF t
  <1>2. /\ t \in Seq(Items) /\ Len(t) = Len(s) + 1 /\ Len(s) \in Nat
        /\ \A k \in 1 .. Len(s) : t[k] = s[k]
        /\ t[Len(s) + 1] = i
    BY <1>1, LenProperties DEF t
  <1>3. Inserted(s, t, Len(s), i)
    BY <1>2 DEF Inserted
  <1> QED
    BY <1>3 DEF t

LEMMA ConsIs ==
  ASSUME NEW s \in Seq(Items), NEW i \in Items
  PROVE  Inserted(s, <<i>> \o s, 0, i)
  <1> DEFINE u == <<i>>
  <1>1. u \in Seq(Items) /\ Len(u) = 1 /\ u[1] = i /\ Len(s) \in Nat
    BY LenProperties
  <1> HIDE DEF u
  <1>2. /\ u \o s \in Seq(Items) /\ Len(u \o s) = Len(u) + Len(s)
        /\ \A k \in 1 .. Len(u) + Len(s) : (u \o s)[k] = IF k <= Len(u) THEN u[k] ELSE s[k - Len(u)]
    BY <1>1, ConcatProperties
  <1> DEFINE t == u \o s
  <1> HIDE DEF t
  <1>3. /\ t \in Seq(Items) /\ Len(t) = Len(s) + 1
        /\ \A k \in 1 .. Len(s) + 1 : t[k] = IF k <= 1 THEN u[k] ELSE s[k - 1]
    BY <1>1, <1>2 DEF t
  <1>4. Inserted(s, t, 0, i)
    BY <1>1, <1>3 DEF Inserted
  <1> QED
    BY <1>4 DEF t, u

LEMMA CutIs ==
  ASSUME NEW s \in Seq(Items), NEW a \in 1 .. Len(s), NEW b \in 1 .. Len(s) + 1, a < b
  PROVE  MovedOut(s, SubSeq(s, 1, a - 1) \o SubSeq(s, b, Len(s)), a, b)
  <1> DEFINE u == SubSeq(s, 1, a - 1)
             v == SubSeq(s, b, Len(s))
             n == Len(s)
             w == u \o v
  <1>1. n \in Nat /\ a - 1 \in 1 - 1 .. Len(s) /\ 1 \in 1 .. Len(s) + 1 /\ n \in b - 1 .. Len(s)
    BY LenProperties
  <1>2. u \in Seq(Items) /\ Len(u) = (a - 1) - 1 + 1 /\ \A k \in 1 .. (a - 1) - 1 + 1 : u[k] = s[1 + k - 1]
    BY <1>1, Segment
  <1>3. v \in Seq(Items) /\ Len(v) = n - b + 1 /\ \A k \in 1 .. n - b + 1 : v[k] = s[b + k - 1]
    BY <1>1, Segment
  <1> HIDE DEF u, v
  <1>4. /\ w \in Seq(Items) /\ Len(w) = Len(u) + Len(v)
        /\ \A k \in 1 .. Len(u) + Len(v) : w[k] = IF k <= Len(u) THEN u[k] ELSE v[k - Len(u)]
    BY <1>2, <1>3, ConcatProperties
  <1> HIDE DEF w, n
  <1>5. Len(u) = a - 1 /\ Len(v) = n - b + 1 /\ Len(u) + Len(v) = n - (b - a)
    BY <1>1, <1>2, <1>3
  <1>6. ASSUME NEW k \in 1 .. n - (b - a) PROVE w[k] = IF k < a THEN s[k] ELSE s[k + (b - a)]
    <2>1. CASE k < a
      <3>1. k <= Len(u) /\ k \in 1 .. (a - 1) - 1 + 1 /\ 1 + k - 1 = k
        BY <1>5, <2>1
      <3> QED
        BY <1>2, <1>4, <1>5, <2>1, <3>1
    <2>2. CASE ~(k < a)
      <3>1. ~(k <= Len(u)) /\ k - Len(u) \in 1 .. n - b + 1 /\ b + (k - Len(u)) - 1 = k + (b - a)
        BY <1>1, <1>5, <2>2
      <3>2. v[k - Len(u)] = s[b + (k - Len(u)) - 1]
        BY <1>3, <3>1
      <3> QED
        BY <1>4, <1>5, <2>2, <3>1, <3>2
    <2> QED
      BY <2>1, <2>2
  <1> QED
    BY <1>4, <1>5, <1>6 DEF MovedOut, n, w, u, v

LEMMA CutOne ==
  ASSUME NEW s \in Seq(Items), NEW k \in 1 .. Len(s)
  PROVE  TakenOff(s, SubSeq(s, 1, k - 1) \o SubSeq(s, k + 1, Len(s)), k)
  <1> DEFINE t == SubSeq(s, 1, k - 1) \o SubSeq(s, k + 1, Len(s))
  <1>1. Len(s) \in Nat /\ k + 1 \in 1 .. Len(s) + 1 /\ k < k + 1 /\ (k + 1) - k = 1
    BY LenProperties
  <1>2. MovedOut(s, t, k, k + 1)
    BY <1>1, CutIs
  <1> HIDE DEF t
  <1>3. TakenOff(s, t, k)
    BY <1>1, <1>2 DEF MovedOut, TakenOff
  <1> QED
    BY <1>3 DEF t

LEMMA EndsIs ==
  ASSUME NEW s \in Seq(Items), s # <<>>
  PROVE  /\ 1 \in 1 .. Len(s) /\ Len(s) \in 1 .. Len(s)
         /\ TakenOff(s, Tail(s), 1) /\ TakenOff(s, SubSeq(s, 1, Len(s) - 1), Len(s))
  <1> DEFINE t == Tail(s)
             f == SubSeq(s, 1, Len(s) - 1)
  <1>1. Len(s) \in Nat \ {0}
    BY EmptySeq
  <1>2. t \in Seq(Items) /\ Len(t) = Len(s) - 1 /\ \A k \in 1 .. Len(t) : t[k] = s[k + 1]
    BY HeadTailProperties
  <1>3. /\ f \in Seq(Items) /\ Len(f) = (Len(s) - 1) - 1 + 1
        /\ \A k \in 1 .. (Len(s) - 1) - 1 + 1 : f[k] = s[1 + k - 1]
    <2>1. 1 \in 1 .. Len(s) + 1 /\ Len(s) - 1 \in 1 - 1 .. Len(s)
      BY <1>1
    <2> QED
      BY <2>1, Segment
  <1> HIDE DEF t, f
  <1>4. Len(f) = Len(s) - 1 /\ \A k \in 1 .. Len(s) - 1 : f[k] = s[k]
    BY <1>1, <1>3
  <1>5. TakenOff(s, t, 1) /\ TakenOff(s, f, Len(s))
    BY <1>1, <1>2, <1>3, <1>4 DEF TakenOff
  <1> QED
    BY <1>1, <1>5 DEF t, f

-----------------------------------------------------------------------------
(* The calls: what each makes of the sequences.                            *)

Becomes(d, over) == d \in Contents /\ Holds(d, over)'

LEMMA Placed ==
  ASSUME NEW c \in Contents, NEW over, Holds(c, over), NEW l \in Lists, NEW pos, pos = l \/ OnPath(Forward(l), pos)
  PROVE  \E p \in 1 .. Len(c[l]) + 1 : pos = Node(c[l], l, p)
  <1>1. Forward(l) = c[l] /\ Len(c[l]) \in Nat /\ DOMAIN c[l] = 1 .. Len(c[l])
    BY ForwardIs, ContentsType
  <1>2. CASE pos = l
    <2>1. Len(c[l]) + 1 \in 1 .. Len(c[l]) + 1 /\ Node(c[l], l, Len(c[l]) + 1) = l
      BY <1>1 DEF Node
    <2> QED
      BY <1>2, <2>1
  <1>3. CASE OnPath(Forward(l), pos)
    <2>1. PICK k \in 1 .. Len(c[l]) : c[l][k] = pos
      BY <1>1, <1>3 DEF OnPath
    <2>2. k \in 1 .. Len(c[l]) + 1 /\ Node(c[l], l, k) = pos
      BY <1>1, <2>1 DEF Node
    <2> QED
      BY <2>2
  <1> QED
    BY <1>2, <1>3

LEMMA PutBeforeIs ==
  ASSUME NEW s \in Seq(Items), \A j, k \in 1 .. Len(s) : s[j] = s[k] => j = k,
         NEW p \in 1 .. Len(s) + 1, NEW pos, NEW t,
         IF p \in 1 .. Len(s) THEN s[p] = pos ELSE \A k \in 1 .. Len(s) : s[k] # pos
  PROVE  A!PutBefore(s, pos, t) = PutAt(s, p, t)
  <1>1. Len(s) \in Nat /\ DOMAIN s = 1 .. Len(s)
    BY LenProperties
  <1> DEFINE q == IF A!Contains(s, pos) THEN CHOOSE k \in DOMAIN s : s[k] = pos ELSE Len(s) + 1
  <1>2. q = p
    <2>1. CASE p \in 1 .. Len(s)
      <3>1. A!Contains(s, pos)
        BY <2>1 DEF A!Contains
      <3>2. \A k \in DOMAIN s : s[k] = pos <=> k = p
        BY <1>1, <2>1
      <3> QED
        BY <1>1, <2>1, <3>1, <3>2
    <2>2. CASE p \notin 1 .. Len(s)
      <3>1. ~A!Contains(s, pos)
        BY <2>2 DEF A!Contains
      <3> QED
        BY <1>1, <2>2, <3>1
    <2> QED
      BY <2>1, <2>2
  <1>3. A!PutBefore(s, pos, t) = PutAt(s, q, t)
    BY DEF A!PutBefore, PutAt
  <1> QED
    BY <1>2, <1>3

LEMMA PutBeforeNode ==
  ASSUME NEW c \in Contents, NEW l \in Lists, NEW p \in 1 .. Len(c[l]) + 1, NEW t
  PROVE  A!PutBefore(c[l], Node(c[l], l, p), t) = PutAt(c[l], p, t)
  <1>1. /\ c[l] \in Seq(Items) /\ \A k \in 1 .. Len(c[l]) : c[l][k] # l
        /\ \A j, k \in 1 .. Len(c[l]) : c[l][j] = c[l][k] => j = k
    BY ContentsType DEF Contents, Distinct
  <1>2. IF p \in 1 .. Len(c[l]) THEN c[l][p] = Node(c[l], l, p)
        ELSE \A k \in 1 .. Len(c[l]) : c[l][k] # Node(c[l], l, p)
    BY <1>1 DEF Node
  <1> QED
    BY <1>1, <1>2, PutBeforeIs

LEMMA AppendBecomes ==
  ASSUME NEW c \in Contents, NEW over, Holds(c, over), NEW l \in Lists, NEW i \in Items, AppendItem(l, i)
  PROVE  Becomes([c EXCEPT ![l] = Append(c[l], i)], over)
  <1>1. c[l] \in Seq(Items) /\ Len(c[l]) \in 0 .. Len(c[l]) /\ Node(c[l], l, Len(c[l]) + 1) = l
    BY ContentsType DEF Node
  <1>2. Inserted(c[l], Append(c[l], i), Len(c[l]), i)
    BY <1>1, AppendIs
  <1>3. Free(i) /\ LinkBefore(Node(c[l], l, Len(c[l]) + 1), i) /\ Grow(l) /\ Attach(l, i)
    BY <1>1 DEF AppendItem
  <1> QED
    BY <1>1, <1>2, <1>3, OneMoreHolds DEF Becomes

LEMMA PrependBecomes ==
  ASSUME NEW c \in Contents, NEW over, Holds(c, over), NEW l \in Lists, NEW i \in Items, Prepend(l, i)
  PROVE  Becomes([c EXCEPT ![l] = <<i>> \o c[l]], over)
  <1>1. c[l] \in Seq(Items) /\ 0 \in 0 .. Len(c[l]) /\ Node(c[l], l, 0) = l
    BY ContentsType DEF Node
  <1>2. Inserted(c[l], <<i>> \o c[l], 0, i)
    BY <1>1, ConsIs
  <1>3. Free(i) /\ LinkAfter(Node(c[l], l, 0), i) /\ Grow(l) /\ Attach(l, i)
    BY <1>1 DEF Prepend
  <1> QED
    BY <1>1, <1>2, <1>3, OneMoreHolds DEF Becomes

LEMMA InsertPosBecomes ==
  ASSUME NEW c \in Contents, NEW over, Holds(c, over), NEW l \in Lists, NEW pos \in Nodes, NEW i \in Items,
         InsertPos(l, pos, i)
  PROVE  Becomes([c EXCEPT ![l] = A!PutBefore(c[l], pos, <<i>>)], over)
  <1>1. PICK p \in 1 .. Len(c[l]) + 1 : pos = Node(c[l], l, p)
    BY Placed DEF InsertPos
  <1>2. A!PutBefore(c[l], pos, <<i>>) = PutAt(c[l], p, <<i>>)
    BY <1>1, PutBeforeNode
  <1>3. c[l] \in Seq(Items) /\ p - 1 \in 0 .. Len(c[l]) /\ (p - 1) + 1 = p
    BY ContentsType
  <1>4. Inserted(c[l], PutAt(c[l], p, <<i>>), p - 1, i)
    BY <1>3, PutOne
  <1>5. Free(i) /\ LinkBefore(Node(c[l], l, (p - 1) + 1), i) /\ Grow(l) /\ Attach(l, i)
    BY <1>1, <1>3 DEF InsertPos
  <1> DEFINE t == PutAt(c[l], p, <<i>>)
  <1> HIDE DEF t
  <1>6. Becomes([c EXCEPT ![l] = t], over)
    <2>1. Inserted(c[l], t, p - 1, i)
      BY <1>4 DEF t
    <2> QED
      BY <1>3, <1>5, <2>1, OneMoreHolds DEF Becomes
  <1> QED
    BY <1>2, <1>6 DEF t

LEMMA Remainder ==
  ASSUME NEW i \in Nat, NEW n \in Nat, n > 0
  PROVE  i % n \in 0 .. n - 1 /\ (i < n => i % n = i)
  <1>1. i % n \in 0 .. n - 1
    OBVIOUS
  <1>2. i < n => i % n = i
    OBVIOUS
  <1> QED
    BY <1>1, <1>2

(* The ring of the sentinel and the items, in which an insert walks.        *)
LEMMA RingPlace ==
  ASSUME NEW c \in Contents, NEW over, Holds(c, over), NEW l \in Lists, NEW idx \in Nat
  PROVE  \E p \in 0 .. Len(c[l]) :
           /\ (<<l>> \o Forward(l))[1 + (idx % Len(<<l>> \o Forward(l)))] = Node(c[l], l, p)
           /\ idx <= Len(c[l]) => p = idx
  <1>1. Forward(l) = c[l] /\ c[l] \in Seq(Items) /\ Len(c[l]) \in Nat
    BY ForwardIs, ContentsType
  <1> DEFINE ring == <<l>> \o c[l]
             n == Len(c[l]) + 1
  <1>2. Len(ring) = n /\ \A k \in 1 .. n : ring[k] = Node(c[l], l, k - 1)
    <2>1. <<l>> \in Seq(Nodes) /\ c[l] \in Seq(Nodes) /\ Len(<<l>>) = 1 /\ <<l>>[1] = l
      BY <1>1 DEF Nodes
    <2>2. Len(ring) = n
      BY <1>1, <2>1
    <2>3. ASSUME NEW k \in 1 .. n PROVE ring[k] = IF k = 1 THEN l ELSE c[l][k - 1]
      BY <1>1, <2>1, <2>3
    <2> QED
      BY <1>1, <2>2, <2>3 DEF Node
  <1>3. PICK q : q = idx % n
    OBVIOUS
  <1>4. q \in 0 .. Len(c[l]) /\ (idx <= Len(c[l]) => q = idx)
    <2>1. n \in Nat /\ n > 0
      BY <1>1
    <2>2. idx % n \in 0 .. n - 1 /\ (idx < n => idx % n = idx)
      <3> HIDE DEF n
      <3> QED
        BY <2>1, Remainder
    <2>3. n - 1 = Len(c[l]) /\ (idx <= Len(c[l]) => idx < n)
      BY <1>1
    <2> HIDE DEF n
    <2> QED
      BY <1>3, <2>2, <2>3
  <1>5. ring[1 + (idx % Len(ring))] = ring[1 + q]
    BY <1>2, <1>3
  <1>6. 1 + q \in 1 .. n /\ (1 + q) - 1 = q
    BY <1>1, <1>4
  <1>7. ring[1 + q] = Node(c[l], l, q)
    <2> HIDE DEF ring, n
    <2> QED
      BY <1>2, <1>6
  <1> QED
    BY <1>1, <1>4, <1>5, <1>7

Counted(over, l, idx) == IF idx = 0 THEN [over EXCEPT ![l] = @ + 1] ELSE over
With(c, l, p, i) == [c EXCEPT ![l] = PutAt(c[l], p + 1, <<i>>)]

LEMMA InsertBecomes ==
  ASSUME NEW c \in Contents, NEW over, Holds(c, over), NEW l \in Lists, NEW i \in Items, NEW idx \in Nat,
         Insert(l, i, idx)
  PROVE  \E p \in 0 .. Len(c[l]) :
           /\ Becomes(With(c, l, p, i), Counted(over, l, idx))
           /\ idx <= Len(c[l]) => p = idx
  <1>1. c[l] \in Seq(Items) /\ Len(c[l]) \in Nat
    BY ContentsType
  <1>2. PICK p \in 0 .. Len(c[l]) :
          /\ (<<l>> \o Forward(l))[1 + (idx % Len(<<l>> \o Forward(l)))] = Node(c[l], l, p)
          /\ idx <= Len(c[l]) => p = idx
    BY RingPlace
  <1>3. Free(i) /\ LinkAfter(Node(c[l], l, p), i) /\ Attach(l, i)
    BY <1>2 DEF Insert
  <1> DEFINE t == PutAt(c[l], p + 1, <<i>>)
  <1>4. Inserted(c[l], t, p, i)
    BY <1>1, PutOne
  <1> HIDE DEF t
  <1>5. CASE idx = 0
    <2>1. PICK more \in Nat : more = 1
      OBVIOUS
    <2>2. length' = [length EXCEPT ![l] = @ + (1 + more)]
      BY <1>5, <2>1 DEF Insert
    <2>3. [c EXCEPT ![l] = t] \in Contents /\ Holds([c EXCEPT ![l] = t], [over EXCEPT ![l] = @ + more])'
      BY <1>3, <1>4, <2>2, InsertHolds
    <2> QED
      BY <1>2, <1>5, <2>1, <2>3 DEF Becomes, Counted, With, t
  <1>6. CASE idx # 0
    <2>1. Grow(l)
      BY <1>6 DEF Insert
    <2>2. [c EXCEPT ![l] = t] \in Contents /\ Holds([c EXCEPT ![l] = t], over)'
      BY <1>3, <1>4, <2>1, OneMoreHolds
    <2> QED
      BY <1>2, <1>6, <2>2 DEF Becomes, Counted, With, t
  <1> QED
    BY <1>5, <1>6

LEMMA RemoveBecomes ==
  ASSUME NEW c \in Contents, NEW over, Holds(c, over), NEW l \in Lists, NEW i \in Nodes, RemoveItem(l, i)
  PROVE  \E k \in DOMAIN c[l] : c[l][k] = i /\ Becomes([c EXCEPT ![l] = A!RemoveAt(c[l], k)], over)
  <1>1. /\ Forward(l) = c[l] /\ c[l] \in Seq(Items) /\ Len(c[l]) \in Nat /\ DOMAIN c[l] = 1 .. Len(c[l])
        /\ \A k \in Int : Node(c[l], l, k) \in Nodes
    BY ForwardIs, ContentsType
  <1>2. PICK k \in 1 .. Len(c[l]) : c[l][k] = i
    BY <1>1 DEF RemoveItem, OnPath
  <1> DEFINE t == SubSeq(c[l], 1, k - 1) \o SubSeq(c[l], k + 1, Len(c[l]))
             u == Node(c[l], l, k - 1)
             v == Node(c[l], l, k + 1)
  <1>3. TakenOff(c[l], t, k)
    BY <1>1, CutOne
  <1>4. A!RemoveAt(c[l], k) = t
    BY DEF A!RemoveAt
  <1> HIDE DEF t
  <1>5. Edge(u, i) /\ Edge(i, v)
    <2>1. k - 1 \in 0 .. Len(c[l]) /\ k \in 0 .. Len(c[l]) /\ (k - 1) + 1 = k /\ Node(c[l], l, k) = i
      BY <1>1, <1>2 DEF Node
    <2> QED
      BY <2>1 DEF Holds, Closed
  <1>6. u \in Nodes /\ v \in Nodes
    BY <1>1
  <1>7. Unhooked(u, i, v)
    <2> HIDE DEF u, v
    <2>1. next[u] = i /\ prev[i] = u /\ next[i] = v /\ prev[v] = i
      BY <1>5 DEF Edge
    <2>2. next' = [next EXCEPT ![u] = v] /\ prev' = [prev EXCEPT ![v] = u]
      BY <2>1 DEF RemoveItem, Unlinked
    <2> QED
      BY <1>6, <2>2 DEF Unhooked, Holds, PointerType
  <1>8. Becomes([c EXCEPT ![l] = t], over)
    <2>1. Unhooked(Node(c[l], l, k - 1), c[l][k], Node(c[l], l, k + 1)) /\ Shrink(l) /\ Detach(c[l][k])
      BY <1>2, <1>7 DEF RemoveItem
    <2> QED
      BY <1>3, <2>1, RemoveHolds DEF Becomes
  <1> QED
    BY <1>1, <1>2, <1>4, <1>8

LEMMA RemoveFirstBecomes ==
  ASSUME NEW c \in Contents, NEW over, Holds(c, over), NEW l \in Lists, RemoveFirst(l)
  PROVE  c[l] # <<>> /\ Becomes([c EXCEPT ![l] = Tail(c[l])], over)
  <1>1. /\ c[l] \in Seq(Items) /\ Len(c[l]) \in Nat
        /\ \A k \in Int : Node(c[l], l, k) \in Nodes
    BY ContentsType
  <1>2. c[l] # <<>>
    <2>1. 0 \in 0 .. Len(c[l]) /\ 0 + 1 = 1 /\ Node(c[l], l, 0) = l
      BY <1>1 DEF Node
    <2>2. next[l] = Node(c[l], l, 1)
      BY <2>1 DEF Holds, Closed, Edge
    <2> QED
      BY <2>2 DEF RemoveFirst, Node
  <1>3. 1 \in 1 .. Len(c[l]) /\ TakenOff(c[l], Tail(c[l]), 1)
    BY <1>1, <1>2, EndsIs
  <1> DEFINE i == c[l][1]
             v == Node(c[l], l, 2)
  <1>4. Edge(l, i) /\ Edge(i, v)
    <2>1. /\ 0 \in 0 .. Len(c[l]) /\ 1 \in 0 .. Len(c[l]) /\ 0 + 1 = 1 /\ 1 + 1 = 2
          /\ Node(c[l], l, 0) = l /\ Node(c[l], l, 1) = i
      BY <1>1, <1>3 DEF Node
    <2>2. \A k \in 0 .. Len(c[l]) : Edge(Node(c[l], l, k), Node(c[l], l, k + 1))
      BY DEF Holds, Closed
    <2> QED
      BY <2>1, <2>2
  <1>5. l \in Nodes /\ v \in Nodes /\ i \in Nodes /\ i # l
    BY <1>1, <1>3, ContentsType DEF Nodes
  <1>6. Unhooked(l, i, v) /\ Shrink(l) /\ Detach(i)
    <2> HIDE DEF i, v
    <2>1. next[l] = i /\ prev[i] = l /\ next[i] = v
      BY <1>4 DEF Edge
    <2>2. /\ next' = [next EXCEPT ![l] = v, ![i] = Null] /\ prev' = [prev EXCEPT ![v] = l, ![i] = Null]
          /\ Shrink(l) /\ Detach(i)
      BY <2>1 DEF RemoveFirst
    <2> QED
      BY <1>5, <2>2 DEF Unhooked, Holds, PointerType
  <1>7. Unhooked(Node(c[l], l, 1 - 1), c[l][1], Node(c[l], l, 1 + 1))
    <2>1. 1 - 1 = 0 /\ 1 + 1 = 2 /\ Node(c[l], l, 0) = l
      BY DEF Node
    <2> QED
      BY <1>6, <2>1
  <1>8. Becomes([c EXCEPT ![l] = Tail(c[l])], over)
    BY <1>3, <1>6, <1>7, RemoveHolds DEF Becomes
  <1> QED
    BY <1>2, <1>8

LEMMA RemoveLastBecomes ==
  ASSUME NEW c \in Contents, NEW over, Holds(c, over), NEW l \in Lists, RemoveLast(l)
  PROVE  c[l] # <<>> /\ Becomes([c EXCEPT ![l] = SubSeq(c[l], 1, Len(c[l]) - 1)], over)
  <1> DEFINE n == Len(c[l])
             i == c[l][n]
             u == Node(c[l], l, n - 1)
             t == SubSeq(c[l], 1, n - 1)
  <1>1. /\ c[l] \in Seq(Items) /\ n \in Nat
        /\ \A k \in Int : Node(c[l], l, k) \in Nodes
    BY ContentsType
  <1>2. c[l] # <<>>
    <2>1. n \in 0 .. n /\ Node(c[l], l, n + 1) = l
      BY <1>1 DEF Node
    <2>2. prev[l] = Node(c[l], l, n)
      BY <2>1 DEF Holds, Closed, Edge
    <2>3. c[l] = <<>> => prev[l] = l
      BY <2>2 DEF Node
    <2> QED
      BY <2>3 DEF RemoveLast
  <1>3. n \in 1 .. n /\ TakenOff(c[l], t, n)
    BY <1>1, <1>2, EndsIs
  <1> HIDE DEF t
  <1>4. Edge(u, i) /\ Edge(i, l)
    <2>1. /\ n - 1 \in 0 .. n /\ n \in 0 .. n /\ (n - 1) + 1 = n
          /\ Node(c[l], l, n) = i /\ Node(c[l], l, n + 1) = l
      BY <1>1, <1>3 DEF Node
    <2>2. \A k \in 0 .. n : Edge(Node(c[l], l, k), Node(c[l], l, k + 1))
      BY DEF Holds, Closed
    <2> QED
      BY <2>1, <2>2
  <1>5. l \in Nodes /\ u \in Nodes /\ i \in Nodes /\ i # l
    BY <1>1, <1>3, ContentsType DEF Nodes
  <1>6. Unhooked(u, i, l) /\ Shrink(l) /\ Detach(i)
    <2> HIDE DEF i, u
    <2>1. prev[l] = i /\ next[i] = l /\ prev[i] = u
      BY <1>4 DEF Edge
    <2>2. /\ next' = [next EXCEPT ![u] = l, ![i] = Null] /\ prev' = [prev EXCEPT ![l] = u, ![i] = Null]
          /\ Shrink(l) /\ Detach(i)
      BY <2>1 DEF RemoveLast
    <2> QED
      BY <1>5, <2>2 DEF Unhooked, Holds, PointerType
  <1>7. Unhooked(Node(c[l], l, n - 1), c[l][n], Node(c[l], l, n + 1)) /\ Detach(c[l][n])
    <2>1. Node(c[l], l, n + 1) = l
      BY <1>1 DEF Node
    <2> QED
      BY <1>6, <2>1
  <1>8. Becomes([c EXCEPT ![l] = t], over)
    BY <1>3, <1>6, <1>7, RemoveHolds DEF Becomes
  <1> QED
    BY <1>2, <1>8 DEF t

(* A part u of r, from the a-th item to the one in front of the b-th.      *)
PartOf(r, u, a, b) ==
  /\ u \in Seq(Items) /\ Len(u) = b - a /\ \A k \in 1 .. b - a : u[k] = r[a + k - 1]

LEMMA PartPutIn ==
  ASSUME NEW s \in Seq(Items), NEW r \in Seq(Items), NEW p \in 1 .. Len(s) + 1, NEW a \in 1 .. Len(r),
         NEW b \in 1 .. Len(r) + 1, a < b, NEW u, PartOf(r, u, a, b)
  PROVE  MovedIn(s, PutAt(s, p, u), p, r, a, b)
  <1> DEFINE t == PutAt(s, p, u)
  <1>1. u \in Seq(Items) /\ Len(u) = b - a /\ Len(s) \in Nat /\ Len(r) \in Nat
    BY LenProperties DEF PartOf
  <1>2. /\ t \in Seq(Items) /\ Len(t) = Len(s) + (b - a)
        /\ \A k \in 1 .. Len(s) + (b - a) :
             t[k] = IF k < p THEN s[k] ELSE IF k < p + (b - a) THEN u[1 + (k - p)] ELSE s[k - (b - a)]
    <2>1. Len(u) \in Nat /\ Len(s) + Len(u) = Len(s) + (b - a)
      BY <1>1
    <2> DEFINE e == Len(u)
    <2>2. /\ t \in Seq(Items) /\ Len(t) = Len(s) + e
          /\ \A k \in 1 .. Len(s) + e :
               t[k] = IF k < p THEN s[k] ELSE IF k < p + e THEN u[1 + (k - p)] ELSE s[k - e]
      <3>1. Assembled(t, s, p, u)
        BY <1>1, PutAtIs
      <3> HIDE DEF t
      <3> QED
        BY <3>1 DEF Assembled
    <2>3. e = b - a
      BY <1>1
    <2> HIDE DEF e, t
    <2> QED
      BY <2>2, <2>3
  <1> HIDE DEF t
  <1>3. ASSUME NEW k \in 1 .. Len(s) + (b - a), ~(k < p), k < p + (b - a) PROVE u[1 + (k - p)] = r[a + (k - p)]
    <2>1. 1 + (k - p) \in 1 .. b - a /\ a + (1 + (k - p)) - 1 = a + (k - p)
      BY <1>1, <1>3
    <2> QED
      BY <2>1 DEF PartOf
  <1>4. \A k \in 1 .. Len(s) + (b - a) :
          t[k] = IF k < p THEN s[k] ELSE IF k < p + (b - a) THEN r[a + (k - p)] ELSE s[k - (b - a)]
    BY <1>2, <1>3
  <1>5. MovedIn(s, t, p, r, a, b)
    BY <1>2, <1>4 DEF MovedIn
  <1> QED
    BY <1>5 DEF t

LEMMA PartPutForward ==
  ASSUME NEW s \in Seq(Items), NEW p, NEW a, NEW b, Blocks(s, p, a, b),
         NEW w, MovedOut(s, w, a, b), NEW u, PartOf(s, u, a, b)
  PROVE  Swapped(s, PutAt(w, p, u), p, a, b)
  <1> DEFINE t == PutAt(w, p, u)
             f == b - a
  <1>1. /\ u \in Seq(Items) /\ Len(u) = f /\ w \in Seq(Items) /\ Len(w) = Len(s) - f /\ Len(s) \in Nat
        /\ p \in Nat /\ a \in Nat /\ b \in Nat /\ 1 <= p /\ p < a /\ a < b /\ b <= Len(s) + 1
    BY LenProperties DEF PartOf, MovedOut, Blocks
  <1>2. p \in 1 .. Len(w) + 1 /\ Len(w) + Len(u) = Len(s) /\ f \in Nat
    BY <1>1
  <1>3. /\ t \in Seq(Items) /\ Len(t) = Len(s)
        /\ \A k \in 1 .. Len(s) :
             t[k] = IF k < p THEN w[k] ELSE IF k < p + f THEN u[1 + (k - p)] ELSE w[k - f]
    <2> DEFINE e == Len(u)
    <2>1. /\ t \in Seq(Items) /\ Len(t) = Len(w) + e
          /\ \A k \in 1 .. Len(w) + e :
               t[k] = IF k < p THEN w[k] ELSE IF k < p + e THEN u[1 + (k - p)] ELSE w[k - e]
      <3>1. w \in Seq(Items) /\ u \in Seq(Items) /\ p \in 1 .. Len(w) + 1
        BY <1>1, <1>2
      <3>2. Assembled(t, w, p, u)
        BY <3>1, PutAtIs
      <3> HIDE DEF t
      <3> QED
        BY <3>2 DEF Assembled
    <2>2. e = f /\ Len(w) + e = Len(s)
      BY <1>1
    <2> HIDE DEF e, f, t
    <2> QED
      BY <1>2, <2>1, <2>2
  <1>4. \A k \in 1 .. f : u[k] = s[a + k - 1]
    BY DEF PartOf
  <1>5. \A k \in 1 .. Len(s) - f : w[k] = IF k < a THEN s[k] ELSE s[k + f]
    BY DEF MovedOut
  <1> HIDE DEF t
  <1>6. ASSUME NEW k \in 1 .. Len(s)
        PROVE  t[k] = IF k < p THEN s[k] ELSE IF k < p + f THEN s[k + (a - p)]
                      ELSE IF k < b THEN s[k - f] ELSE s[k]
    <2>1. CASE k < p
      <3>1. k \in 1 .. Len(s) - f /\ k < a
        BY <1>1, <2>1
      <3>2. t[k] = w[k]
        BY <1>3, <2>1
      <3> QED
        BY <1>5, <2>1, <3>1, <3>2
    <2>2. CASE ~(k < p) /\ k < p + f
      <3>1. 1 + (k - p) \in 1 .. f /\ a + (1 + (k - p)) - 1 = k + (a - p)
        BY <1>1, <2>2
      <3>2. t[k] = u[1 + (k - p)]
        BY <1>3, <2>2
      <3>3. u[1 + (k - p)] = s[k + (a - p)]
        BY <1>4, <3>1
      <3> QED
        BY <2>2, <3>2, <3>3
    <2>3. CASE ~(k < p) /\ ~(k < p + f)
      <3>1. k - f \in 1 .. Len(s) - f /\ (k - f) + f = k /\ (k - f < a <=> k < b)
        BY <1>1, <2>3
      <3>2. t[k] = w[k - f]
        BY <1>3, <2>3
      <3>3. w[k - f] = IF k - f < a THEN s[k - f] ELSE s[(k - f) + f]
        BY <1>5, <3>1
      <3> QED
        BY <2>3, <3>1, <3>2, <3>3
    <2> QED
      BY <2>1, <2>2, <2>3
  <1>7. Swapped(s, t, p, a, b)
    BY <1>3, <1>6 DEF Swapped
  <1> QED
    BY <1>7 DEF t

LEMMA PartPutBackward ==
  ASSUME NEW s \in Seq(Items), NEW p \in 1 .. Len(s) + 1, NEW a \in 1 .. Len(s), NEW b \in 1 .. Len(s),
         a < b, b < p, NEW w, MovedOut(s, w, a, b), NEW u, PartOf(s, u, a, b)
  PROVE  Swapped(s, PutAt(w, p - (b - a), u), a, b, p)
  <1> DEFINE f == b - a
             q == p - f
             t == PutAt(w, q, u)
  <1>1. /\ u \in Seq(Items) /\ Len(u) = f /\ w \in Seq(Items) /\ Len(w) = Len(s) - f /\ Len(s) \in Nat
        /\ p \in Nat /\ a \in Nat /\ b \in Nat /\ 1 <= a /\ a < b /\ b < p /\ p <= Len(s) + 1
    BY LenProperties DEF PartOf, MovedOut
  <1>2. q \in 1 .. Len(w) + 1 /\ Len(w) + Len(u) = Len(s) /\ f \in Nat /\ q + f = p /\ q = a + (p - b)
    BY <1>1
  <1>3. /\ t \in Seq(Items) /\ Len(t) = Len(s)
        /\ \A k \in 1 .. Len(s) :
             t[k] = IF k < q THEN w[k] ELSE IF k < p THEN u[1 + (k - q)] ELSE w[k - f]
    <2> DEFINE e == Len(u)
    <2>1. /\ t \in Seq(Items) /\ Len(t) = Len(w) + e
          /\ \A k \in 1 .. Len(w) + e :
               t[k] = IF k < q THEN w[k] ELSE IF k < q + e THEN u[1 + (k - q)] ELSE w[k - e]
      <3>1. w \in Seq(Items) /\ u \in Seq(Items) /\ q \in 1 .. Len(w) + 1
        BY <1>1, <1>2
      <3> HIDE DEF q
      <3>2. Assembled(t, w, q, u)
        BY <3>1, PutAtIs
      <3> HIDE DEF t
      <3> QED
        BY <3>2 DEF Assembled
    <2>2. e = f /\ Len(w) + e = Len(s) /\ q + e = p
      BY <1>1
    <2> QED
      BY <2>1, <2>2
  <1>4. \A k \in 1 .. f : u[k] = s[a + k - 1]
    BY DEF PartOf
  <1>5. \A k \in 1 .. Len(s) - f : w[k] = IF k < a THEN s[k] ELSE s[k + f]
    BY DEF MovedOut
  <1> HIDE DEF t
  <1>6. ASSUME NEW k \in 1 .. Len(s)
        PROVE  t[k] = IF k < a THEN s[k] ELSE IF k < a + (p - b) THEN s[k + f]
                      ELSE IF k < p THEN s[k - (p - b)] ELSE s[k]
    <2>1. CASE k < q
      <3>1. k \in 1 .. Len(s) - f /\ k < a + (p - b)
        BY <1>1, <2>1
      <3>2. t[k] = w[k]
        BY <1>3, <2>1
      <3>3. w[k] = IF k < a THEN s[k] ELSE s[k + f]
        BY <1>5, <3>1
      <3> QED
        BY <3>1, <3>2, <3>3
    <2>2. CASE ~(k < q) /\ k < p
      <3>1. 1 + (k - q) \in 1 .. f /\ a + (1 + (k - q)) - 1 = k - (p - b) /\ ~(k < a) /\ ~(k < a + (p - b))
        BY <1>1, <2>2
      <3>2. t[k] = u[1 + (k - q)]
        BY <1>3, <2>2
      <3>3. u[1 + (k - q)] = s[k - (p - b)]
        BY <1>4, <3>1
      <3> QED
        BY <2>2, <3>1, <3>2, <3>3
    <2>3. CASE ~(k < q) /\ ~(k < p)
      <3>1. k - f \in 1 .. Len(s) - f /\ (k - f) + f = k /\ ~(k - f < a) /\ ~(k < a) /\ ~(k < a + (p - b))
        BY <1>1, <2>3
      <3>2. t[k] = w[k - f]
        BY <1>3, <2>3
      <3>3. w[k - f] = IF k - f < a THEN s[k - f] ELSE s[(k - f) + f]
        BY <1>5, <3>1
      <3> QED
        BY <2>3, <3>1, <3>2, <3>3
    <2> QED
      BY <2>1, <2>2, <2>3
  <1>7. Swapped(s, t, a, b, p)
    BY <1>3, <1>6 DEF Swapped
  <1> QED
    BY <1>7 DEF t

LEMMA JoinBecomes ==
  ASSUME NEW c \in Contents, NEW over, Holds(c, over), NEW l \in Lists, NEW pos \in Nodes, NEW x \in Lists, Join(l, pos, x)
  PROVE  Becomes([c EXCEPT ![x] = <<>>, ![l] = A!PutBefore(@, pos, c[x])], over)
  <1> DEFINE n == Len(c[x])
  <1>0. Forward(x) = c[x]
    BY ForwardIs
  <1>1. /\ c[l] \in Seq(Items) /\ c[x] \in Seq(Items) /\ n \in Nat /\ length[x] = n
        /\ length \in [Lists -> Nat]
    <2>1. length[x] = Len(Forward(x))
      BY Zenon DEF Join
    <2> QED
      BY <1>0, <2>1, ContentsType DEF Holds, PointerType
  <1>2. /\ l # x /\ n # 0 /\ Transfer(pos, next[x], x)
        /\ length' = [length EXCEPT ![l] = @ + n, ![x] = 0]
    <2>1. /\ l # x /\ length[x] # 0 /\ Transfer(pos, next[x], x)
          /\ length' = [length EXCEPT ![l] = @ + length[x], ![x] = 0]
      BY Zenon DEF Join
    <2>2. length[x] = n
      BY <1>1
    <2> HIDE DEF n
    <2>3. length' = [length EXCEPT ![l] = @ + n, ![x] = 0]
      BY <1>1, <2>1, <2>2, Zenon
    <2> QED
      BY <2>1, <2>2, <2>3, Zenon
  <1>3. PICK p \in 1 .. Len(c[l]) + 1 : pos = Node(c[l], l, p)
    <2>1. pos = l \/ OnPath(Forward(l), pos)
      BY Zenon DEF Join
    <2> QED
      BY <2>1, Placed
  <1>4. n + 1 \in 1 .. n + 1 /\ 1 \in 1 .. n /\ 1 < n + 1 /\ (n + 1) - 1 = n
    BY <1>1, <1>2
  <1>5. next[x] = c[x][1] /\ Node(c[x], x, n + 1) = x
    <2>1. 0 \in 0 .. n /\ 0 + 1 = 1 /\ Node(c[x], x, 0) = x /\ Node(c[x], x, 1) = c[x][1]
      BY <1>4 DEF Node
    <2>2. Edge(Node(c[x], x, 0), Node(c[x], x, 0 + 1))
      BY <2>1 DEF Holds, Closed
    <2>3. Node(c[x], x, n + 1) = x
      BY <1>1 DEF Node
    <2> QED
      BY <2>1, <2>2, <2>3 DEF Edge
  <1>6. A!PutBefore(c[l], pos, c[x]) = PutAt(c[l], p, c[x])
    BY <1>3, PutBeforeNode
  <1>7. PartOf(c[x], c[x], 1, n + 1)
    <2>1. \A k \in 1 .. n : 1 + k - 1 = k
      OBVIOUS
    <2> QED
      BY <1>1, <1>4, <2>1 DEF PartOf
  <1> DEFINE t == PutAt(c[l], p, c[x])
             w == <<>>
  <1>8. MovedIn(c[l], t, p, c[x], 1, n + 1)
    BY <1>1, <1>4, <1>7, PartPutIn
  <1>9. MovedOut(c[x], w, 1, n + 1)
    <2>1. w \in Seq(Items) /\ Len(w) = 0
      OBVIOUS
    <2>2. n - ((n + 1) - 1) = 0
      BY <1>1
    <2> QED
      BY <2>1, <2>2 DEF MovedOut
  <1> HIDE DEF t, w
  <1>10. Between(c, l, p, x, 1, n + 1)
    BY <1>2, <1>4 DEF Between
  <1>11. Transfer(Node(c[l], l, p), c[x][1], Node(c[x], x, n + 1))
    BY <1>2, <1>3, <1>5
  <1>12. length' = [length EXCEPT ![l] = @ + ((n + 1) - 1), ![x] = @ - ((n + 1) - 1)]
    <2>1. length[x] - n = 0
      BY <1>1
    <2> QED
      BY <1>1, <1>2, <1>4, <2>1
  <1>13. Becomes([c EXCEPT ![l] = t, ![x] = w], over)
    <2> HIDE DEF n
    <2> QED
      BY <1>2, <1>8, <1>9, <1>10, <1>11, <1>12, AcrossHolds DEF Becomes
  <1>14. [c EXCEPT ![x] = w, ![l] = A!PutBefore(@, pos, c[x])] = [c EXCEPT ![l] = t, ![x] = w]
    <2>1. A!PutBefore(c[l], pos, c[x]) = t
      BY <1>6 DEF t
    <2> QED
      BY <1>2, <2>1
  <1> QED
    BY <1>13, <1>14 DEF w

(* The part of a list that a splice moves, and the place where it goes.    *)
LEMMA SplicePlaces ==
  ASSUME NEW c \in Contents, NEW over, Holds(c, over), NEW l \in Lists, NEW pos \in Nodes, NEW x \in Lists,
         NEW a \in Nat, NEW b \in Nat, Splice(l, pos, x, a, b)
  PROVE  /\ \E p \in 1 .. Len(c[l]) + 1 : pos = Node(c[l], l, p) /\ Between(c, l, p, x, a, b)
         /\ Transfer(pos, c[x][a], Node(c[x], x, b))
         /\ length' = IF l = x THEN length ELSE [length EXCEPT ![l] = @ + (b - a), ![x] = @ - (b - a)]
         /\ a \in 1 .. Len(c[x]) /\ b \in 1 .. Len(c[x]) + 1 /\ a < b
         /\ PartOf(c[x], SubSeq(c[x], a, b - 1), a, b)
         /\ MovedOut(c[x], SubSeq(c[x], 1, a - 1) \o SubSeq(c[x], b, Len(c[x])), a, b)
  <1>1. /\ Forward(x) = c[x] /\ c[x] \in Seq(Items) /\ c[l] \in Seq(Items)
        /\ Len(c[l]) \in Nat /\ Len(c[x]) \in Nat
    BY ForwardIs, ContentsType
  <1>2. /\ 0 < a /\ a < b /\ b <= Len(c[x]) + 1
        /\ length' = [m \in Lists |-> length[m] + (IF m = l THEN b - a ELSE 0) - (IF m = x THEN b - a ELSE 0)]
        /\ ~OnPath(SubSeq(c[x], a, b - 1), pos)
        /\ Transfer(pos, c[x][a], IF b > Len(c[x]) THEN x ELSE c[x][b])
    BY <1>1 DEF Splice
  <1>3. a \in 1 .. Len(c[x]) /\ b \in 1 .. Len(c[x]) + 1 /\ a < b
    BY <1>1, <1>2
  <1>4. Node(c[x], x, b) = IF b > Len(c[x]) THEN x ELSE c[x][b]
    BY <1>1, <1>3 DEF Node
  <1> DEFINE u == SubSeq(c[x], a, b - 1)
  <1>5. PartOf(c[x], u, a, b)
    <2>1. a \in 1 .. Len(c[x]) + 1 /\ b - 1 \in a - 1 .. Len(c[x]) /\ (b - 1) - a + 1 = b - a
      BY <1>1, <1>3
    <2> QED
      BY <1>1, <2>1, Segment DEF PartOf
  <1>6. DOMAIN u = 1 .. b - a /\ \A k \in 1 .. b - a : u[k] = c[x][a + k - 1]
    BY <1>5, LenProperties DEF PartOf
  <1> HIDE DEF u
  <1>7. MovedOut(c[x], SubSeq(c[x], 1, a - 1) \o SubSeq(c[x], b, Len(c[x])), a, b)
    BY <1>1, <1>3, CutIs
  <1>8. PICK p \in 1 .. Len(c[l]) + 1 : pos = Node(c[l], l, p)
    BY Placed DEF Splice
  <1>9. ~(l = x /\ a <= p /\ p <= b)
    <2> SUFFICES ASSUME l = x, a <= p, p <= b PROVE FALSE
      OBVIOUS
    <2>1. CASE p = b
      BY <1>2, <1>4, <1>8, <2>1 DEF Transfer
    <2>2. CASE p < b
      <3>1. p - a + 1 \in 1 .. b - a /\ a + (p - a + 1) - 1 = p /\ p \in 1 .. Len(c[l])
        BY <1>1, <1>3, <2>2
      <3>2. u[p - a + 1] = c[x][p]
        BY <1>6, <3>1
      <3>3. pos = c[x][p]
        BY <1>8, <3>1 DEF Node
      <3>4. ~OnPath(u, pos)
        BY <1>2 DEF u
      <3> QED
        BY <1>6, <3>1, <3>2, <3>3, <3>4 DEF OnPath
    <2> QED
      BY <1>1, <1>3, <2>1, <2>2
  <1>10. Between(c, l, p, x, a, b)
    BY <1>3, <1>9 DEF Between
  <1>11. Transfer(pos, c[x][a], Node(c[x], x, b))
    BY <1>2, <1>4
  <1>12. length' = IF l = x THEN length ELSE [length EXCEPT ![l] = @ + (b - a), ![x] = @ - (b - a)]
    <2>1. length \in [Lists -> Nat] /\ \A m \in Lists : length[m] \in Int
      BY DEF Holds, PointerType
    <2> DEFINE f == b - a
    <2>2. f \in Int
      OBVIOUS
    <2>3. length' = [m \in Lists |-> length[m] + (IF m = l THEN f ELSE 0) - (IF m = x THEN f ELSE 0)]
      BY <1>2
    <2> HIDE DEF f
    <2>4. CASE l = x
      <3>1. \A m \in Lists : length[m] + (IF m = l THEN f ELSE 0) - (IF m = x THEN f ELSE 0) = length[m]
        BY <2>1, <2>2, <2>4
      <3>2. length' = [m \in Lists |-> length[m]]
        BY <2>3, <3>1
      <3> QED
        BY <2>1, <2>4, <3>2
    <2>5. CASE l # x
      <3>1. \A m \in Lists : length[m] + (IF m = l THEN f ELSE 0) - (IF m = x THEN f ELSE 0)
                                = IF m = l THEN length[m] + f ELSE IF m = x THEN length[m] - f ELSE length[m]
        BY <2>1, <2>2, <2>5
      <3>2. length' = [m \in Lists |-> IF m = l THEN length[m] + f ELSE IF m = x THEN length[m] - f ELSE length[m]]
        BY <2>3, <3>1
      <3>3. length' = [length EXCEPT ![l] = @ + f, ![x] = @ - f]
        BY <2>1, <2>5, <3>2
      <3> QED
        BY <2>5, <3>3 DEF f
    <2> QED
      BY <2>4, <2>5
  <1> QED
    BY <1>2, <1>3, <1>5, <1>7, <1>8, <1>10, <1>11, <1>12 DEF u

LEMMA SpliceAcross ==
  ASSUME NEW c \in Contents, NEW over, Holds(c, over), NEW l \in Lists, NEW x \in Lists, l # x, NEW pos,
         NEW p \in 1 .. Len(c[l]) + 1, NEW a, NEW b, Between(c, l, p, x, a, b), pos = Node(c[l], l, p),
         NEW u, PartOf(c[x], u, a, b), NEW w, MovedOut(c[x], w, a, b),
         Transfer(pos, c[x][a], Node(c[x], x, b)),
         length' = [length EXCEPT ![l] = @ + (b - a), ![x] = @ - (b - a)]
  PROVE  Becomes([c EXCEPT ![l] = A!PutBefore(c[l], pos, u), ![x] = w], over)
  <1> DEFINE t == PutAt(c[l], p, u)
  <1>1. A!PutBefore(c[l], pos, u) = t
    BY PutBeforeNode
  <1>2. MovedIn(c[l], t, p, c[x], a, b)
    BY ContentsType, PartPutIn DEF Between
  <1> HIDE DEF t
  <1>3. Becomes([c EXCEPT ![l] = t, ![x] = w], over)
    BY <1>2, AcrossHolds DEF Becomes
  <1> QED
    BY <1>1, <1>3

LEMMA SpliceWithin ==
  ASSUME NEW c \in Contents, NEW over, Holds(c, over), NEW l \in Lists, NEW pos,
         NEW p \in 1 .. Len(c[l]) + 1, NEW a, NEW b, Between(c, l, p, l, a, b), pos = Node(c[l], l, p),
         NEW u, PartOf(c[l], u, a, b), NEW w, MovedOut(c[l], w, a, b),
         Transfer(pos, c[l][a], Node(c[l], l, b)),
         length' = length
  PROVE  Becomes([c EXCEPT ![l] = A!PutBefore(w, pos, u)], over)
  <1> DEFINE s == c[l]
             f == b - a
             q == IF p < a THEN p ELSE p - f
             t == PutAt(w, q, u)
  <1>1. /\ s \in Seq(Items) /\ Len(s) \in Nat
        /\ \A j, k \in 1 .. Len(s) : s[j] = s[k] => j = k
        /\ \A k \in 1 .. Len(s) : s[k] # l
    <2>1. \A j, k \in 1 .. Len(s) : s[j] = s[k] => j = k
      BY DEF Contents, Distinct
    <2> QED
      BY <2>1, ContentsType
  <1>2. /\ p \in 1 .. Len(s) + 1 /\ a \in 1 .. Len(s) /\ b \in 1 .. Len(s) + 1 /\ a < b
        /\ (p < a \/ b < p) /\ f \in Nat
    BY <1>1 DEF Between
  <1>3. /\ w \in Seq(Items) /\ Len(w) = Len(s) - f
        /\ \A k \in 1 .. Len(s) - f : w[k] = IF k < a THEN s[k] ELSE s[k + f]
    BY DEF MovedOut
  <1>4. /\ q \in 1 .. Len(w) + 1
        /\ \A k \in 1 .. Len(w) : k \in 1 .. Len(s) /\ (~(k < a) => k + f \in 1 .. Len(s))
    BY <1>1, <1>2, <1>3
  <1>5. \A j, k \in 1 .. Len(w) : w[j] = w[k] => j = k
    <2> SUFFICES ASSUME NEW j \in 1 .. Len(w), NEW k \in 1 .. Len(w), w[j] = w[k] PROVE j = k
      OBVIOUS
    <2> DEFINE T(i) == IF i < a THEN i ELSE i + f
    <2>1. w[j] = s[T(j)] /\ w[k] = s[T(k)] /\ T(j) \in 1 .. Len(s) /\ T(k) \in 1 .. Len(s)
      BY <1>3, <1>4
    <2>2. T(j) = T(k)
      <3> HIDE DEF T
      <3> QED
        BY <1>1, <2>1
    <2> QED
      BY <1>2, <2>2
  <1>6. IF q \in 1 .. Len(w) THEN w[q] = pos ELSE \A k \in 1 .. Len(w) : w[k] # pos
    <2>1. CASE q \in 1 .. Len(w)
      <3>1. p \in 1 .. Len(s) /\ (p < a => q < a) /\ (~(p < a) => ~(q < a) /\ q + f = p)
        BY <1>1, <1>2, <1>3, <2>1
      <3>2. w[q] = s[p]
        BY <1>3, <2>1, <3>1
      <3>3. pos = s[p]
        BY <3>1 DEF Node
      <3> QED
        BY <2>1, <3>2, <3>3
    <2>2. CASE q \notin 1 .. Len(w)
      <3>1. p \notin 1 .. Len(s)
        BY <1>1, <1>2, <1>3, <1>4, <2>2
      <3>2. pos = l
        BY <3>1 DEF Node
      <3>3. \A k \in 1 .. Len(w) : w[k] # l
        BY <1>1, <1>3, <1>4
      <3> QED
        BY <2>2, <3>2, <3>3
    <2> QED
      BY <2>1, <2>2
  <1>7. A!PutBefore(w, pos, u) = t
    <2>1. w \in Seq(Items) /\ q \in 1 .. Len(w) + 1
      BY <1>3, <1>4
    <2> HIDE DEF q
    <2> QED
      BY <2>1, <1>5, <1>6, PutBeforeIs
  <1>8. IF p < a THEN Swapped(s, t, p, a, b) ELSE Swapped(s, t, a, b, p)
    <2>1. CASE p < a
      <3>1. Blocks(s, p, a, b)
        BY <1>1, <1>2, <2>1 DEF Blocks
      <3> QED
        BY <1>1, <2>1, <3>1, PartPutForward
    <2>2. CASE ~(p < a)
      <3>1. b < p /\ b \in 1 .. Len(s)
        BY <1>1, <1>2, <2>2
      <3> QED
        BY <1>1, <1>2, <2>2, <3>1, PartPutBackward
    <2> QED
      BY <2>1, <2>2
  <1> HIDE DEF t
  <1>9. Becomes([c EXCEPT ![l] = t], over)
    BY <1>8, WithinHolds DEF Becomes
  <1> QED
    BY <1>7, <1>9

Rest(s, a, b) == SubSeq(s, 1, a - 1) \o SubSeq(s, b, Len(s))
AfterSplice(c, l, pos, x, a, b) ==
  [m \in Lists |-> IF m = l THEN A!PutBefore(IF l = x THEN Rest(c[x], a, b) ELSE c[l], pos, SubSeq(c[x], a, b - 1))
                   ELSE IF m = x THEN Rest(c[x], a, b) ELSE c[m]]

LEMMA SpliceBecomes ==
  ASSUME NEW c \in Contents, NEW over, Holds(c, over), NEW l \in Lists, NEW pos \in Nodes, NEW x \in Lists,
         NEW a \in Nat, NEW b \in Nat, Splice(l, pos, x, a, b)
  PROVE  Becomes(AfterSplice(c, l, pos, x, a, b), over)
  <1>1. PICK p \in 1 .. Len(c[l]) + 1 : pos = Node(c[l], l, p) /\ Between(c, l, p, x, a, b)
    BY SplicePlaces
  <1>2. PICK u : u = SubSeq(c[x], a, b - 1)
    OBVIOUS
  <1>3. PICK w : w = Rest(c[x], a, b)
    OBVIOUS
  <1>4. PICK t : t = A!PutBefore(IF l = x THEN w ELSE c[l], pos, u)
    OBVIOUS
  <1>5. /\ Transfer(pos, c[x][a], Node(c[x], x, b))
        /\ length' = IF l = x THEN length ELSE [length EXCEPT ![l] = @ + (b - a), ![x] = @ - (b - a)]
        /\ PartOf(c[x], u, a, b) /\ MovedOut(c[x], w, a, b)
    BY <1>2, <1>3, SplicePlaces DEF Rest
  <1>6. c \in [Lists -> Seq(Items)]
    BY DEF Contents
  <1>7. AfterSplice(c, l, pos, x, a, b) = [m \in Lists |-> IF m = l THEN t ELSE IF m = x THEN w ELSE c[m]]
    BY <1>2, <1>3, <1>4, Zenon DEF AfterSplice
  <1>8. CASE l # x
    <2>1. Becomes([c EXCEPT ![l] = A!PutBefore(c[l], pos, u), ![x] = w], over)
      BY <1>1, <1>5, <1>8, SpliceAcross
    <2>2. t = A!PutBefore(c[l], pos, u)
      BY <1>4, <1>8
    <2>3. [m \in Lists |-> IF m = l THEN t ELSE IF m = x THEN w ELSE c[m]] = [c EXCEPT ![l] = t, ![x] = w]
      BY <1>6, <1>8
    <2> QED
      BY <1>7, <2>1, <2>2, <2>3, Zenon
  <1>9. CASE l = x
    <2>1. Becomes([c EXCEPT ![l] = A!PutBefore(w, pos, u)], over)
      BY <1>1, <1>5, <1>9, SpliceWithin
    <2>2. t = A!PutBefore(w, pos, u)
      BY <1>4, <1>9
    <2>3. [m \in Lists |-> IF m = l THEN t ELSE IF m = x THEN w ELSE c[m]] = [c EXCEPT ![l] = t]
      BY <1>6, <1>9
    <2> QED
      BY <1>7, <2>1, <2>2, <2>3, Zenon
  <1> QED
    BY <1>8, <1>9

(* What unit_list_sort sets: s is the order of the sorted array.           *)
SortedNext(l, s, n) ==
  IF n = l THEN s[1]
  ELSE IF \E k \in 1 .. Len(s) : s[k] = n
  THEN LET k == CHOOSE k \in 1 .. Len(s) : s[k] = n IN IF k = Len(s) THEN l ELSE s[k + 1]
  ELSE next[n]
SortedPrev(l, s, n) ==
  IF n = l THEN s[Len(s)]
  ELSE IF \E k \in 1 .. Len(s) : s[k] = n
  THEN LET k == CHOOSE k \in 1 .. Len(s) : s[k] = n IN IF k = 1 THEN l ELSE s[k - 1]
  ELSE prev[n]

(* s has the items of t in another order.                                  *)
Permuted(s, t) ==
  /\ s \in Seq(Items) /\ Len(s) = Len(t)
  /\ \A j, k \in 1 .. Len(t) : s[j] = s[k] => j = k
  /\ \A i : (\E k \in 1 .. Len(t) : s[k] = i) <=> (\E k \in 1 .. Len(t) : t[k] = i)

LEMMA PermutedContents ==
  ASSUME NEW c \in Contents, NEW l \in Lists, NEW s, Permuted(s, c[l])
  PROVE  /\ [c EXCEPT ![l] = s] \in Contents
         /\ \A m \in Lists, i \in Items : Holder([c EXCEPT ![l] = s], i, m) <=> Holder(c, i, m)
  <1> DEFINE d == [c EXCEPT ![l] = s]
  <1>1. /\ c \in [Lists -> Seq(Items)] /\ d \in [Lists -> Seq(Items)] /\ d[l] = s
        /\ \A m \in Lists \ {l} : d[m] = c[m]
    BY DEF Contents, Permuted
  <1> HIDE DEF d
  <1>2. \A m \in Lists : Len(d[m]) = Len(c[m])
    BY <1>1 DEF Permuted
  <1>3. \A m \in Lists : \A i : (\E k \in 1 .. Len(d[m]) : d[m][k] = i) <=> (\E k \in 1 .. Len(c[m]) : c[m][k] = i)
    <2> SUFFICES ASSUME NEW m \in Lists, NEW i
                 PROVE  (\E k \in 1 .. Len(d[m]) : d[m][k] = i) <=> (\E k \in 1 .. Len(c[m]) : c[m][k] = i)
      OBVIOUS
    <2>1. CASE m = l
      BY <1>1, <2>1 DEF Permuted
    <2>2. CASE m # l
      BY <1>1, <2>2
    <2> QED
      BY <2>1, <2>2
  <1>4. ASSUME NEW v \in Lists, NEW m \in Lists, NEW j \in 1 .. Len(d[v]), NEW k \in 1 .. Len(d[m]),
               d[v][j] = d[m][k]
        PROVE  v = m /\ j = k
    <2>1. PICK jj \in 1 .. Len(c[v]) : c[v][jj] = d[v][j]
      BY <1>3
    <2>2. PICK kk \in 1 .. Len(c[m]) : c[m][kk] = d[m][k]
      BY <1>3
    <2>3. v = m /\ jj = kk
      BY <1>4, <2>1, <2>2 DEF Contents, Distinct
    <2>4. CASE v = l
      BY <1>1, <1>4, <2>3, <2>4 DEF Permuted
    <2>5. CASE v # l
      BY <1>1, <1>4, <2>3, <2>5 DEF Contents, Distinct
    <2> QED
      BY <2>3, <2>4, <2>5
  <1>5. Distinct(d)
    BY <1>4 DEF Distinct
  <1> QED
    BY <1>1, <1>3, <1>5 DEF Contents, Holder, d

LEMMA SortHolds ==
  ASSUME NEW c \in Contents, NEW over, Holds(c, over), NEW l \in Lists, NEW s, Permuted(s, c[l]), Len(s) # 0,
         next' = [n \in Nodes |-> SortedNext(l, s, n)], prev' = [n \in Nodes |-> SortedPrev(l, s, n)],
         UNCHANGED <<owner, on, length>>
  PROVE  Becomes([c EXCEPT ![l] = s], over)
  <1> DEFINE d == [c EXCEPT ![l] = s]
             n == Len(s)
  <1>1. /\ d \in Contents /\ \A m \in Lists, i \in Items : Holder(d, i, m) <=> Holder(c, i, m)
    BY PermutedContents
  <1>2. /\ d[l] = s /\ \A m \in Lists \ {l} : d[m] = c[m]
    BY DEF Contents
  <1> HIDE DEF d
  <1>3. /\ n \in Nat /\ 1 \in 1 .. n /\ n \in 1 .. n
        /\ \A k \in 1 .. n : s[k] \in Items /\ s[k] \in Nodes /\ s[k] \notin Lists
        /\ \A j, k \in 1 .. n : s[j] = s[k] => j = k
    BY UnitListAssumption, LenProperties DEF Permuted, Nodes
  <1>4. \A k \in 1 .. n : (CHOOSE j \in 1 .. n : s[j] = s[k]) = k
    <2> SUFFICES ASSUME NEW k \in 1 .. n PROVE (CHOOSE j \in 1 .. n : s[j] = s[k]) = k
      OBVIOUS
    <2>1. \A j \in 1 .. n : s[j] = s[k] <=> j = k
      BY <1>3
    <2> HIDE DEF n
    <2> QED
      BY <2>1
  <1>5. ASSUME NEW k \in 1 .. n
        PROVE  /\ next'[s[k]] = Node(s, l, k + 1) /\ prev'[s[k]] = Node(s, l, k - 1)
    <2>1. /\ next'[s[k]] = SortedNext(l, s, s[k]) /\ prev'[s[k]] = SortedPrev(l, s, s[k]) /\ s[k] # l
      BY <1>3
    <2>2. /\ SortedNext(l, s, s[k]) = IF k = n THEN l ELSE s[k + 1]
          /\ SortedPrev(l, s, s[k]) = IF k = 1 THEN l ELSE s[k - 1]
      BY <1>4, <2>1 DEF SortedNext, SortedPrev
    <2>3. /\ (k = n => k + 1 \notin 1 .. n) /\ (k # n => k + 1 \in 1 .. n)
          /\ (k = 1 => k - 1 \notin 1 .. n) /\ (k # 1 => k - 1 \in 1 .. n)
      BY <1>3
    <2> QED
      BY <2>1, <2>2, <2>3 DEF Node
  <1>6. next'[l] = s[1] /\ prev'[l] = s[n]
    BY DEF SortedNext, SortedPrev, Nodes
  <1>7. Closed(s, l)'
    <2> SUFFICES ASSUME NEW k \in 0 .. n PROVE next'[Node(s, l, k)] = Node(s, l, k + 1) /\ prev'[Node(s, l, k + 1)] = Node(s, l, k)
      BY DEF Closed, Edge
    <2>1. next'[Node(s, l, k)] = Node(s, l, k + 1)
      <3>1. CASE k = 0
        BY <1>3, <1>6, <3>1 DEF Node
      <3>2. CASE k # 0
        <4>1. k \in 1 .. n /\ Node(s, l, k) = s[k]
          BY <1>3, <3>2 DEF Node
        <4> QED
          BY <1>5, <4>1
      <3> QED
        BY <3>1, <3>2
    <2>2. prev'[Node(s, l, k + 1)] = Node(s, l, k)
      <3>1. CASE k = n
        <4>1. Node(s, l, k + 1) = l /\ Node(s, l, k) = s[n]
          BY <1>3, <3>1 DEF Node
        <4> QED
          BY <1>6, <4>1
      <3>2. CASE k # n
        <4>1. k + 1 \in 1 .. n /\ (k + 1) - 1 = k
          BY <1>3, <3>2
        <4>2. Node(s, l, k + 1) = s[k + 1]
          BY <4>1 DEF Node
        <4> QED
          BY <1>5, <4>1, <4>2
      <3> QED
        BY <3>1, <3>2
    <2> QED
      BY <2>1, <2>2
  <1>8. ASSUME NEW m \in Lists, m # l, NEW k \in 0 .. Len(c[m]) + 1
        PROVE  /\ Node(c[m], m, k) # l /\ ~\E j \in 1 .. n : s[j] = Node(c[m], m, k)
               /\ Node(c[m], m, k) \in Nodes
    <2>1. Node(c[m], m, k) \in Nodes
      BY ContentsType
    <2>2. CASE k \in 1 .. Len(c[m])
      <3>1. Node(c[m], m, k) = c[m][k] /\ c[m][k] \notin Lists
        BY <2>2, ContentsType DEF Node
      <3>2. ASSUME NEW j \in 1 .. n, s[j] = c[m][k] PROVE FALSE
        <4>1. \E jj \in 1 .. Len(c[l]) : c[l][jj] = s[j]
          BY DEF Permuted
        <4> QED
          BY <1>8, <2>2, <3>2, <4>1 DEF Contents, Distinct
      <3> QED
        BY <2>1, <3>1, <3>2
    <2>3. CASE k \notin 1 .. Len(c[m])
      <3>1. Node(c[m], m, k) = m
        BY <2>3 DEF Node
      <3> QED
        BY <1>3, <1>8, <2>1, <3>1
    <2> QED
      BY <2>2, <2>3
  <1>9. ASSUME NEW m \in Lists, m # l PROVE Closed(c[m], m)'
    <2> SUFFICES ASSUME NEW k \in 0 .. Len(c[m]) PROVE Edge(Node(c[m], m, k), Node(c[m], m, k + 1))'
      BY DEF Closed
    <2>1. k \in 0 .. Len(c[m]) + 1 /\ k + 1 \in 0 .. Len(c[m]) + 1
      BY ContentsType
    <2>2. Edge(Node(c[m], m, k), Node(c[m], m, k + 1))
      BY DEF Holds, Closed
    <2> DEFINE u == Node(c[m], m, k)
               v == Node(c[m], m, k + 1)
    <2>3. /\ u \in Nodes /\ v \in Nodes /\ u # l /\ v # l
          /\ ~(\E j \in 1 .. n : s[j] = u) /\ ~(\E j \in 1 .. n : s[j] = v)
      BY <1>8, <1>9, <2>1
    <2> HIDE DEF u, v
    <2>4. next'[u] = next[u] /\ prev'[v] = prev[v]
      BY <2>3 DEF SortedNext, SortedPrev
    <2> QED
      BY <2>2, <2>4 DEF Edge, u, v
  <1>10. PointerType'
    <2>1. \A u \in Nodes : SortedNext(l, s, u) \in Nodes \cup {Null} /\ SortedPrev(l, s, u) \in Nodes \cup {Null}
      <3> SUFFICES ASSUME NEW u \in Nodes
                   PROVE  next'[u] \in Nodes \cup {Null} /\ prev'[u] \in Nodes \cup {Null}
        OBVIOUS
      <3>1. CASE u = l
        BY <1>3, <1>6, <3>1
      <3>2. CASE \E k \in 1 .. n : s[k] = u
        <4>1. PICK k \in 1 .. n : s[k] = u
          BY <3>2
        <4>2. \A j \in Int : Node(s, l, j) \in Nodes
          BY <1>3 DEF Node, Nodes
        <4> QED
          BY <1>5, <4>1, <4>2
      <3>3. CASE u # l /\ ~\E k \in 1 .. n : s[k] = u
        <4>1. next'[u] = next[u] /\ prev'[u] = prev[u]
          BY <3>3 DEF SortedNext, SortedPrev
        <4> QED
          BY <4>1 DEF Holds, PointerType
      <3> QED
        BY <3>1, <3>2, <3>3
    <2> QED
      BY <2>1 DEF Holds, PointerType
  <1>11. \A m \in Lists : Closed(d[m], m)'
    <2> SUFFICES ASSUME NEW m \in Lists PROVE Closed(d[m], m)'
      OBVIOUS
    <2>1. CASE m = l
      BY <1>2, <1>7, <2>1
    <2>2. CASE m # l
      BY <1>2, <1>9, <2>2
    <2> QED
      BY <2>1, <2>2
  <1>12. \A m \in Lists : length'[m] = Len(d[m]) + over[m] /\ on'[m] = 1 /\ owner'[m] = m
    BY <1>2 DEF Holds, Permuted
  <1>13. \A i \in Items : ItemOK(d, i)'
    BY <1>1 DEF Holds, ItemOK
  <1>14. Holds(d, over)'
    BY <1>10, <1>11, <1>12, <1>13 DEF Holds
  <1> QED
    BY <1>1, <1>14 DEF Becomes, d

LEMMA SortBecomes ==
  ASSUME NEW c \in Contents, NEW over, Holds(c, over), NEW l \in Lists, Sort(l)
  PROVE  \E s \in A!SetToSeqs(A!ToSet(c[l])) :
           /\ \A j, k \in DOMAIN s : j < k => Rank[s[j]] <= Rank[s[k]]
           /\ Becomes([c EXCEPT ![l] = s], over)
  <1> DEFINE t == c[l]
             n == Len(t)
             S == {i \in Items : OnPath(t, i)}
  <1>1. /\ Forward(l) = t /\ t \in Seq(Items) /\ n \in Nat /\ DOMAIN t = 1 .. n /\ length[l] = n
        /\ \A k \in 1 .. n : t[k] \in Items
        /\ \A j, k \in 1 .. n : t[j] = t[k] => j = k
    <2>1. \A j, k \in 1 .. n : t[j] = t[k] => j = k
      BY DEF Contents, Distinct
    <2> QED
      BY <2>1, ForwardIs, ContentsType DEF Sort
  <1> DEFINE Arranged(r, s) ==
          /\ \A j, k \in 1 .. Len(r) : j < k => s[j] # s[k] /\ Rank[s[j]] <= Rank[s[k]]
          /\ next' = [u \in Nodes |-> IF u = l THEN s[1]
                        ELSE IF \E k \in 1 .. Len(r) : s[k] = u
                        THEN LET k == CHOOSE k \in 1 .. Len(r) : s[k] = u
                             IN  IF k = Len(r) THEN l ELSE s[k + 1]
                        ELSE next[u]]
          /\ prev' = [u \in Nodes |-> IF u = l THEN s[Len(r)]
                        ELSE IF \E k \in 1 .. Len(r) : s[k] = u
                        THEN LET k == CHOOSE k \in 1 .. Len(r) : s[k] = u
                             IN  IF k = 1 THEN l ELSE s[k - 1]
                        ELSE prev[u]]
  <1>2. PICK s \in [1 .. n -> S] : Arranged(t, s)
    <2>1. \E s \in [1 .. Len(Forward(l)) -> {i \in Items : OnPath(Forward(l), i)}] : Arranged(Forward(l), s)
      BY Zenon DEF Sort
    <2>2. Forward(l) = t
      BY <1>1
    <2> HIDE DEF t, Arranged
    <2> QED
      BY <2>1, <2>2, Zenon
  <1>3. n # 0 /\ UNCHANGED <<owner, on, length>>
    BY <1>1 DEF Sort
  <1> HIDE DEF t
  <1>4. /\ S = A!ToSet(t) /\ \A i : i \in S <=> \E k \in 1 .. n : t[k] = i
    BY <1>1 DEF A!ToSet, OnPath
  <1> HIDE DEF S
  <1>5. IsFiniteSet(1 .. n) /\ Cardinality(1 .. n) = n
    <2>1. n \in Nat /\ n \in Int /\ 1 \in Int /\ (IF 1 > n THEN 0 ELSE n - 1 + 1) = n
      BY <1>1
    <2> HIDE DEF n
    <2> QED
      BY <2>1, FS_Interval
  <1>5a. IsFiniteSet(S) /\ Cardinality(S) = n
    <2>2. t \in [1 .. n -> S]
      BY <1>1, <1>4
    <2>3. t \in Bijection(1 .. n, S)
      <3> HIDE DEF n
      <3> QED
        BY <1>1, <1>4, <2>2 DEF Bijection, Injection, Surjection, IsInjective
    <2> QED
      BY <1>5, <2>3, FS_Bijection DEF ExistsBijection
  <1>6. \A j, k \in 1 .. n : s[j] = s[k] => j = k
    BY <1>1, <1>2
  <1>7. s \in Surjection(1 .. n, S)
    <2>1. s \in Injection(1 .. n, S)
      <3> HIDE DEF n
      <3> QED
        BY <1>6 DEF Injection, IsInjective
    <2> QED
      BY <1>5, <1>5a, <2>1, FS_Injection
  <1>8. s \in Seq(Items) /\ Len(s) = n /\ DOMAIN s = 1 .. n
    <2>1. \A k \in 1 .. n : s[k] \in Items
      BY <1>1, <1>4
    <2>2. s \in [1 .. n -> Items]
      BY <2>1
    <2>3. s \in Seq(Items)
      BY <1>1, <2>2
    <2> QED
      BY <1>1, <2>2, <2>3, LenProperties
  <1>9. Permuted(s, t)
    <2>1. \A i : (\E k \in 1 .. n : s[k] = i) <=> i \in S
      BY <1>7 DEF Surjection
    <2> QED
      BY <1>4, <1>6, <1>8, <2>1 DEF Permuted
  <1>10. s \in A!SetToSeqs(S)
    <2>1. \A j, k \in 1 .. Cardinality(S) : j # k => s[j] # s[k]
      BY <1>5a, <1>6
    <2>2. s \in [1 .. Cardinality(S) -> S]
      BY <1>5a
    <2>3. A!Cardinality(S) = Cardinality(S)
      BY DEF A!Cardinality, Cardinality
    <2> QED
      BY <2>1, <2>2, <2>3 DEF A!SetToSeqs
  <1>11. next' = [u \in Nodes |-> SortedNext(l, s, u)] /\ prev' = [u \in Nodes |-> SortedPrev(l, s, u)]
    BY <1>2, <1>8 DEF SortedNext, SortedPrev
  <1>12. Becomes([c EXCEPT ![l] = s], over)
    BY <1>3, <1>8, <1>9, <1>11, SortHolds DEF t
  <1>13. \A j, k \in DOMAIN s : j < k => Rank[s[j]] <= Rank[s[k]]
    BY <1>2, <1>8
  <1> QED
    BY <1>4, <1>10, <1>12, <1>13 DEF t

LEMMA CallsKeep ==
  ASSUME NEW c \in Contents, NEW over, Holds(c, over), NEW l \in Lists, Calls(l)
  PROVE  \E d : Becomes(d, over)
  <1>1. ASSUME NEW i \in Items, AppendItem(l, i) PROVE \E d : Becomes(d, over)
    BY <1>1, AppendBecomes
  <1>2. ASSUME NEW i \in Items, Prepend(l, i) PROVE \E d : Becomes(d, over)
    BY <1>2, PrependBecomes
  <1>3. ASSUME NEW i \in Items, RemoveItem(l, i) PROVE \E d : Becomes(d, over)
    BY <1>3, RemoveBecomes DEF Nodes
  <1>4. ASSUME NEW i \in Items, NEW pos \in Nodes, InsertPos(l, pos, i) PROVE \E d : Becomes(d, over)
    BY <1>4, InsertPosBecomes
  <1>6. ASSUME RemoveFirst(l) PROVE \E d : Becomes(d, over)
    BY <1>6, RemoveFirstBecomes
  <1>7. ASSUME RemoveLast(l) PROVE \E d : Becomes(d, over)
    BY <1>7, RemoveLastBecomes
  <1>8. ASSUME Sort(l) PROVE \E d : Becomes(d, over)
    BY <1>8, SortBecomes
  <1>9. ASSUME NEW pos \in Nodes, NEW x \in Lists, Join(l, pos, x) PROVE \E d : Becomes(d, over)
    BY <1>9, JoinBecomes
  <1>10. ASSUME NEW pos \in Nodes, NEW x \in Lists, NEW a \in 1 .. Cardinality(Items) + 1,
                NEW b \in 1 .. Cardinality(Items) + 1, Splice(l, pos, x, a, b)
         PROVE  \E d : Becomes(d, over)
    <2>1. a \in Nat /\ b \in Nat
      BY UnitListAssumption, FS_CardinalityType
    <2> QED
      BY <1>10, <2>1, SpliceBecomes
  <1> QED
    BY <1>1, <1>2, <1>3, <1>4, <1>6, <1>7, <1>8, <1>9, <1>10 DEF Calls

-----------------------------------------------------------------------------
(* UNIT_LIST_FOREACH_SAFE. The first p items of the list s have been seen, *)
(* the rest are still to come: what was on the list when the loop began is *)
(* what was seen and then the beginning of the rest. The successor that    *)
(* was read in advance is the first of the rest, or the end of the list,   *)
(* read when all that was there had been seen.                             *)
Agrees(start, seen, s, p) ==
  \A k \in 1 .. Len(start) :
    IF k <= Len(seen) THEN seen[k] = start[k]
    ELSE p + (k - Len(seen)) <= Len(s) /\ s[p + (k - Len(seen))] = start[k]
InLoop(r, s, p) ==
  /\ r \in Loops /\ r.item \in Nodes /\ r.after \in Nodes /\ p \in 0 .. Len(s)
  /\ Agrees(r.start, r.seen, s, p)
  /\ r.after = Node(s, r.list, p + 1) \/ (r.after = r.list /\ Len(r.start) <= Len(r.seen))
  /\ IF r.item = r.list THEN Len(r.start) <= Len(r.seen)
     ELSE /\ Len(r.seen) # 0 /\ r.item = r.seen[Len(r.seen)]
          /\ \A k \in 1 .. Len(s) : s[k] = r.item => k <= p
LoopOK(r, c) == r = Null \/ \E p \in Nat : InLoop(r, c[r.list], p)
ListInv ==
  /\ \E c \in Contents : Holds(c, front) /\ LoopOK(loop, c)
  /\ lost \subseteq Lists /\ (lost # {} => \E l \in Lists : front[l] # 0)

LEMMA LoopType ==
  ASSUME NEW r \in Loops
  PROVE  /\ r.list \in Lists /\ r.start \in Seq(Items) /\ r.seen \in Seq(Items)
         /\ Len(r.start) \in Nat /\ Len(r.seen) \in Nat
  BY LenProperties DEF Loops

LEMMA AllSeen ==
  ASSUME NEW start \in Seq(Items), NEW seen \in Seq(Items), NEW s \in Seq(Items),
         Agrees(start, seen, s, Len(s))
  PROVE  Len(start) <= Len(seen)
  <1>1. Len(start) \in Nat /\ Len(seen) \in Nat /\ Len(s) \in Nat
    BY LenProperties
  <1> SUFFICES ASSUME ~(Len(start) <= Len(seen)) PROVE FALSE
    OBVIOUS
  <1> DEFINE k == Len(start)
  <1>2. k \in 1 .. Len(start) /\ ~(k <= Len(seen)) /\ ~(Len(s) + (k - Len(seen)) <= Len(s))
    BY <1>1
  <1> HIDE DEF k
  <1> QED
    BY <1>2 DEF Agrees

LEMMA LoopBegins ==
  ASSUME NEW c \in Contents, NEW over, Holds(c, over), NEW l \in Lists, LoopStarts(l)
  PROVE  Holds(c, over)' /\ LoopOK(loop', c)
  <1> DEFINE s == c[l]
             n == Len(s)
             u == Node(s, l, 1)
  <1>1. /\ Forward(l) = s /\ s \in Seq(Items) /\ n \in Nat
        /\ \A k \in 1 .. n : s[k] \in Items /\ s[k] \notin Lists
        /\ \A k \in Int : Node(s, l, k) \in Nodes
    BY ForwardIs, ContentsType
  <1>2. next[l] = u
    <2>1. 0 \in 0 .. n /\ 0 + 1 = 1 /\ Node(s, l, 0) = l
      BY <1>1 DEF Node
    <2> QED
      BY <2>1 DEF Holds, Closed, Edge
  <1>3. Holds(c, over)'
    BY DEF LoopStarts, Holds, PointerType, Closed, Edge, ItemOK, chain
  <1>4. n = 0 => u = l /\ next[l] = l
    BY <1>2 DEF Node
  <1>5. n # 0 => u = s[1] /\ u # l /\ next[u] = Node(s, l, 2)
    <2> SUFFICES ASSUME n # 0 PROVE u = s[1] /\ u # l /\ next[u] = Node(s, l, 2)
      OBVIOUS
    <2>1. 1 \in 1 .. n /\ 1 \in 0 .. n /\ 1 + 1 = 2
      BY <1>1
    <2>2. next[Node(s, l, 1)] = Node(s, l, 1 + 1)
      BY <2>1 DEF Holds, Closed, Edge
    <2> QED
      BY <1>1, <2>1, <2>2 DEF Node
  <1> DEFINE r == [list |-> l, item |-> u, after |-> next[u], start |-> s,
                   seen |-> IF u = l THEN <<>> ELSE <<u>>]
  <1>6. loop' = r
    BY <1>1, <1>2 DEF LoopStarts
  <1>7. u \in Nodes /\ next[u] \in Nodes
    BY <1>1, <1>2, <1>4, <1>5
  <1> HIDE DEF u
  <1>8. CASE n = 0
    <2>1. r.seen = <<>> /\ r.item = l /\ r.after = l /\ r.list = l /\ r.start = s
      BY <1>4, <1>8
    <2>2. r \in Loops /\ r.item \in Nodes /\ r.after \in Nodes
      <3>1. <<>> \in Seq(Items)
        OBVIOUS
      <3> QED
        BY <1>1, <1>4, <1>7, <1>8, <3>1 DEF Loops
    <2> HIDE DEF r
    <2>3. Len(<<>>) = 0
      OBVIOUS
    <2>4. Agrees(r.start, r.seen, s, 0)
      BY <1>8, <2>1 DEF Agrees
    <2>5. Node(s, l, 0 + 1) = l
      BY <1>8 DEF Node
    <2>6. InLoop(r, s, 0)
      BY <1>8, <2>1, <2>2, <2>3, <2>4, <2>5 DEF InLoop
    <2> QED
      BY <1>3, <1>6, <2>1, <2>6 DEF LoopOK
  <1>9. CASE n # 0
    <2>1. r.seen = <<u>> /\ r.item = u /\ r.after = Node(s, l, 2) /\ r.list = l /\ r.start = s
      BY <1>5, <1>9
    <2>2. r \in Loops /\ r.item \in Nodes /\ r.after \in Nodes
      <3>1. u \in Items
        BY <1>1, <1>5, <1>9
      <3>2. <<u>> \in Seq(Items)
        BY <3>1
      <3> QED
        BY <1>1, <1>5, <1>7, <1>9, <3>2 DEF Loops
    <2> HIDE DEF r
    <2> DEFINE o == <<u>>
    <2>3. Len(o) = 1 /\ o[1] = u
      OBVIOUS
    <2> HIDE DEF o
    <2>4. Agrees(s, o, s, 1)
      <3> SUFFICES ASSUME NEW k \in 1 .. n
                   PROVE IF k <= 1 THEN o[k] = s[k] ELSE 1 + (k - 1) <= n /\ s[1 + (k - 1)] = s[k]
        BY <2>3 DEF Agrees
      <3>1. 1 + (k - 1) = k /\ k <= n /\ (k <= 1 => k = 1)
        BY <1>1
      <3> QED
        BY <1>5, <1>9, <2>3, <3>1
    <2>5. 1 + 1 = 2 /\ 1 \in 0 .. n
      BY <1>1, <1>9
    <2>6. \A k \in 1 .. n : s[k] = u => k <= 1
      <3>1. 1 \in 1 .. n
        BY <1>1, <1>9
      <3>2. \A k \in 1 .. n : s[k] = s[1] => k = 1
        BY <3>1 DEF Contents, Distinct
      <3> QED
        BY <1>5, <1>9, <3>2
    <2>7. InLoop(r, s, 1)
      BY <1>5, <1>9, <2>1, <2>2, <2>3, <2>4, <2>5, <2>6 DEF InLoop, o
    <2> QED
      BY <1>3, <1>6, <2>1, <2>7 DEF LoopOK
  <1> QED
    BY <1>8, <1>9

(* The current item is taken off.                                          *)
LEMMA RestStays ==
  ASSUME NEW c \in Contents, NEW r, NEW p \in Nat, InLoop(r, c[r.list], p), r.item # r.list,
         NEW k \in 1 .. Len(c[r.list]), c[r.list][k] = r.item, NEW t, TakenOff(c[r.list], t, k)
  PROVE  p - 1 \in Nat /\ InLoop(r, t, p - 1)
  <1> DEFINE s == c[r.list]
             q == p - 1
  <1>1. /\ r \in Loops /\ r.item \in Nodes /\ r.after \in Nodes /\ p \in 0 .. Len(s)
        /\ Agrees(r.start, r.seen, s, p)
        /\ r.after = Node(s, r.list, p + 1) \/ (r.after = r.list /\ Len(r.start) <= Len(r.seen))
        /\ Len(r.seen) # 0 /\ r.item = r.seen[Len(r.seen)]
        /\ \A j \in 1 .. Len(s) : s[j] = r.item => j <= p
    BY DEF InLoop
  <1>2. r.list \in Lists /\ Len(r.seen) \in Nat /\ Len(r.start) \in Nat
    BY <1>1, LoopType
  <1>3. s \in Seq(Items) /\ Len(s) \in Nat /\ \A j \in 1 .. Len(s) : s[j] = s[k] => j = k
    <2>1. \A j \in 1 .. Len(s) : s[j] = s[k] => j = k
      BY <1>2 DEF Contents, Distinct
    <2> QED
      BY <1>2, <2>1, ContentsType
  <1>4. k <= p
    BY <1>1
  <1>5. q \in Nat /\ q \in 0 .. Len(s) - 1 /\ q + 1 = p
    BY <1>1, <1>3, <1>4
  <1>6. /\ t \in Seq(Items) /\ Len(t) = Len(s) - 1
        /\ \A j \in 1 .. Len(s) - 1 : t[j] = IF j < k THEN s[j] ELSE s[j + 1]
    BY DEF TakenOff
  <1> HIDE DEF s, q
  <1>7. Agrees(r.start, r.seen, t, q)
    <2> SUFFICES ASSUME NEW j \in 1 .. Len(r.start)
                 PROVE  IF j <= Len(r.seen) THEN r.seen[j] = r.start[j]
                        ELSE q + (j - Len(r.seen)) <= Len(t) /\ t[q + (j - Len(r.seen))] = r.start[j]
      BY DEF Agrees
    <2> DEFINE e == j - Len(r.seen)
    <2>1. CASE j <= Len(r.seen)
      BY <1>1, <2>1 DEF Agrees
    <2>2. CASE ~(j <= Len(r.seen))
      <3>1. p + e <= Len(s) /\ s[p + e] = r.start[j]
        BY <1>1, <2>2 DEF Agrees
      <3>2. e \in Nat /\ 1 <= e
        BY <1>2, <2>2
      <3> HIDE DEF e
      <3>3. q + e \in 1 .. Len(s) - 1 /\ ~(q + e < k) /\ (q + e) + 1 = p + e /\ q + e <= Len(t)
        BY <1>3, <1>4, <1>5, <1>6, <3>1, <3>2
      <3>4. t[q + e] = s[p + e]
        BY <1>6, <3>3
      <3>5. q + e <= Len(t) /\ t[q + e] = r.start[j]
        BY <3>1, <3>3, <3>4
      <3> QED
        BY <2>2, <3>5 DEF e
    <2> QED
      BY <2>1, <2>2
  <1>8. Node(t, r.list, q + 1) = Node(s, r.list, p + 1)
    <2>1. CASE p < Len(s)
      <3>1. q + 1 \in 1 .. Len(t) /\ q + 1 \in 1 .. Len(s) - 1 /\ p + 1 \in 1 .. Len(s) /\ ~(q + 1 < k) /\ (q + 1) + 1 = p + 1
        BY <1>3, <1>4, <1>5, <1>6, <2>1
      <3>2. t[q + 1] = s[p + 1]
        BY <1>6, <3>1
      <3> QED
        BY <3>1, <3>2 DEF Node
    <2>2. CASE ~(p < Len(s))
      <3>1. q + 1 \notin 1 .. Len(t) /\ p + 1 \notin 1 .. Len(s)
        BY <1>3, <1>5, <1>6, <2>2
      <3> QED
        BY <3>1 DEF Node
    <2> QED
      BY <2>1, <2>2
  <1>9. \A j \in 1 .. Len(t) : t[j] # r.item
    <2> SUFFICES ASSUME NEW j \in 1 .. Len(t), t[j] = r.item PROVE FALSE
      OBVIOUS
    <2>0. s[k] = r.item
      BY DEF s
    <2>1. CASE j < k
      <3>1. j \in 1 .. Len(s) /\ j \in 1 .. Len(s) - 1 /\ j # k
        BY <1>3, <1>6, <2>1
      <3>2. t[j] = s[j]
        BY <1>6, <2>1, <3>1
      <3> QED
        BY <1>3, <2>0, <3>1, <3>2
    <2>2. CASE ~(j < k)
      <3>1. j + 1 \in 1 .. Len(s) /\ j \in 1 .. Len(s) - 1 /\ j + 1 # k
        BY <1>3, <1>6, <2>2
      <3>2. t[j] = s[j + 1]
        BY <1>6, <2>2, <3>1
      <3> QED
        BY <1>3, <2>0, <3>1, <3>2
    <2> QED
      BY <2>1, <2>2
  <1>10. q \in 0 .. Len(t)
    BY <1>5, <1>6
  <1>11. InLoop(r, t, q)
    <2>1. r.after = Node(t, r.list, q + 1) \/ (r.after = r.list /\ Len(r.start) <= Len(r.seen))
      BY <1>1, <1>8
    <2> QED
      BY <1>1, <1>7, <1>9, <1>10, <2>1 DEF InLoop
  <1> QED
    BY <1>5, <1>11 DEF q

LEMMA RemovedInLoop ==
  ASSUME NEW c \in Contents, NEW over, Holds(c, over), loop # Null, LoopOK(loop, c), BodyRemoves
  PROVE  \E d \in Contents : Holds(d, over)' /\ LoopOK(loop', d)
  <1>0. PICK r : r = loop
    OBVIOUS
  <1>1. PICK p \in Nat : InLoop(r, c[r.list], p)
    BY <1>0 DEF LoopOK
  <1>2. PICK l \in Lists : l = r.list
    BY <1>1, LoopType DEF InLoop
  <1>3. r.item \in Nodes /\ RemoveItem(l, r.item) /\ loop' = r
    BY <1>0, <1>1, <1>2 DEF InLoop, BodyRemoves
  <1>4. PICK k \in DOMAIN c[l] : c[l][k] = r.item /\ Becomes([c EXCEPT ![l] = A!RemoveAt(c[l], k)], over)
    BY <1>3, RemoveBecomes
  <1>5. k \in 1 .. Len(c[l]) /\ c[l] \in Seq(Items) /\ c[l][k] \notin Lists
    BY ContentsType
  <1>6. r.item # l
    BY <1>4, <1>5
  <1>7. PICK t : t = A!RemoveAt(c[l], k)
    OBVIOUS
  <1>8. TakenOff(c[l], t, k)
    BY <1>5, <1>7, CutOne DEF A!RemoveAt
  <1>9. p - 1 \in Nat /\ InLoop(r, t, p - 1)
    BY <1>1, <1>2, <1>4, <1>5, <1>6, <1>8, RestStays
  <1>10. PICK d : d = [c EXCEPT ![l] = t]
    OBVIOUS
  <1>11. d \in Contents /\ Holds(d, over)'
    BY <1>4, <1>7, <1>10 DEF Becomes
  <1>12. d[r.list] = t
    BY <1>2, <1>10 DEF Contents
  <1>13. LoopOK(loop', d)
    BY <1>3, <1>9, <1>12 DEF LoopOK
  <1> QED
    BY <1>11, <1>13

(* A new item is appended.                                                 *)
LEMMA RestGrows ==
  ASSUME NEW c \in Contents, NEW r, NEW p \in Nat, InLoop(r, c[r.list], p), r.item # r.list,
         NEW i \in Items, ~OnPath(r.start \o r.seen, i)
  PROVE  InLoop(r, Append(c[r.list], i), p)
  <1> DEFINE s == c[r.list]
             t == Append(s, i)
  <1>1. /\ r \in Loops /\ r.item \in Nodes /\ r.after \in Nodes /\ p \in 0 .. Len(s)
        /\ Agrees(r.start, r.seen, s, p)
        /\ r.after = Node(s, r.list, p + 1) \/ (r.after = r.list /\ Len(r.start) <= Len(r.seen))
        /\ Len(r.seen) # 0 /\ r.item = r.seen[Len(r.seen)]
        /\ \A j \in 1 .. Len(s) : s[j] = r.item => j <= p
    BY DEF InLoop
  <1>2. /\ r.list \in Lists /\ Len(r.seen) \in Nat /\ Len(r.start) \in Nat
        /\ r.start \in Seq(Items) /\ r.seen \in Seq(Items)
    BY <1>1, LoopType
  <1>3. s \in Seq(Items) /\ Len(s) \in Nat
    BY <1>2, ContentsType
  <1>4. t \in Seq(Items) /\ Len(t) = Len(s) + 1 /\ t[Len(s) + 1] = i /\ \A j \in 1 .. Len(s) : t[j] = s[j]
    BY <1>3
  <1> HIDE DEF s, t
  <1>5. i # r.item
    <2> DEFINE a == r.start
               b == r.seen
               j == Len(a) + Len(b)
    <2>1. /\ a \in Seq(Items) /\ b \in Seq(Items) /\ Len(b) # 0 /\ r.item = b[Len(b)]
          /\ Len(a) \in Nat /\ Len(b) \in Nat
      BY <1>1, <1>2
    <2> HIDE DEF a, b
    <2>2. Len(a \o b) = j /\ DOMAIN (a \o b) = 1 .. j
      BY <2>1
    <2>3. j \in 1 .. j /\ j - Len(a) = Len(b) /\ ~(j <= Len(a))
      BY <2>1
    <2>4. (a \o b)[j] = b[j - Len(a)]
      BY <2>1, <2>3
    <2>5. j \in DOMAIN (a \o b) /\ (a \o b)[j] = r.item
      BY <2>1, <2>2, <2>3, <2>4
    <2>6. ~OnPath(a \o b, i)
      BY DEF a, b
    <2> HIDE DEF j
    <2> QED
      BY <2>5, <2>6 DEF OnPath
  <1>6. Agrees(r.start, r.seen, t, p)
    <2> SUFFICES ASSUME NEW j \in 1 .. Len(r.start)
                 PROVE  IF j <= Len(r.seen) THEN r.seen[j] = r.start[j]
                        ELSE p + (j - Len(r.seen)) <= Len(t) /\ t[p + (j - Len(r.seen))] = r.start[j]
      BY DEF Agrees
    <2> DEFINE e == j - Len(r.seen)
    <2>1. CASE j <= Len(r.seen)
      BY <1>1, <2>1 DEF Agrees
    <2>2. CASE ~(j <= Len(r.seen))
      <3>1. p + e <= Len(s) /\ s[p + e] = r.start[j]
        BY <1>1, <2>2 DEF Agrees
      <3>2. e \in Nat /\ 1 <= e
        BY <1>2, <2>2
      <3> HIDE DEF e
      <3>3. p + e \in 1 .. Len(s) /\ p + e <= Len(t)
        BY <1>3, <1>4, <3>1, <3>2
      <3>4. p + e <= Len(t) /\ t[p + e] = r.start[j]
        BY <1>4, <3>1, <3>3
      <3> QED
        BY <2>2, <3>4 DEF e
    <2> QED
      BY <2>1, <2>2
  <1>7. r.after = Node(t, r.list, p + 1) \/ (r.after = r.list /\ Len(r.start) <= Len(r.seen))
    <2>1. CASE p < Len(s)
      <3>1. p + 1 \in 1 .. Len(s) /\ p + 1 \in 1 .. Len(t)
        BY <1>3, <1>4, <2>1
      <3>2. Node(t, r.list, p + 1) = Node(s, r.list, p + 1)
        BY <1>4, <3>1 DEF Node
      <3> QED
        BY <1>1, <3>2
    <2>2. CASE ~(p < Len(s))
      <3>1. p = Len(s) /\ p + 1 \notin 1 .. Len(s)
        BY <1>1, <1>3, <2>2
      <3>2. Node(s, r.list, p + 1) = r.list
        BY <3>1 DEF Node
      <3>3. Len(r.start) <= Len(r.seen)
        BY <1>1, <1>2, <1>3, <3>1, AllSeen
      <3> QED
        BY <1>1, <3>2, <3>3
    <2> QED
      BY <2>1, <2>2
  <1>8. \A j \in 1 .. Len(t) : t[j] = r.item => j <= p
    <2> SUFFICES ASSUME NEW j \in 1 .. Len(t), t[j] = r.item PROVE j <= p
      OBVIOUS
    <2>1. j # Len(s) + 1
      BY <1>4, <1>5
    <2>2. j \in 1 .. Len(s)
      BY <1>3, <1>4, <2>1
    <2> QED
      BY <1>1, <1>4, <2>2
  <1>9. p \in 0 .. Len(t)
    BY <1>1, <1>3, <1>4
  <1>10. InLoop(r, t, p)
    BY <1>1, <1>6, <1>7, <1>8, <1>9 DEF InLoop
  <1> QED
    BY <1>10 DEF t, s

LEMMA AppendedInLoop ==
  ASSUME NEW c \in Contents, NEW over, Holds(c, over), loop # Null, LoopOK(loop, c), BodyAppends
  PROVE  \E d \in Contents : Holds(d, over)' /\ LoopOK(loop', d)
  <1>0. PICK r : r = loop
    OBVIOUS
  <1>1. PICK p \in Nat : InLoop(r, c[r.list], p)
    BY <1>0 DEF LoopOK
  <1>2. PICK l \in Lists : l = r.list
    BY <1>1, LoopType DEF InLoop
  <1>3. loop' = r /\ r.item # r.list
    BY <1>0 DEF BodyAppends
  <1>4. PICK i \in Items : ~OnPath(r.start \o r.seen, i) /\ AppendItem(l, i)
    BY <1>0, <1>2 DEF BodyAppends
  <1>5. PICK t : t = Append(c[l], i)
    OBVIOUS
  <1>6. PICK d : d = [c EXCEPT ![l] = t]
    OBVIOUS
  <1>7. d \in Contents /\ Holds(d, over)'
    BY <1>4, <1>5, <1>6, AppendBecomes DEF Becomes
  <1>8. InLoop(r, t, p)
    BY <1>1, <1>2, <1>3, <1>4, <1>5, RestGrows
  <1>9. d[r.list] = t
    BY <1>2, <1>6 DEF Contents
  <1>10. LoopOK(loop', d)
    BY <1>3, <1>8, <1>9 DEF LoopOK
  <1> QED
    BY <1>7, <1>10

(* The loop goes on to the successor that was read in advance.             *)
LEMMA AdvancedInLoop ==
  ASSUME NEW c \in Contents, NEW over, Holds(c, over), loop # Null, LoopOK(loop, c), LoopAdvances
  PROVE  Holds(c, over)' /\ LoopOK(loop', c)
  <1>1. PICK r : r = loop
    OBVIOUS
  <1>2. PICK p \in Nat : InLoop(r, c[r.list], p)
    BY <1>1 DEF LoopOK
  <1>3. PICK l \in Lists : l = r.list
    BY <1>2, LoopType DEF InLoop
  <1>4. PICK v : v = r.after
    OBVIOUS
  <1> DEFINE s == c[l]
             n == Len(r.start)
             m == Len(r.seen)
  <1>5. /\ r \in Loops /\ v \in Nodes /\ v # Null /\ p \in 0 .. Len(s)
        /\ Agrees(r.start, r.seen, s, p)
        /\ v = Node(s, l, p + 1) \/ (v = l /\ n <= m)
    BY <1>2, <1>3, <1>4, UnitListAssumption DEF InLoop, Nodes
  <1>6. n \in Nat /\ m \in Nat /\ r.start \in Seq(Items) /\ r.seen \in Seq(Items)
    BY <1>5, LoopType
  <1>7. s \in Seq(Items) /\ Len(s) \in Nat /\ \A k \in 1 .. Len(s) : s[k] \in Items /\ s[k] \notin Lists
    BY ContentsType
  <1>8. Holds(c, over)'
    BY DEF LoopAdvances, Holds, PointerType, Closed, Edge, ItemOK, chain
  <1> DEFINE new == [r EXCEPT !.item = v, !.after = next[v], !.seen = IF v = l THEN @ ELSE Append(@, v)]
  <1>9. loop' = new
    BY <1>1, <1>3, <1>4, <1>5 DEF LoopAdvances
  <1>10. /\ new.list = l /\ new.item = v /\ new.after = next[v] /\ new.start = r.start
         /\ new.seen = IF v = l THEN r.seen ELSE Append(r.seen, v)
         /\ (new.seen \in Seq(Items) /\ next[v] \in Nodes => new \in Loops)
    BY <1>3, <1>5 DEF Loops
  <1> HIDE DEF new
  <1>11. \A k \in 0 .. Len(s) : next[Node(s, l, k)] = Node(s, l, k + 1) /\ Node(s, l, k + 1) \in Nodes
    BY ContentsType DEF Holds, Closed, Edge
  <1>12. CASE v = l
    <2>1. n <= m
      <3>1. CASE v = Node(s, l, p + 1)
        <4>1. p + 1 \notin 1 .. Len(s)
          BY <1>7, <1>12, <3>1 DEF Node
        <4>2. p = Len(s)
          BY <1>5, <1>7, <4>1
        <4> QED
          BY <1>5, <1>6, <1>7, <4>2, AllSeen
      <3> QED
        BY <1>5, <3>1
    <2>2. 0 \in 0 .. Len(s) /\ 0 + 1 = 1 /\ Node(s, l, 0) = l
      BY <1>7 DEF Node
    <2>3. new.after = Node(s, l, 0 + 1) /\ new.after \in Nodes
      BY <1>10, <1>11, <1>12, <2>2
    <2>4. new \in Loops /\ new.seen = r.seen
      BY <1>6, <1>10, <1>12, <2>3
    <2>5. Agrees(new.start, new.seen, s, 0)
      <3>1. \A k \in 1 .. n : k <= m
        BY <1>6, <2>1
      <3>2. \A k \in 1 .. n : r.seen[k] = r.start[k]
        BY <1>5, <3>1 DEF Agrees
      <3> QED
        BY <1>10, <2>4, <3>1, <3>2 DEF Agrees
    <2>6. InLoop(new, s, 0)
      BY <1>5, <1>10, <1>12, <2>1, <2>2, <2>3, <2>4, <2>5 DEF InLoop
    <2> QED
      BY <1>8, <1>9, <1>10, <2>6 DEF LoopOK
  <1>13. CASE v # l
    <2> DEFINE q == p + 1
    <2>1. v = Node(s, l, q)
      BY <1>5, <1>13
    <2>2. q \in 1 .. Len(s) /\ v = s[q] /\ q \in 0 .. Len(s) /\ q \in Nat
      <3>1. q \in 1 .. Len(s) /\ v = s[q]
        BY <1>13, <2>1 DEF Node
      <3> QED
        BY <3>1
    <2>3. v \in Items
      BY <1>7, <2>2
    <2>4. /\ new.seen = Append(r.seen, v) /\ new.seen \in Seq(Items) /\ Len(new.seen) = m + 1
          /\ new.seen[m + 1] = v /\ \A k \in 1 .. m : new.seen[k] = r.seen[k]
      BY <1>6, <1>10, <1>13, <2>3
    <2>5. new.after = Node(s, l, q + 1) /\ new.after \in Nodes
      BY <1>10, <1>11, <2>1, <2>2
    <2>6. new \in Loops
      BY <1>10, <2>4, <2>5
    <2>7. Agrees(new.start, new.seen, s, q)
      <3> SUFFICES ASSUME NEW k \in 1 .. n
                   PROVE  IF k <= m + 1 THEN new.seen[k] = r.start[k]
                          ELSE q + (k - (m + 1)) <= Len(s) /\ s[q + (k - (m + 1))] = r.start[k]
        BY <1>10, <2>4 DEF Agrees
      <3>1. IF k <= m THEN r.seen[k] = r.start[k]
            ELSE p + (k - m) <= Len(s) /\ s[p + (k - m)] = r.start[k]
        BY <1>5 DEF Agrees
      <3>2. CASE k <= m
        <4>1. k \in 1 .. m /\ k <= m + 1
          BY <1>6, <3>2
        <4> QED
          BY <2>4, <3>1, <3>2, <4>1
      <3>3. CASE k = m + 1
        <4>1. ~(k <= m) /\ k <= m + 1 /\ p + (k - m) = q
          BY <1>6, <3>3
        <4> QED
          BY <2>2, <2>4, <3>1, <3>3, <4>1
      <3>4. CASE ~(k <= m + 1)
        <4>1. ~(k <= m) /\ q + (k - (m + 1)) = p + (k - m)
          BY <1>6, <3>4
        <4> QED
          BY <3>1, <3>4, <4>1
      <3>5. k <= m \/ k = m + 1 \/ ~(k <= m + 1)
        BY <1>6
      <3> QED
        BY <3>2, <3>3, <3>4, <3>5
    <2>8. \A k \in 1 .. Len(s) : s[k] = v => k <= q
      <3>1. \A k \in 1 .. Len(s) : s[k] = s[q] => k = q
        BY <2>2 DEF Contents, Distinct
      <3> QED
        BY <2>2, <3>1
    <2>9. InLoop(new, s, q)
      <3>1. Len(new.seen) # 0 /\ new.item = new.seen[Len(new.seen)] /\ new.item # new.list
        BY <1>6, <1>10, <1>13, <2>4
      <3> HIDE DEF q
      <3> QED
        BY <1>5, <1>10, <2>2, <2>5, <2>6, <2>7, <2>8, <3>1 DEF InLoop
    <2> QED
      BY <1>8, <1>9, <1>10, <2>2, <2>9 DEF LoopOK
  <1> QED
    BY <1>12, <1>13

LEMMA LoopEndsKeeps ==
  ASSUME NEW c \in Contents, NEW over, Holds(c, over), UNCHANGED chain
  PROVE  Holds(c, over)'
  BY DEF Holds, PointerType, Closed, Edge, ItemOK, chain

(* The invariant.                                                          *)
LEMMA ListInvInit == Init => ListInv
  BY InitHolds DEF ListInv, LoopOK, Init

LEMMA ListInvNext == ListInv /\ [Next]_vars => ListInv'
  <1> SUFFICES ASSUME ListInv, [Next]_vars PROVE ListInv'
    OBVIOUS
  <1>1. PICK c \in Contents : Holds(c, front) /\ LoopOK(loop, c)
    BY DEF ListInv
  <1> DEFINE Lasts == lost \subseteq Lists /\ (lost # {} => \E l \in Lists : front[l] # 0)
  <1>2. Lasts
    BY DEF ListInv
  <1>3. ASSUME \E d \in Contents : Holds(d, front)' /\ LoopOK(loop', d), UNCHANGED <<front, lost>> PROVE ListInv'
    <2>1. PICK d \in Contents : Holds(d, front)' /\ LoopOK(loop', d)
      BY <1>3
    <2>2. LoopOK(loop, d)'
      BY <2>1 DEF LoopOK, InLoop, Agrees
    <2>3. Lasts'
      BY <1>2, <1>3
    <2> QED
      BY <2>1, <2>2, <2>3 DEF ListInv
  <1>4. ASSUME NEW d, NEW over, Becomes(d, over), front' = over, loop' = Null, Lasts' PROVE ListInv'
    <2>1. d \in Contents /\ Holds(d, front)'
      BY <1>4 DEF Becomes, Holds
    <2>2. LoopOK(loop, d)'
      BY <1>4 DEF LoopOK
    <2> QED
      BY <1>4, <2>1, <2>2 DEF ListInv
  <1>5. PICK over : over = front
    OBVIOUS
  <1>6. Holds(c, over)
    BY <1>1, <1>5
  <1>7. ASSUME NEW l \in Lists \ lost, Called(l) PROVE ListInv'
    <2>1. loop' = Null /\ loop = Null
      BY <1>7 DEF Called
    <2>2. CASE Calls(l) /\ UNCHANGED <<front, lost>>
      <3>1. PICK d : Becomes(d, over)
        BY <1>6, <2>2, CallsKeep
      <3>2. Lasts'
        BY <1>2, <2>2
      <3> QED
        BY <1>4, <1>5, <2>1, <2>2, <3>1, <3>2
    <2>3. ASSUME NEW i \in Items, NEW idx \in 0 .. length[l], Insert(l, i, idx), UNCHANGED lost PROVE ListInv'
      <3>1. idx \in Nat
        BY <1>6 DEF Holds, PointerType
      <3>2a. PICK p \in 0 .. Len(c[l]) :
               Becomes(With(c, l, p, i), Counted(over, l, idx))
        BY <1>6, <2>3, <3>1, InsertBecomes
      <3>2. PICK d, all : Becomes(d, all) /\ all = IF idx = 0 THEN [over EXCEPT ![l] = @ + 1] ELSE over
        BY <3>2a DEF Counted
      <3>3. front' = all /\ (idx = 0 => front'[l] # 0) /\ (idx # 0 => front' = front)
        BY <1>5, <1>6, <2>3, <3>2 DEF Insert, Holds
      <3>4. Lasts'
        BY <1>2, <2>3, <3>3
      <3> QED
        BY <1>4, <2>1, <3>2, <3>3, <3>4
    <2>4. ASSUME length[l] # Len(Forward(l)), lost' \subseteq Lists, UNCHANGED <<chain, front>> PROVE ListInv'
      <3>1. front[l] # 0
        BY <1>1, <2>4, ForwardIs, ContentsType DEF Holds
      <3>2. Lasts'
        BY <2>4, <3>1
      <3>3. Holds(c, over)'
        BY <1>6, <2>4, LoopEndsKeeps
      <3>4. Becomes(c, over) /\ front' = over
        BY <1>5, <2>4, <3>3 DEF Becomes
      <3> QED
        BY <1>4, <2>1, <3>2, <3>4
    <2>5. CASE SentinelTaken(l)
      <3>1. Len(Forward(l)) \in Nat /\ length[l] \in Nat
        BY <1>1, ForwardIs, ContentsType DEF Holds, PointerType
      <3>2. length[l] # Len(Forward(l)) /\ UNCHANGED <<chain, front>> /\ lost' = lost \cup {l}
        BY <2>5, <3>1 DEF SentinelTaken
      <3> QED
        BY <1>2, <2>4, <3>2
    <2>6. CASE SizeAborts(l)
      BY <2>4, <2>6 DEF SizeAborts
    <2> QED
      BY <1>7, <2>2, <2>3, <2>5, <2>6 DEF Called
  <1>8. ASSUME NEW l \in Lists, LoopStarts(l) PROVE ListInv'
    <2>1. UNCHANGED <<front, lost>>
      BY <1>8 DEF LoopStarts
    <2>2. Holds(c, over)' /\ LoopOK(loop', c)
      BY <1>6, <1>8, LoopBegins
    <2> QED
      BY <1>3, <1>5, <2>1, <2>2
  <1>9. ASSUME LoopSteps PROVE ListInv'
    <2>1. loop # Null /\ LoopOK(loop, c)
      BY <1>1, <1>9 DEF LoopSteps
    <2>2. UNCHANGED <<front, lost>>
      BY <1>9 DEF LoopSteps, BodyRemoves, BodyAppends, LoopAdvances, LoopEnds
    <2>3. ASSUME NEW d \in Contents, Holds(d, over)', LoopOK(loop', d) PROVE ListInv'
      BY <1>3, <1>5, <2>2, <2>3
    <2>4. CASE BodyRemoves
      BY <1>6, <2>1, <2>3, <2>4, RemovedInLoop
    <2>5. CASE BodyAppends
      BY <1>6, <2>1, <2>3, <2>5, AppendedInLoop
    <2>6. CASE LoopAdvances
      BY <1>6, <2>1, <2>3, <2>6, AdvancedInLoop
    <2>7. CASE LoopEnds
      <3>1. loop' = Null /\ Holds(c, over)'
        BY <1>6, <2>7, LoopEndsKeeps DEF LoopEnds
      <3> QED
        BY <2>3, <3>1 DEF LoopOK
    <2> QED
      BY <1>9, <2>4, <2>5, <2>6, <2>7 DEF LoopSteps
  <1>10. CASE UNCHANGED vars
    <2>1. loop' = loop /\ UNCHANGED <<front, lost>> /\ UNCHANGED chain
      BY <1>10 DEF vars, chain
    <2>2. Holds(c, over)'
      BY <1>6, <2>1, LoopEndsKeeps
    <2> QED
      BY <1>1, <1>3, <1>5, <2>1, <2>2
  <1> QED
    BY <1>7, <1>8, <1>9, <1>10 DEF Next

LEMMA ListInvHolds == Spec => []ListInv
  BY ListInvInit, ListInvNext, PTL DEF Spec

(* The pointers keep the types of their fields, and a loop its record.     *)
THEOREM TypesAreKept == Spec => []TypeOK
  <1>1. ListInv => TypeOK
    BY DEF ListInv, Holds, PointerType, LoopOK, InLoop, TypeOK
  <1> QED
    BY <1>1, ListInvHolds, PTL

(* For any items and lists, and after any calls: the next pointers and the *)
(* prev pointers of the nodes that are on a list mirror each other, and    *)
(* never lead to a node that is on none (unit_list.h).                     *)
THEOREM ListsStayLinked == Spec => []DoublyLinked
  <1>1. ListInv => DoublyLinked
    BY HoldsLinked DEF ListInv
  <1> QED
    BY <1>1, ListInvHolds, PTL

(* For any items and lists, and after any calls: the asserts of            *)
(* unit_list.h on the number of lists an item is on and on the list it is  *)
(* on. The length is what unit_list_get_size counts and one more for each  *)
(* insert at index 0; without such an insert nothing aborts, and no call   *)
(* takes the sentinel of a list for an item.                               *)
THEOREM AssertsHold == Spec => []SpotChecks
  <1>1. ListInv => SpotChecks
    BY HoldsChecked DEF ListInv
  <1> QED
    BY <1>1, ListInvHolds, PTL

(* For any items and lists: UNIT_LIST_FOREACH_SAFE comes to all items that *)
(* were there when it began, in their order, whatever its body takes off   *)
(* at the current item and appends at the end.                             *)
THEOREM LoopsMissNothing == Spec => []LoopVisitsAll
  <1>1. ListInv => LoopVisitsAll
    <2> SUFFICES ASSUME ListInv, loop # Null PROVE LoopVisitsAll
      BY DEF LoopVisitsAll
    <2>1. PICK c \in Contents, p \in Nat : InLoop(loop, c[loop.list], p)
      BY DEF ListInv, LoopOK
    <2>2. /\ Agrees(loop.start, loop.seen, c[loop.list], p)
          /\ loop.item = loop.list => Len(loop.start) <= Len(loop.seen)
          /\ Len(loop.start) \in Nat /\ Len(loop.seen) \in Nat
      BY <2>1, LoopType DEF InLoop
    <2>3. ASSUME NEW k \in 1 .. Len(loop.seen), k <= Len(loop.start) PROVE loop.seen[k] = loop.start[k]
      <3>1. k \in 1 .. Len(loop.start) /\ k <= Len(loop.seen)
        BY <2>2, <2>3
      <3> QED
        BY <2>2, <3>1 DEF Agrees
    <2> QED
      BY <2>2, <2>3 DEF LoopVisitsAll
  <1> QED
    BY <1>1, ListInvHolds, PTL

-----------------------------------------------------------------------------
(* The calls do to the sequences of items what ListSpec says.              *)
Represented == [l \in Lists |-> Forward(l)]

LEMMA RepresentedIs ==
  ASSUME NEW c \in Contents, NEW over, Holds(c, over)
  PROVE  Represented = c
  BY ForwardIs DEF Represented, Contents

LEMMA RepresentedBecomes ==
  ASSUME NEW d, NEW all, Becomes(d, all)
  PROVE  Represented' = d
  <1>1. d \in Contents /\ \A l \in Lists : Forward(l)' = d[l]
    BY ForwardBecomes DEF Becomes
  <1> QED
    BY <1>1 DEF Represented, Contents

LEMMA FreeOnNone ==
  ASSUME NEW c \in Contents, NEW over, Holds(c, over), NEW i \in Items, Free(i)
  PROVE  A!OnNoList(i)
  <1>1. \A l \in Lists : ~Holder(c, i, l)
    BY DEF Free, Holds, ItemOK
  <1>2. \A l \in Lists : Represented[l] = c[l]
    BY RepresentedIs
  <1> QED
    BY <1>1, <1>2 DEF A!OnNoList, A!Contains, Holder, Represented

LEMMA BecomesOne ==
  ASSUME NEW c \in Contents, NEW over, Holds(c, over), NEW l \in Lists, NEW s,
         NEW all, Becomes([c EXCEPT ![l] = s], all)
  PROVE  A!Become(l, s)
  <1>1. Represented = c /\ Represented' = [c EXCEPT ![l] = s]
    BY RepresentedIs, RepresentedBecomes
  <1> QED
    BY <1>1 DEF A!Become, Represented

LEMMA InsertsAgree ==
  ASSUME NEW c \in Contents, NEW over, Holds(c, over), NEW l \in Lists, NEW i \in Items
  PROVE  /\ AppendItem(l, i) => A!Appended(l, i)
         /\ Prepend(l, i) => A!Prepended(l, i)
         /\ \A pos \in Nodes : InsertPos(l, pos, i) => A!InsertedBefore(l, pos, i)
  <1>1. Represented[l] = c[l]
    BY RepresentedIs
  <1>2. ASSUME AppendItem(l, i) PROVE A!Appended(l, i)
    <2>1. A!OnNoList(i) /\ A!Become(l, Append(c[l], i))
      BY <1>2, FreeOnNone, AppendBecomes, BecomesOne DEF AppendItem
    <2> QED
      BY <1>1, <2>1 DEF A!Appended, Represented
  <1>3. ASSUME Prepend(l, i) PROVE A!Prepended(l, i)
    <2>1. A!OnNoList(i) /\ A!Become(l, <<i>> \o c[l])
      BY <1>3, FreeOnNone, PrependBecomes, BecomesOne DEF Prepend
    <2> QED
      BY <1>1, <2>1 DEF A!Prepended, Represented
  <1>4. ASSUME NEW pos \in Nodes, InsertPos(l, pos, i) PROVE A!InsertedBefore(l, pos, i)
    <2>1. A!OnNoList(i) /\ A!Become(l, A!PutBefore(c[l], pos, <<i>>))
      BY <1>4, FreeOnNone, InsertPosBecomes, BecomesOne DEF InsertPos
    <2> QED
      BY <1>1, <2>1 DEF A!InsertedBefore, Represented
  <1> QED
    BY <1>2, <1>3, <1>4

LEMMA InsertAgrees ==
  ASSUME NEW c \in Contents, Holds(c, front), NEW l \in Lists, NEW i \in Items, NEW idx \in 0 .. length[l],
         Insert(l, i, idx)
  PROVE  A!InsertedAt(l, i, idx) \/ (front[l] # 0 /\ idx >= Len(Forward(l)))
  <1>1. Represented[l] = c[l] /\ Forward(l) = c[l] /\ Len(c[l]) \in Nat
    BY RepresentedIs, ForwardIs, ContentsType
  <1>2. idx \in Nat /\ idx < length[l] /\ length[l] = Len(c[l]) + front[l] /\ front[l] \in Nat /\ Free(i)
    BY DEF Holds, PointerType, Insert
  <1>3. CASE idx >= Len(c[l])
    BY <1>1, <1>2, <1>3
  <1>4. CASE idx < Len(c[l])
    <2>1. PICK over : over = front
      OBVIOUS
    <2>2. Holds(c, over)
      BY <2>1
    <2>3. PICK p \in 0 .. Len(c[l]) :
            /\ Becomes(With(c, l, p, i), Counted(over, l, idx))
            /\ idx <= Len(c[l]) => p = idx
      BY <1>2, <2>2, InsertBecomes
    <2>3a. p = idx
      BY <1>1, <1>2, <1>4, <2>3
    <2>4. A!OnNoList(i) /\ A!Become(l, PutAt(c[l], idx + 1, <<i>>))
      BY <1>2, <2>2, <2>3, <2>3a, FreeOnNone, BecomesOne DEF With
    <2>5. idx + 1 \in 1 .. Len(c[l]) + 1 /\ Node(c[l], l, idx + 1) = c[l][idx + 1]
      BY <1>1, <1>2, <1>4 DEF Node
    <2>6. A!PutBefore(c[l], c[l][idx + 1], <<i>>) = PutAt(c[l], idx + 1, <<i>>)
      BY <2>5, PutBeforeNode
    <2> QED
      BY <1>1, <1>4, <2>4, <2>6 DEF A!InsertedAt, Represented
  <1> QED
    BY <1>1, <1>2, <1>3, <1>4

LEMMA RemovesAgree ==
  ASSUME NEW c \in Contents, NEW over, Holds(c, over), NEW l \in Lists
  PROVE  /\ \A i \in Items : RemoveItem(l, i) => A!Removed(l, i)
         /\ RemoveFirst(l) => A!FirstRemoved(l)
         /\ RemoveLast(l) => A!LastRemoved(l)
  <1>1. Represented[l] = c[l]
    BY RepresentedIs
  <1>2. ASSUME NEW i \in Items, RemoveItem(l, i) PROVE A!Removed(l, i)
    <2>1. PICK k \in DOMAIN c[l] : c[l][k] = i /\ Becomes([c EXCEPT ![l] = A!RemoveAt(c[l], k)], over)
      BY <1>2, RemoveBecomes DEF Nodes
    <2>2. A!Become(l, A!RemoveAt(c[l], k))
      BY <2>1, BecomesOne
    <2> QED
      BY <1>1, <2>1, <2>2 DEF A!Removed, Represented
  <1>3. ASSUME RemoveFirst(l) PROVE A!FirstRemoved(l)
    <2>1. c[l] # <<>> /\ A!Become(l, Tail(c[l]))
      BY <1>3, RemoveFirstBecomes, BecomesOne
    <2> QED
      BY <1>1, <2>1 DEF A!FirstRemoved, Represented
  <1>4. ASSUME RemoveLast(l) PROVE A!LastRemoved(l)
    <2>1. c[l] # <<>> /\ A!Become(l, A!Front(c[l]))
      BY <1>4, RemoveLastBecomes, BecomesOne DEF A!Front
    <2> QED
      BY <1>1, <2>1 DEF A!LastRemoved, Represented
  <1> QED
    BY <1>2, <1>3, <1>4

LEMMA SortAgrees ==
  ASSUME NEW c \in Contents, NEW over, Holds(c, over), NEW l \in Lists, Sort(l)
  PROVE  A!Sorted(l)
  <1>1. Represented[l] = c[l]
    BY RepresentedIs
  <1>2. PICK s \in A!SetToSeqs(A!ToSet(c[l])) :
          /\ \A j, k \in DOMAIN s : j < k => Rank[s[j]] <= Rank[s[k]]
          /\ Becomes([c EXCEPT ![l] = s], over)
    BY SortBecomes
  <1>3. A!Become(l, s)
    BY <1>2, BecomesOne
  <1> QED
    BY <1>1, <1>2, <1>3 DEF A!Sorted, Represented

LEMMA JoinAgrees ==
  ASSUME NEW c \in Contents, NEW over, Holds(c, over), NEW l \in Lists, NEW pos \in Nodes, NEW x \in Lists, Join(l, pos, x)
  PROVE  A!Joined(l, pos, x)
  <1>1. Represented = c
    BY RepresentedIs
  <1>2. PICK d : d = [c EXCEPT ![x] = <<>>, ![l] = A!PutBefore(@, pos, c[x])]
    OBVIOUS
  <1>3. Represented' = d
    BY <1>2, JoinBecomes, RepresentedBecomes
  <1> QED
    BY <1>1, <1>2, <1>3 DEF A!Joined, Represented

LEMMA SpliceAgrees ==
  ASSUME NEW c \in Contents, NEW over, Holds(c, over), NEW l \in Lists, NEW pos \in Nodes, NEW x \in Lists,
         NEW a \in Nat, NEW b \in Nat, Splice(l, pos, x, a, b)
  PROVE  A!Spliced(l, pos, x, a, b)
  <1>1. Represented = c
    BY RepresentedIs
  <1>2. Represented' = AfterSplice(c, l, pos, x, a, b)
    BY SpliceBecomes, RepresentedBecomes
  <1> QED
    BY <1>1, <1>2, Zenon DEF A!Spliced, AfterSplice, Rest, Represented

(* For any items and lists, and from any lists that calls can build: each  *)
(* call of unit_list.h and unit_list.c does to the sequences of items what *)
(* its name says, and leaves the other lists alone; only an insert behind  *)
(* the end of a list that inserts at index 0 have miscounted is exempt.    *)
THEOREM CallsDoAsNamed == Spec => Contract
  <1> DEFINE AsNamed(l) ==
       /\ \A i \in Items :
            /\ AppendItem(l, i) => A!Appended(l, i)
            /\ Prepend(l, i) => A!Prepended(l, i)
            /\ RemoveItem(l, i) => A!Removed(l, i)
       /\ \A i \in Items, pos \in Nodes : InsertPos(l, pos, i) => A!InsertedBefore(l, pos, i)
       /\ \A i \in Items, idx \in 0 .. length[l] :
            Insert(l, i, idx) => A!InsertedAt(l, i, idx) \/ (front[l] # 0 /\ idx >= Len(Forward(l)))
       /\ RemoveFirst(l) => A!FirstRemoved(l)
       /\ RemoveLast(l) => A!LastRemoved(l)
       /\ Sort(l) => A!Sorted(l)
       /\ \A pos \in Nodes, x \in Lists : Join(l, pos, x) => A!Joined(l, pos, x)
       /\ \A pos \in Nodes, x \in Lists, a, b \in 1 .. Cardinality(Items) + 1 :
            Splice(l, pos, x, a, b) => A!Spliced(l, pos, x, a, b)
  <1>1. ListInv => \A l \in Lists : AsNamed(l)
    <2> SUFFICES ASSUME ListInv, NEW l \in Lists PROVE AsNamed(l)
      OBVIOUS
    <2>1. PICK c \in Contents : Holds(c, front)
      BY DEF ListInv
    <2>1a. PICK over : over = front
      OBVIOUS
    <2>1b. Holds(c, over)
      BY <2>1, <2>1a
    <2>2. ASSUME NEW pos \in Nodes, NEW x \in Lists, NEW a \in 1 .. Cardinality(Items) + 1,
                 NEW b \in 1 .. Cardinality(Items) + 1, Splice(l, pos, x, a, b)
          PROVE  A!Spliced(l, pos, x, a, b)
      <3>1. a \in Nat /\ b \in Nat
        BY UnitListAssumption, FS_CardinalityType
      <3> QED
        BY <2>1b, <2>2, <3>1, SpliceAgrees
    <2> QED
      BY <2>1, <2>1b, <2>2, InsertsAgree, InsertAgrees, RemovesAgree, SortAgrees, JoinAgrees
  <1>2. ListInv /\ [Next]_vars => [\A l \in Lists : AsNamed(l)]_vars
    BY <1>1
  <1> QED
    BY <1>2, ListInvHolds, PTL DEF Spec, Contract
=============================================================================
