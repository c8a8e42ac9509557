---------------------------- MODULE ArgvProofs ----------------------------
(***************************************************************************)
(* The argument vectors of unit/argv.c, for any strings and any number of  *)
(* elements: what is in memory stands for a sequence of strings, and each  *)
(* call does to the sequence what argv.h says.                             *)
(***************************************************************************)
EXTENDS Argv, FiniteSetTheorems, SequenceTheorems, WellFoundedInduction, TLAPS

-----------------------------------------------------------------------------
(* Induction over the natural numbers, with a set in the place of the      *)
(* predicate, and what the loops compute: what there is after k rounds,    *)
(* from what there was before.                                             *)

LEMMA Smallest ==
  ASSUME NEW S, S \subseteq Nat, S # {}
  PROVE  \E n \in S : \A m \in S : n <= m
  <1> DEFINE R == {p \in Nat \X Nat : p[1] < p[2]}
  <1>1. IsWellFoundedOn(R, Nat)
    BY NatLessThanWellFounded DEF OpToRel
  <1>2. PICK n \in S : \A m \in S : <<m, n>> \notin R
    BY <1>1, WFMin
  <1>3. \A m \in S : m < n => <<m, n>> \in R
    OBVIOUS
  <1> HIDE DEF R
  <1>4. \A m \in S : m \in Nat /\ n \in Nat /\ ~(m < n)
    BY <1>2, <1>3
  <1>5. \A m \in S : n <= m
    BY <1>4
  <1> QED
    BY <1>5

LEMMA InductionOnSets ==
  ASSUME NEW S, 0 \in S, \A n \in Nat : n \in S => n + 1 \in S
  PROVE  Nat \subseteq S
  <1> SUFFICES ASSUME Nat \ S # {} PROVE FALSE
    OBVIOUS
  <1>1. PICK n \in Nat \ S : \A m \in Nat \ S : n <= m
    BY Smallest
  <1>2. n # 0 /\ n - 1 \in Nat /\ n - 1 \notin Nat \ S
    BY <1>1
  <1> QED
    BY <1>1, <1>2

LEMMA MoveIs ==
  ASSUME NEW cells, NEW is, NEW d, Len(is) \in Nat
  PROVE  \E g : /\ Move(cells, is, d) = g[Len(is)] /\ g[0] = cells
               /\ \A k \in 1 .. Len(is) : g[k] = MoveOne(g[k - 1], is[k], d)
  <1> DEFINE n == Len(is)
             Def(g, k) == IF k = 0 THEN cells ELSE MoveOne(g[k - 1], is[k], d)
             Upto(g, j) == g = [k \in 0 .. j |-> Def(g, k)]
             Defined == {j \in Nat : \E g : Upto(g, j)}
             after[k \in 0 .. n] == Def(after, k)
  <1>1. ASSUME NEW g, NEW h, NEW k \in Nat, k # 0 => g[k - 1] = h[k - 1] PROVE Def(g, k) = Def(h, k)
    BY <1>1
  <1>2. Move(cells, is, d) = after[n]
    BY DEF Move, after, Def, n
  <1>3. \A g : Def(g, 0) = cells /\ \A k \in 1 .. n : Def(g, k) = MoveOne(g[k - 1], is[k], d)
    OBVIOUS
  <1> HIDE DEF Def, n, after
  <1>4. 0 \in Defined
    <2> DEFINE h == [k \in 0 .. 0 |-> cells]
    <2>1. Upto(h, 0)
      <3>1. \A k \in 0 .. 0 : h[k] = Def(h, k)
        BY <1>3
      <3> QED
        BY <3>1
    <2> HIDE DEF h
    <2> QED
      BY <2>1
  <1>5. ASSUME NEW j \in Nat, j \in Defined PROVE j + 1 \in Defined
    <2>1. PICK g : Upto(g, j)
      BY <1>5
    <2> DEFINE h == [k \in 0 .. j + 1 |-> IF k = j + 1 THEN Def(g, j + 1) ELSE g[k]]
    <2>2. (\A k \in 0 .. j : h[k] = g[k] /\ g[k] = Def(g, k)) /\ h[j + 1] = Def(g, j + 1)
      <3>1. \A k \in 0 .. j : g[k] = Def(g, k)
        BY <2>1
      <3>2. (\A k \in 0 .. j : h[k] = g[k]) /\ h[j + 1] = Def(g, j + 1)
        OBVIOUS
      <3> QED
        BY <3>1, <3>2
    <2> HIDE DEF h
    <2>3. \A k \in 0 .. j + 1 : Def(h, k) = Def(g, k)
      <3> SUFFICES ASSUME NEW k \in 0 .. j + 1 PROVE Def(h, k) = Def(g, k)
        OBVIOUS
      <3>1. k \in Nat /\ (k # 0 => h[k - 1] = g[k - 1])
        BY <2>2
      <3> QED
        BY <1>1, <3>1
    <2>4. \A k \in 0 .. j + 1 : h[k] = Def(h, k)
      BY <2>2, <2>3
    <2>5. Upto(h, j + 1)
      BY <2>4 DEF h
    <2> QED
      BY <2>5
  <1>6. n \in Defined
    <2> HIDE DEF Defined
    <2>1. Nat \subseteq Defined
      BY <1>4, <1>5, InductionOnSets
    <2> QED
      BY <2>1 DEF n
  <1>7. Upto(after, n)
    <2>1. PICK g : Upto(g, n)
      BY <1>6
    <2> QED
      BY <2>1 DEF after
  <1>8. \A k \in 0 .. n : after[k] = Def(after, k)
    BY <1>7
  <1>9. after[0] = cells /\ \A k \in 1 .. n : after[k] = MoveOne(after[k - 1], is[k], d)
    <2>1. n \in Nat
      BY DEF n
    <2>2. \A k \in 1 .. n : Def(after, k) = MoveOne(after[k - 1], is[k], d)
      BY <1>3
    <2> QED
      BY <1>3, <1>8, <2>1, <2>2
  <1> QED
    BY <1>2, <1>9 DEF n

LEMMA StrdupAllIs ==
  ASSUME NEW m, NEW start, NEW source, Len(source) \in Nat
  PROVE  \E g : /\ StrdupAll(m, start, source) = g[Len(source)] /\ g[0] = m
               /\ \A k \in 1 .. Len(source) : g[k] = Strdup(g[k - 1], start + k - 1, source[k])
  <1> DEFINE n == Len(source)
             Def(g, k) == IF k = 0 THEN m ELSE Strdup(g[k - 1], start + k - 1, source[k])
             Upto(g, j) == g = [k \in 0 .. j |-> Def(g, k)]
             Defined == {j \in Nat : \E g : Upto(g, j)}
             after[k \in 0 .. n] == Def(after, k)
  <1>1. ASSUME NEW g, NEW h, NEW k \in Nat, k # 0 => g[k - 1] = h[k - 1] PROVE Def(g, k) = Def(h, k)
    BY <1>1
  <1>2. StrdupAll(m, start, source) = after[n]
    BY DEF StrdupAll, after, Def, n
  <1>3. \A g : Def(g, 0) = m /\ \A k \in 1 .. n : Def(g, k) = Strdup(g[k - 1], start + k - 1, source[k])
    OBVIOUS
  <1> HIDE DEF Def, n, after
  <1>4. 0 \in Defined
    <2> DEFINE h == [k \in 0 .. 0 |-> m]
    <2>1. Upto(h, 0)
      <3>1. \A k \in 0 .. 0 : h[k] = Def(h, k)
        BY <1>3
      <3> QED
        BY <3>1
    <2> HIDE DEF h
    <2> QED
      BY <2>1
  <1>5. ASSUME NEW j \in Nat, j \in Defined PROVE j + 1 \in Defined
    <2>1. PICK g : Upto(g, j)
      BY <1>5
    <2> DEFINE h == [k \in 0 .. j + 1 |-> IF k = j + 1 THEN Def(g, j + 1) ELSE g[k]]
    <2>2. (\A k \in 0 .. j : h[k] = g[k] /\ g[k] = Def(g, k)) /\ h[j + 1] = Def(g, j + 1)
      <3>1. \A k \in 0 .. j : g[k] = Def(g, k)
        BY <2>1
      <3>2. (\A k \in 0 .. j : h[k] = g[k]) /\ h[j + 1] = Def(g, j + 1)
        OBVIOUS
      <3> QED
        BY <3>1, <3>2
    <2> HIDE DEF h
    <2>3. \A k \in 0 .. j + 1 : Def(h, k) = Def(g, k)
      <3> SUFFICES ASSUME NEW k \in 0 .. j + 1 PROVE Def(h, k) = Def(g, k)
        OBVIOUS
      <3>1. k \in Nat /\ (k # 0 => h[k - 1] = g[k - 1])
        BY <2>2
      <3> QED
        BY <1>1, <3>1
    <2>4. \A k \in 0 .. j + 1 : h[k] = Def(h, k)
      BY <2>2, <2>3
    <2>5. Upto(h, j + 1)
      BY <2>4 DEF h
    <2> QED
      BY <2>5
  <1>6. n \in Defined
    <2> HIDE DEF Defined
    <2>1. Nat \subseteq Defined
      BY <1>4, <1>5, InductionOnSets
    <2> QED
      BY <2>1 DEF n
  <1>7. Upto(after, n)
    <2>1. PICK g : Upto(g, n)
      BY <1>6
    <2> QED
      BY <2>1 DEF after
  <1>8. \A k \in 0 .. n : after[k] = Def(after, k)
    BY <1>7
  <1>9. after[0] = m /\ \A k \in 1 .. n : after[k] = Strdup(after[k - 1], start + k - 1, source[k])
    <2>1. n \in Nat
      BY DEF n
    <2>2. \A k \in 1 .. n : Def(after, k) = Strdup(after[k - 1], start + k - 1, source[k])
      BY <1>3
    <2> QED
      BY <1>3, <1>8, <2>1, <2>2
  <1> QED
    BY <1>2, <1>9 DEF n

LEMMA AppendAllIs ==
  ASSUME NEW m, NEW args, Len(args) \in Nat
  PROVE  \E g : /\ AppendAll(m, args) = g[Len(args)] /\ g[0] = m
               /\ \A k \in 1 .. Len(args) : g[k] = AppendNosize(g[k - 1], args[k])
  <1> DEFINE n == Len(args)
             Def(g, k) == IF k = 0 THEN m ELSE AppendNosize(g[k - 1], args[k])
             Upto(g, j) == g = [k \in 0 .. j |-> Def(g, k)]
             Defined == {j \in Nat : \E g : Upto(g, j)}
             after[k \in 0 .. n] == Def(after, k)
  <1>1. ASSUME NEW g, NEW h, NEW k \in Nat, k # 0 => g[k - 1] = h[k - 1] PROVE Def(g, k) = Def(h, k)
    BY <1>1
  <1>2. AppendAll(m, args) = after[n]
    BY DEF AppendAll, after, Def, n
  <1>3. \A g : Def(g, 0) = m /\ \A k \in 1 .. n : Def(g, k) = AppendNosize(g[k - 1], args[k])
    OBVIOUS
  <1> HIDE DEF Def, n, after
  <1>4. 0 \in Defined
    <2> DEFINE h == [k \in 0 .. 0 |-> m]
    <2>1. Upto(h, 0)
      <3>1. \A k \in 0 .. 0 : h[k] = Def(h, k)
        BY <1>3
      <3> QED
        BY <3>1
    <2> HIDE DEF h
    <2> QED
      BY <2>1
  <1>5. ASSUME NEW j \in Nat, j \in Defined PROVE j + 1 \in Defined
    <2>1. PICK g : Upto(g, j)
      BY <1>5
    <2> DEFINE h == [k \in 0 .. j + 1 |-> IF k = j + 1 THEN Def(g, j + 1) ELSE g[k]]
    <2>2. (\A k \in 0 .. j : h[k] = g[k] /\ g[k] = Def(g, k)) /\ h[j + 1] = Def(g, j + 1)
      <3>1. \A k \in 0 .. j : g[k] = Def(g, k)
        BY <2>1
      <3>2. (\A k \in 0 .. j : h[k] = g[k]) /\ h[j + 1] = Def(g, j + 1)
        OBVIOUS
      <3> QED
        BY <3>1, <3>2
    <2> HIDE DEF h
    <2>3. \A k \in 0 .. j + 1 : Def(h, k) = Def(g, k)
      <3> SUFFICES ASSUME NEW k \in 0 .. j + 1 PROVE Def(h, k) = Def(g, k)
        OBVIOUS
      <3>1. k \in Nat /\ (k # 0 => h[k - 1] = g[k - 1])
        BY <2>2
      <3> QED
        BY <1>1, <3>1
    <2>4. \A k \in 0 .. j + 1 : h[k] = Def(h, k)
      BY <2>2, <2>3
    <2>5. Upto(h, j + 1)
      BY <2>4 DEF h
    <2> QED
      BY <2>5
  <1>6. n \in Defined
    <2> HIDE DEF Defined
    <2>1. Nat \subseteq Defined
      BY <1>4, <1>5, InductionOnSets
    <2> QED
      BY <2>1 DEF n
  <1>7. Upto(after, n)
    <2>1. PICK g : Upto(g, n)
      BY <1>6
    <2> QED
      BY <2>1 DEF after
  <1>8. \A k \in 0 .. n : after[k] = Def(after, k)
    BY <1>7
  <1>9. after[0] = m /\ \A k \in 1 .. n : after[k] = AppendNosize(after[k - 1], args[k])
    <2>1. n \in Nat
      BY DEF n
    <2>2. \A k \in 1 .. n : Def(after, k) = AppendNosize(after[k - 1], args[k])
      BY <1>3
    <2> QED
      BY <1>3, <1>8, <2>1, <2>2
  <1> QED
    BY <1>2, <1>9 DEF n

LEMMA PiecesIs ==
  ASSUME NEW string, Len(string) \in Nat
  PROVE  \E g : /\ Pieces(string) = g[Len(string)] /\ g[0] = <<<<>>>>
               /\ \A k \in 1 .. Len(string) : g[k] = Piece(g[k - 1], string[k])
  <1> DEFINE n == Len(string)
             Def(g, k) == IF k = 0 THEN <<<<>>>> ELSE Piece(g[k - 1], string[k])
             Upto(g, j) == g = [k \in 0 .. j |-> Def(g, k)]
             Defined == {j \in Nat : \E g : Upto(g, j)}
             after[k \in 0 .. n] == Def(after, k)
  <1>1. ASSUME NEW g, NEW h, NEW k \in Nat, k # 0 => g[k - 1] = h[k - 1] PROVE Def(g, k) = Def(h, k)
    BY <1>1
  <1>2. Pieces(string) = after[n]
    BY DEF Pieces, after, Def, n
  <1>3. \A g : Def(g, 0) = <<<<>>>> /\ \A k \in 1 .. n : Def(g, k) = Piece(g[k - 1], string[k])
    OBVIOUS
  <1> HIDE DEF Def, n, after
  <1>4. 0 \in Defined
    <2> DEFINE h == [k \in 0 .. 0 |-> <<<<>>>>]
    <2>1. Upto(h, 0)
      <3>1. \A k \in 0 .. 0 : h[k] = Def(h, k)
        BY <1>3
      <3> QED
        BY <3>1
    <2> HIDE DEF h
    <2> QED
      BY <2>1
  <1>5. ASSUME NEW j \in Nat, j \in Defined PROVE j + 1 \in Defined
    <2>1. PICK g : Upto(g, j)
      BY <1>5
    <2> DEFINE h == [k \in 0 .. j + 1 |-> IF k = j + 1 THEN Def(g, j + 1) ELSE g[k]]
    <2>2. (\A k \in 0 .. j : h[k] = g[k] /\ g[k] = Def(g, k)) /\ h[j + 1] = Def(g, j + 1)
      <3>1. \A k \in 0 .. j : g[k] = Def(g, k)
        BY <2>1
      <3>2. (\A k \in 0 .. j : h[k] = g[k]) /\ h[j + 1] = Def(g, j + 1)
        OBVIOUS
      <3> QED
        BY <3>1, <3>2
    <2> HIDE DEF h
    <2>3. \A k \in 0 .. j + 1 : Def(h, k) = Def(g, k)
      <3> SUFFICES ASSUME NEW k \in 0 .. j + 1 PROVE Def(h, k) = Def(g, k)
        OBVIOUS
      <3>1. k \in Nat /\ (k # 0 => h[k - 1] = g[k - 1])
        BY <2>2
      <3> QED
        BY <1>1, <3>1
    <2>4. \A k \in 0 .. j + 1 : h[k] = Def(h, k)
      BY <2>2, <2>3
    <2>5. Upto(h, j + 1)
      BY <2>4 DEF h
    <2> QED
      BY <2>5
  <1>6. n \in Defined
    <2> HIDE DEF Defined
    <2>1. Nat \subseteq Defined
      BY <1>4, <1>5, InductionOnSets
    <2> QED
      BY <2>1 DEF n
  <1>7. Upto(after, n)
    <2>1. PICK g : Upto(g, n)
      BY <1>6
    <2> QED
      BY <2>1 DEF after
  <1>8. \A k \in 0 .. n : after[k] = Def(after, k)
    BY <1>7
  <1>9. after[0] = <<<<>>>> /\ \A k \in 1 .. n : after[k] = Piece(after[k - 1], string[k])
    <2>1. n \in Nat
      BY DEF n
    <2>2. \A k \in 1 .. n : Def(after, k) = Piece(after[k - 1], string[k])
      BY <1>3
    <2> QED
      BY <1>3, <1>8, <2>1, <2>2
  <1> QED
    BY <1>2, <1>9 DEF n

LEMMA NonEmptyIs ==
  ASSUME NEW ps, Len(ps) \in Nat
  PROVE  \E g : /\ NonEmpty(ps) = g[Len(ps)] /\ g[0] = <<>>
               /\ \A k \in 1 .. Len(ps) : g[k] = Keep(g[k - 1], ps[k])
  <1> DEFINE n == Len(ps)
             Def(g, k) == IF k = 0 THEN <<>> ELSE Keep(g[k - 1], ps[k])
             Upto(g, j) == g = [k \in 0 .. j |-> Def(g, k)]
             Defined == {j \in Nat : \E g : Upto(g, j)}
             after[k \in 0 .. n] == Def(after, k)
  <1>1. ASSUME NEW g, NEW h, NEW k \in Nat, k # 0 => g[k - 1] = h[k - 1] PROVE Def(g, k) = Def(h, k)
    BY <1>1
  <1>2. NonEmpty(ps) = after[n]
    BY DEF NonEmpty, after, Def, n
  <1>3. \A g : Def(g, 0) = <<>> /\ \A k \in 1 .. n : Def(g, k) = Keep(g[k - 1], ps[k])
    OBVIOUS
  <1> HIDE DEF Def, n, after
  <1>4. 0 \in Defined
    <2> DEFINE h == [k \in 0 .. 0 |-> <<>>]
    <2>1. Upto(h, 0)
      <3>1. \A k \in 0 .. 0 : h[k] = Def(h, k)
        BY <1>3
      <3> QED
        BY <3>1
    <2> HIDE DEF h
    <2> QED
      BY <2>1
  <1>5. ASSUME NEW j \in Nat, j \in Defined PROVE j + 1 \in Defined
    <2>1. PICK g : Upto(g, j)
      BY <1>5
    <2> DEFINE h == [k \in 0 .. j + 1 |-> IF k = j + 1 THEN Def(g, j + 1) ELSE g[k]]
    <2>2. (\A k \in 0 .. j : h[k] = g[k] /\ g[k] = Def(g, k)) /\ h[j + 1] = Def(g, j + 1)
      <3>1. \A k \in 0 .. j : g[k] = Def(g, k)
        BY <2>1
      <3>2. (\A k \in 0 .. j : h[k] = g[k]) /\ h[j + 1] = Def(g, j + 1)
        OBVIOUS
      <3> QED
        BY <3>1, <3>2
    <2> HIDE DEF h
    <2>3. \A k \in 0 .. j + 1 : Def(h, k) = Def(g, k)
      <3> SUFFICES ASSUME NEW k \in 0 .. j + 1 PROVE Def(h, k) = Def(g, k)
        OBVIOUS
      <3>1. k \in Nat /\ (k # 0 => h[k - 1] = g[k - 1])
        BY <2>2
      <3> QED
        BY <1>1, <3>1
    <2>4. \A k \in 0 .. j + 1 : h[k] = Def(h, k)
      BY <2>2, <2>3
    <2>5. Upto(h, j + 1)
      BY <2>4 DEF h
    <2> QED
      BY <2>5
  <1>6. n \in Defined
    <2> HIDE DEF Defined
    <2>1. Nat \subseteq Defined
      BY <1>4, <1>5, InductionOnSets
    <2> QED
      BY <2>1 DEF n
  <1>7. Upto(after, n)
    <2>1. PICK g : Upto(g, n)
      BY <1>6
    <2> QED
      BY <2>1 DEF after
  <1>8. \A k \in 0 .. n : after[k] = Def(after, k)
    BY <1>7
  <1>9. after[0] = <<>> /\ \A k \in 1 .. n : after[k] = Keep(after[k - 1], ps[k])
    <2>1. n \in Nat
      BY DEF n
    <2>2. \A k \in 1 .. n : Def(after, k) = Keep(after[k - 1], ps[k])
      BY <1>3
    <2> QED
      BY <1>3, <1>8, <2>1, <2>2
  <1> QED
    BY <1>2, <1>9 DEF n

-----------------------------------------------------------------------------
(* What memory stands for.  In the heap f are the strings of a vector, and *)
(* those of others, h.  Partly: the cells A of the array have strings of   *)
(* their own, the elements of t; the others are still to be filled.        *)

HeapOK(f, h) ==
  /\ IsFiniteSet(DOMAIN f) /\ DOMAIN f \subseteq Nat \ {0} /\ f = [p \in DOMAIN f |-> f[p]]
  /\ h = [p \in DOMAIN h |-> h[p]] /\ DOMAIN h \subseteq DOMAIN f /\ \A p \in DOMAIN h : f[p] = h[p]

Partly(m, t, A, h) ==
  /\ m = [argv |-> m.argv, heap |-> m.heap] /\ HeapOK(m.heap, h)
  /\ t \in Seq(Word)
  /\ m.argv \in [0 .. Len(t) -> Int] /\ m.argv[Len(t)] = Null
  /\ A \subseteq 0 .. Len(t) - 1
  /\ \A i \in A : m.argv[i] \in DOMAIN m.heap \ DOMAIN h /\ m.heap[m.argv[i]] = t[i + 1]
  /\ \A i, j \in A : m.argv[i] = m.argv[j] => i = j
  /\ \A p \in DOMAIN m.heap \ DOMAIN h : \E i \in A : m.argv[i] = p

Empty(m, h) ==
  /\ m = [argv |-> m.argv, heap |-> m.heap] /\ HeapOK(m.heap, h)
  /\ m.argv = NoArray /\ DOMAIN m.heap = DOMAIN h

Full(m, s, h) == Partly(m, s, 0 .. Len(s) - 1, h)
Stands(m, s, h) == Full(m, s, h) \/ (s = <<>> /\ Empty(m, h))

LEMMA IndexInterval ==
  ASSUME NEW n \in Nat
  PROVE  IsFiniteSet(0 .. n - 1) /\ Cardinality(0 .. n - 1) = n
  <1>1. 0 \in Int /\ n - 1 \in Int
    OBVIOUS
  <1>2. IsFiniteSet(0 .. n - 1) /\ Cardinality(0 .. n - 1) = IF 0 > n - 1 THEN 0 ELSE n - 1 - 0 + 1
    BY <1>1, FS_Interval
  <1> QED
    BY <1>2

(* pmix_argv_count stops at the first NULL.                                *)
LEMMA CountIs ==
  ASSUME NEW m, NEW n \in Nat, m.argv \in [0 .. n -> Int],
         m.argv[n] = Null, \A i \in 0 .. n - 1 : m.argv[i] # Null
  PROVE  Count(m) = n
  <1> DEFINE S == {i \in DOMAIN m.argv : \A j \in 0 .. i : Load(m.argv, j) # Null}
  <1>1. S = 0 .. n - 1
    <2>1. ASSUME NEW i \in S PROVE i \in 0 .. n - 1
      <3>1. i \in 0 .. n /\ Load(m.argv, i) # Null
        OBVIOUS
      <3>2. i # n
        BY <3>1 DEF Load
      <3> QED
        BY <3>1, <3>2
    <2>2. ASSUME NEW i \in 0 .. n - 1 PROVE i \in S
      BY DEF Load
    <2> HIDE DEF S
    <2> QED
      BY <2>1, <2>2
  <1> QED
    BY <1>1, IndexInterval DEF Count

LEMMA FullCells ==
  ASSUME NEW m, NEW s, NEW h, Full(m, s, h)
  PROVE  /\ Len(s) \in Nat /\ DOMAIN s = 1 .. Len(s) /\ s \in Seq(Word)
         /\ m.argv \in [0 .. Len(s) -> Int] /\ m.argv[Len(s)] = Null /\ DOMAIN m.argv = 0 .. Len(s)
         /\ \A i \in 0 .. Len(s) - 1 : /\ m.argv[i] # Null /\ m.argv[i] \in DOMAIN m.heap \ DOMAIN h
                                       /\ m.heap[m.argv[i]] = s[i + 1]
  <1>1. Len(s) \in Nat /\ DOMAIN s = 1 .. Len(s)
    BY LenProperties DEF Full, Partly
  <1> QED
    BY <1>1 DEF Full, Partly, HeapOK, Null

LEMMA StandsFor ==
  ASSUME NEW m, NEW s, NEW h, Stands(m, s, h)
  PROVE  Count(m) = Len(s) /\ Elements(m) = s /\ s \in Seq(Word) /\ Len(s) \in Nat
  <1>1. CASE Full(m, s, h)
    <2>1. Count(m) = Len(s)
      <3>1. /\ Len(s) \in Nat /\ m.argv \in [0 .. Len(s) -> Int] /\ m.argv[Len(s)] = Null
            /\ \A i \in 0 .. Len(s) - 1 : m.argv[i] # Null
        BY <1>1, FullCells
      <3> QED
        BY <3>1, CountIs
    <2>2. s \in Seq(Word) /\ Len(s) \in Nat
      BY <1>1, FullCells
    <2>3. \A k \in 1 .. Len(s) : m.heap[m.argv[k - 1]] = s[k]
      <3> SUFFICES ASSUME NEW k \in 1 .. Len(s) PROVE m.heap[m.argv[k - 1]] = s[k]
        OBVIOUS
      <3>1. k - 1 \in 0 .. Len(s) - 1 /\ (k - 1) + 1 = k
        BY <2>2
      <3> QED
        BY <1>1, <3>1, FullCells
    <2>4. Elements(m) = [k \in 1 .. Len(s) |-> s[k]]
      BY <2>1, <2>3 DEF Elements
    <2>5. s = [k \in 1 .. Len(s) |-> s[k]]
      BY <2>2, LenProperties
    <2> QED
      BY <2>1, <2>2, <2>4, <2>5
  <1>2. CASE s = <<>> /\ Empty(m, h)
    <2>1. {i \in DOMAIN m.argv : \A j \in 0 .. i : Load(m.argv, j) # Null} = {}
      BY <1>2 DEF Empty, NoArray
    <2>2. Count(m) = 0
      BY <2>1, FS_EmptySet DEF Count
    <2>3. Elements(m) = <<>>
      BY <2>2 DEF Elements
    <2> QED
      BY <1>2, <2>2, <2>3
  <1> QED
    BY <1>1, <1>2 DEF Stands

(* strdup finds an address that is free.                                   *)
LEMMA FreshAddress ==
  ASSUME NEW S, IsFiniteSet(S)
  PROVE  \E p \in 1 .. Cardinality(S) + 1 : p \notin S
  <1> DEFINE n == Cardinality(S)
  <1>1. n \in Nat
    BY FS_CardinalityType
  <1> SUFFICES ASSUME 1 .. n + 1 \subseteq S PROVE FALSE
    OBVIOUS
  <1>2. Cardinality(1 .. n + 1) = n + 1
    <2>1. Cardinality(1 .. n + 1) = IF 1 > n + 1 THEN 0 ELSE n + 1 - 1 + 1
      BY <1>1, FS_Interval
    <2> QED
      BY <1>1, <2>1
  <1>3. Cardinality(1 .. n + 1) <= n
    BY FS_Subset
  <1> QED
    BY <1>1, <1>2, <1>3

StrdupTo(m, i, arg, p) ==
  [argv |-> Store(m.argv, i, p),
   heap |-> [q \in DOMAIN m.heap \cup {p} |-> IF q = p THEN arg ELSE m.heap[q]]]

LEMMA StrdupIs ==
  ASSUME NEW m, NEW i, NEW arg, IsFiniteSet(DOMAIN m.heap)
  PROVE  \E p \in Nat \ {0} : p \notin DOMAIN m.heap /\ Strdup(m, i, arg) = StrdupTo(m, i, arg, p)
  <1> DEFINE n == Cardinality(DOMAIN m.heap)
             p == CHOOSE p \in 1 .. n + 1 : p \notin DOMAIN m.heap
  <1>1. p \in 1 .. n + 1 /\ p \notin DOMAIN m.heap
    BY FreshAddress
  <1>2. n \in Nat
    BY FS_CardinalityType
  <1>3. Strdup(m, i, arg) = StrdupTo(m, i, arg, p)
    BY DEF Strdup, StrdupTo
  <1> HIDE DEF p, n
  <1> QED
    BY <1>1, <1>2, <1>3

(* Another cell is filled.                                                 *)
LEMMA StrdupFills ==
  ASSUME NEW m, NEW t, NEW A, NEW h, Partly(m, t, A, h), NEW i \in 0 .. Len(t) - 1, i \notin A
  PROVE  Partly(Strdup(m, i, t[i + 1]), t, A \cup {i}, h)
  <1>1. /\ Len(t) \in Nat /\ t \in Seq(Word) /\ A \subseteq 0 .. Len(t) - 1
        /\ m.argv \in [0 .. Len(t) -> Int] /\ m.argv[Len(t)] = Null
        /\ IsFiniteSet(DOMAIN m.heap) /\ DOMAIN m.heap \subseteq Nat \ {0} /\ DOMAIN h \subseteq DOMAIN m.heap
        /\ h = [q \in DOMAIN h |-> h[q]] /\ \A q \in DOMAIN h : m.heap[q] = h[q]
    BY LenProperties DEF Partly, HeapOK
  <1>2. PICK p \in Nat \ {0} : p \notin DOMAIN m.heap /\ Strdup(m, i, t[i + 1]) = StrdupTo(m, i, t[i + 1], p)
    BY <1>1, StrdupIs
  <1> DEFINE x == Strdup(m, i, t[i + 1])
  <1>3. /\ x = [argv |-> x.argv, heap |-> x.heap] /\ x.argv = Store(m.argv, i, p)
        /\ x.heap = [q \in DOMAIN m.heap \cup {p} |-> IF q = p THEN t[i + 1] ELSE m.heap[q]]
    BY <1>2 DEF StrdupTo
  <1> HIDE DEF x
  <1>4. /\ DOMAIN x.heap = DOMAIN m.heap \cup {p} /\ x.heap[p] = t[i + 1]
        /\ \A q \in DOMAIN m.heap : x.heap[q] = m.heap[q]
    BY <1>2, <1>3
  <1>5. HeapOK(x.heap, h)
    <2>1. IsFiniteSet(DOMAIN x.heap)
      <3>1. IsFiniteSet(DOMAIN m.heap \cup {p})
        BY <1>1, FS_AddElement
      <3> QED
        BY <1>4, <3>1
    <2>2. x.heap = [q \in DOMAIN x.heap |-> x.heap[q]]
      BY <1>3
    <2> QED
      BY <1>1, <1>4, <2>1, <2>2 DEF HeapOK
  <1>6. x.argv = [m.argv EXCEPT ![i] = p]
    BY <1>1, <1>3 DEF Store
  <1>7. /\ x.argv \in [0 .. Len(t) -> Int] /\ x.argv[i] = p
        /\ \A j \in 0 .. Len(t) : j # i => x.argv[j] = m.argv[j]
    BY <1>1, <1>6
  <1>8. x.argv[Len(t)] = Null
    BY <1>1, <1>7
  <1>9. /\ \A j \in A : m.argv[j] \in DOMAIN m.heap \ DOMAIN h /\ m.heap[m.argv[j]] = t[j + 1]
        /\ \A j, k \in A : m.argv[j] = m.argv[k] => j = k
        /\ \A q \in DOMAIN m.heap \ DOMAIN h : \E j \in A : m.argv[j] = q
    BY DEF Partly
  <1>10. \A j \in A : x.argv[j] = m.argv[j] /\ x.argv[j] # p
    <2>1. \A j \in A : j \in 0 .. Len(t) /\ j # i
      BY <1>1
    <2>2. \A j \in A : x.argv[j] = m.argv[j]
      BY <1>7, <2>1
    <2> QED
      BY <1>2, <1>9, <2>2
  <1>11. \A j \in A \cup {i} : x.argv[j] \in DOMAIN x.heap \ DOMAIN h /\ x.heap[x.argv[j]] = t[j + 1]
    BY <1>1, <1>2, <1>4, <1>7, <1>9, <1>10
  <1>12. \A j, k \in A \cup {i} : x.argv[j] = x.argv[k] => j = k
    BY <1>7, <1>9, <1>10
  <1>13. \A q \in DOMAIN x.heap \ DOMAIN h : \E j \in A \cup {i} : x.argv[j] = q
    BY <1>4, <1>7, <1>9, <1>10
  <1>14. A \cup {i} \subseteq 0 .. Len(t) - 1
    BY <1>1
  <1>15. Partly(x, t, A \cup {i}, h)
    BY <1>1, <1>3, <1>5, <1>7, <1>8, <1>11, <1>12, <1>13, <1>14 DEF Partly
  <1> QED
    BY <1>15 DEF x

(* The gap behind the cell start is filled from source.                    *)
Gap(t, start, n) == {i \in 0 .. Len(t) - 1 : i < start \/ start + n <= i}

LEMMA StrdupAllFills ==
  ASSUME NEW m, NEW t, NEW h, NEW source, Len(source) \in Nat, NEW start \in Nat,
         start + Len(source) <= Len(t), Partly(m, t, Gap(t, start, Len(source)), h),
         \A k \in 1 .. Len(source) : source[k] = t[start + k]
  PROVE  Full(StrdupAll(m, start, source), t, h)
  <1> DEFINE n == Len(source)
             A(k) == Gap(t, start, n) \cup start .. start + k - 1
  <1>1. Len(t) \in Nat
    BY LenProperties DEF Partly
  <1>2. PICK g : /\ StrdupAll(m, start, source) = g[n] /\ g[0] = m
                 /\ \A k \in 1 .. n : g[k] = Strdup(g[k - 1], start + k - 1, source[k])
    BY StrdupAllIs
  <1> DEFINE Filled2 == {k \in Nat : k <= n => Partly(g[k], t, A(k), h)}
  <1>3. 0 \in Filled2
    <2>1. A(0) = Gap(t, start, n)
      OBVIOUS
    <2> QED
      BY <1>2, <2>1
  <1>4. ASSUME NEW k \in Nat, k \in Filled2 PROVE k + 1 \in Filled2
    <2> SUFFICES ASSUME k + 1 <= n PROVE Partly(g[k + 1], t, A(k + 1), h)
      OBVIOUS
    <2>1. n \in Nat /\ k <= n /\ k + 1 \in 1 .. n /\ (k + 1) - 1 = k /\ start + (k + 1) - 1 = start + k
      OBVIOUS
    <2>2. Partly(g[k], t, A(k), h)
      BY <1>4, <2>1
    <2>3. start + k \in 0 .. Len(t) - 1 /\ start + k \notin A(k) /\ A(k + 1) = A(k) \cup {start + k}
      BY <1>1, <2>1 DEF Gap
    <2>4. g[k + 1] = Strdup(g[k], start + k, t[start + k + 1])
      <3>1. source[k + 1] = t[start + (k + 1)] /\ start + (k + 1) = start + k + 1
        BY <2>1
      <3>2. g[k + 1] = Strdup(g[(k + 1) - 1], start + (k + 1) - 1, source[k + 1])
        BY <1>2, <2>1
      <3> QED
        BY <2>1, <3>1, <3>2
    <2> HIDE DEF A
    <2>5. Partly(Strdup(g[k], start + k, t[start + k + 1]), t, A(k) \cup {start + k}, h)
      BY <2>2, <2>3, StrdupFills
    <2> QED
      BY <2>3, <2>4, <2>5
  <1>5. Partly(g[n], t, A(n), h)
    <2> HIDE DEF Filled2
    <2>1. n \in Filled2
      BY <1>3, <1>4, InductionOnSets
    <2> QED
      BY <2>1 DEF Filled2
  <1>6. A(n) = 0 .. Len(t) - 1
    BY <1>1 DEF Gap
  <1> HIDE DEF A, n
  <1> QED
    BY <1>2, <1>5, <1>6 DEF Full, n

-----------------------------------------------------------------------------
(* Cells that are moved.                                                   *)

(* The cells of c from a to b - 1 are those of cells, d places away.      *)
Shifted(cells, c, N, a, b, d) ==
  /\ c \in [0 .. N -> Int]
  /\ \A i \in 0 .. N : c[i] = IF a <= i /\ i < b THEN cells[i - d] ELSE cells[i]

LEMMA MovesUp ==
  ASSUME NEW N \in Nat, NEW cells \in [0 .. N -> Int], NEW is, Len(is) \in Nat, NEW a \in Nat, NEW d \in Int, d <= 0,
         \A k \in 1 .. Len(is) : is[k] = a + k - 1, Len(is) # 0 => a + Len(is) - d <= N + 1
  PROVE  Shifted(cells, Move(cells, is, d), N, a, a + Len(is), d)
  <1> DEFINE n == Len(is)
             Is(c, k) == /\ c \in [0 .. N -> Int]
                         /\ \A i \in 0 .. N : c[i] = IF a <= i /\ i < a + k THEN cells[i - d] ELSE cells[i]
  <1>1. PICK g : /\ Move(cells, is, d) = g[n] /\ g[0] = cells
                 /\ \A k \in 1 .. n : g[k] = MoveOne(g[k - 1], is[k], d)
    <2>1. Len(is) \in Nat
      OBVIOUS
    <2> QED
      BY ONLY <2>1, MoveIs
  <1> DEFINE Moved == {k \in Nat : k <= n => Is(g[k], k)}
  <1>2. 0 \in Moved
    BY <1>1
  <1> HIDE DEF Is
  <1>3. ASSUME NEW k \in Nat, k \in Moved PROVE k + 1 \in Moved
    <2> SUFFICES ASSUME k + 1 <= n PROVE Is(g[k + 1], k + 1)
      OBVIOUS
    <2> DEFINE c == g[k]
               i == a + k
    <2>1. n \in Nat /\ k <= n /\ k + 1 \in 1 .. n /\ (k + 1) - 1 = k /\ a + (k + 1) - 1 = i
      OBVIOUS
    <2>2. Is(c, k)
      BY <1>3, <2>1
    <2>3. i \in 0 .. N /\ i - d \in 0 .. N
      BY <2>1
    <2>4. g[k + 1] = MoveOne(c, i, d)
      <3>1. g[k + 1] = MoveOne(g[(k + 1) - 1], is[k + 1], d) /\ is[k + 1] = a + (k + 1) - 1
        BY <1>1, <2>1
      <3> QED
        BY <2>1, <3>1
    <2> HIDE DEF c, i
    <2>5. MoveOne(c, i, d) = [c EXCEPT ![i] = c[i - d]]
      <3>1. c \in [0 .. N -> Int]
        BY <2>2 DEF Is
      <3> QED
        BY <2>3, <3>1 DEF MoveOne, Store, Load
    <2>6. c[i - d] = cells[i - d]
      <3>1. i - d \in 0 .. N /\ ~(a <= i - d /\ i - d < a + k)
        BY <2>3 DEF i
      <3> QED
        BY <2>2, <3>1 DEF Is
    <2>7. cells[i - d] \in Int
      BY <2>3
    <2> DEFINE e == g[k + 1]
    <2>8. e = [c EXCEPT ![i] = cells[i - d]]
      BY <2>4, <2>5, <2>6
    <2> HIDE DEF e
    <2>9. e \in [0 .. N -> Int] /\ e[i] = cells[i - d] /\ \A j \in 0 .. N : j # i => e[j] = c[j]
      BY <2>2, <2>3, <2>7, <2>8 DEF Is
    <2>10. ASSUME NEW j \in 0 .. N
           PROVE  e[j] = IF a <= j /\ j < a + (k + 1) THEN cells[j - d] ELSE cells[j]
      <3>1. CASE j = i
        BY <2>1, <2>9, <3>1 DEF i
      <3>2. CASE j # i
        <4>1. (a <= j /\ j < a + (k + 1)) <=> (a <= j /\ j < a + k)
          BY <3>2 DEF i
        <4>2. c[j] = IF a <= j /\ j < a + k THEN cells[j - d] ELSE cells[j]
          BY <2>2 DEF Is
        <4> QED
          BY <2>9, <3>2, <4>1, <4>2
      <3> QED
        BY <3>1, <3>2
    <2> QED
      BY <2>9, <2>10 DEF e, Is
  <1>4. Is(g[n], n)
    <2> HIDE DEF Moved
    <2>1. n \in Moved
      BY <1>2, <1>3, InductionOnSets
    <2> QED
      BY <2>1 DEF Moved
  <1> QED
    BY <1>1, <1>4 DEF Is, Shifted

LEMMA MovesDown ==
  ASSUME NEW N \in Nat, NEW cells \in [0 .. N -> Int], NEW is, Len(is) \in Nat, NEW a \in Int, NEW d \in Nat \ {0},
         \A k \in 1 .. Len(is) : is[k] = a - k + 1, a <= N, d <= a + 1 - Len(is)
  PROVE  Shifted(cells, Move(cells, is, d), N, a + 1 - Len(is), a + 1, d)
  <1> DEFINE n == Len(is)
             Is(c, k) == /\ c \in [0 .. N -> Int]
                         /\ \A i \in 0 .. N : c[i] = IF a + 1 - k <= i /\ i < a + 1 THEN cells[i - d] ELSE cells[i]
  <1>1. PICK g : /\ Move(cells, is, d) = g[n] /\ g[0] = cells
                 /\ \A k \in 1 .. n : g[k] = MoveOne(g[k - 1], is[k], d)
    <2>1. Len(is) \in Nat
      OBVIOUS
    <2> QED
      BY ONLY <2>1, MoveIs
  <1> DEFINE Moved == {k \in Nat : k <= n => Is(g[k], k)}
  <1>2. 0 \in Moved
    BY <1>1
  <1> HIDE DEF Is
  <1>3. ASSUME NEW k \in Nat, k \in Moved PROVE k + 1 \in Moved
    <2> SUFFICES ASSUME k + 1 <= n PROVE Is(g[k + 1], k + 1)
      OBVIOUS
    <2> DEFINE c == g[k]
               i == a - k
    <2>1. n \in Nat /\ k <= n /\ k + 1 \in 1 .. n /\ (k + 1) - 1 = k /\ a - (k + 1) + 1 = i
      OBVIOUS
    <2>2. Is(c, k)
      BY <1>3, <2>1
    <2>3. i \in 0 .. N /\ i - d \in 0 .. N
      BY <2>1
    <2>4. g[k + 1] = MoveOne(c, i, d)
      <3>1. g[k + 1] = MoveOne(g[(k + 1) - 1], is[k + 1], d) /\ is[k + 1] = a - (k + 1) + 1
        BY <1>1, <2>1
      <3> QED
        BY <2>1, <3>1
    <2> HIDE DEF c, i
    <2>5. MoveOne(c, i, d) = [c EXCEPT ![i] = c[i - d]]
      <3>1. c \in [0 .. N -> Int]
        BY <2>2 DEF Is
      <3> QED
        BY <2>3, <3>1 DEF MoveOne, Store, Load
    <2>6. c[i - d] = cells[i - d]
      <3>1. i - d \in 0 .. N /\ ~(a + 1 - k <= i - d /\ i - d < a + 1)
        BY <2>3 DEF i
      <3> QED
        BY <2>2, <3>1 DEF Is
    <2>7. cells[i - d] \in Int
      BY <2>3
    <2> DEFINE e == g[k + 1]
    <2>8. e = [c EXCEPT ![i] = cells[i - d]]
      BY <2>4, <2>5, <2>6
    <2> HIDE DEF e
    <2>9. e \in [0 .. N -> Int] /\ e[i] = cells[i - d] /\ \A j \in 0 .. N : j # i => e[j] = c[j]
      BY <2>2, <2>3, <2>7, <2>8 DEF Is
    <2>10. ASSUME NEW j \in 0 .. N
           PROVE  e[j] = IF a + 1 - (k + 1) <= j /\ j < a + 1 THEN cells[j - d] ELSE cells[j]
      <3>1. CASE j = i
        BY <2>1, <2>9, <3>1 DEF i
      <3>2. CASE j # i
        <4>1. (a + 1 - (k + 1) <= j /\ j < a + 1) <=> (a + 1 - k <= j /\ j < a + 1)
          BY <3>2 DEF i
        <4>2. c[j] = IF a + 1 - k <= j /\ j < a + 1 THEN cells[j - d] ELSE cells[j]
          BY <2>2 DEF Is
        <4> QED
          BY <2>9, <3>2, <4>1, <4>2
      <3> QED
        BY <3>1, <3>2
    <2> QED
      BY <2>9, <2>10 DEF e, Is
  <1>4. Is(g[n], n)
    <2> HIDE DEF Moved
    <2>1. n \in Moved
      BY <1>2, <1>3, InductionOnSets
    <2> QED
      BY <2>1 DEF Moved
  <1> QED
    BY <1>1, <1>4 DEF Is, Shifted


-----------------------------------------------------------------------------
(* Cells that are allocated again and moved: cell i of the new array is    *)
(* cell from[i] of the old one.                                            *)

LEMMA Owners ==
  ASSUME NEW m, NEW s, NEW h, Stands(m, s, h)
  PROVE  /\ m = [argv |-> m.argv, heap |-> m.heap] /\ HeapOK(m.heap, h) /\ s \in Seq(Word) /\ Len(s) \in Nat
         /\ \A i \in 0 .. Len(s) - 1 : /\ m.argv[i] \in DOMAIN m.heap \ DOMAIN h
                                       /\ m.heap[m.argv[i]] = s[i + 1]
         /\ \A i, j \in 0 .. Len(s) - 1 : m.argv[i] = m.argv[j] => i = j
         /\ \A p \in DOMAIN m.heap \ DOMAIN h : \E i \in 0 .. Len(s) - 1 : m.argv[i] = p
  <1>1. CASE Full(m, s, h)
    BY <1>1, LenProperties DEF Full, Partly
  <1>2. CASE s = <<>> /\ Empty(m, h)
    <2>1. s \in Seq(Word) /\ Len(s) = 0
      BY <1>2
    <2>2. 0 .. Len(s) - 1 = {}
      BY <2>1
    <2> QED
      BY <1>2, <2>1, <2>2 DEF Empty
  <1> QED
    BY <1>1, <1>2 DEF Stands

LEMMA CellsOf ==
  ASSUME NEW m, NEW s, NEW h, Stands(m, s, h), NEW n \in Nat
  PROVE  /\ Realloc(m.argv, n) \in [0 .. n - 1 -> Int] /\ DOMAIN Realloc(m.argv, n) = 0 .. n - 1
         /\ \A i \in 0 .. Len(s) - 1 : i < n => Realloc(m.argv, n)[i] = m.argv[i]
  <1>1. CASE Full(m, s, h)
    <2>1. Len(s) \in Nat /\ m.argv \in [0 .. Len(s) -> Int] /\ DOMAIN m.argv = 0 .. Len(s)
      BY <1>1, FullCells
    <2>2. \A i \in 0 .. n - 1 : (IF i \in DOMAIN m.argv THEN m.argv[i] ELSE Junk) \in Int
      BY <2>1 DEF Junk
    <2> QED
      BY <2>1, <2>2 DEF Realloc
  <1>2. CASE s = <<>> /\ Empty(m, h)
    <2>1. Len(s) = 0 /\ DOMAIN m.argv = {}
      BY <1>2 DEF Empty, NoArray
    <2>2. \A i \in 0 .. n - 1 : (IF i \in DOMAIN m.argv THEN m.argv[i] ELSE Junk) \in Int
      BY <2>1 DEF Junk
    <2> QED
      BY <2>1, <2>2 DEF Realloc
  <1> QED
    BY <1>1, <1>2 DEF Stands

With(c, f) == [argv |-> c, heap |-> f]

Traced(m, s, t, A, from, c) ==
  /\ t \in Seq(Word) /\ A \in SUBSET (0 .. Len(t) - 1)
  /\ from \in [A -> 0 .. Len(s) - 1] /\ \A i, j \in A : from[i] = from[j] => i = j
  /\ c \in [0 .. Len(t) -> Int] /\ c[Len(t)] = Null
  /\ \A i \in A : c[i] = m.argv[from[i]] /\ t[i + 1] = s[from[i] + 1]

LEMMA Rearranged ==
  ASSUME NEW m, NEW s, NEW h, Stands(m, s, h), NEW t, NEW A, NEW from, NEW c, Traced(m, s, t, A, from, c),
         NEW f, f = [p \in DOMAIN f |-> m.heap[p]], DOMAIN f \subseteq DOMAIN m.heap, DOMAIN h \subseteq DOMAIN f,
         \A i \in A : c[i] \in DOMAIN f, \A p \in DOMAIN f \ DOMAIN h : \E i \in A : c[i] = p
  PROVE  Partly(With(c, f), t, A, h)
  <1>9. /\ t \in Seq(Word) /\ A \in SUBSET (0 .. Len(t) - 1)
        /\ from \in [A -> 0 .. Len(s) - 1] /\ (\A i, j \in A : from[i] = from[j] => i = j)
        /\ c \in [0 .. Len(t) -> Int] /\ c[Len(t)] = Null
        /\ \A i \in A : c[i] = m.argv[from[i]] /\ t[i + 1] = s[from[i] + 1]
    BY DEF Traced
  <1> DEFINE x == With(c, f)
  <1>1. x = [argv |-> x.argv, heap |-> x.heap] /\ x.argv = c /\ x.heap = f
    BY DEF With
  <1> HIDE DEF x
  <1>2. /\ HeapOK(m.heap, h)
        /\ \A i \in 0 .. Len(s) - 1 : m.argv[i] \in DOMAIN m.heap \ DOMAIN h /\ m.heap[m.argv[i]] = s[i + 1]
        /\ \A i, j \in 0 .. Len(s) - 1 : m.argv[i] = m.argv[j] => i = j
    BY Owners
  <1>3. \A p \in DOMAIN f : f[p] = m.heap[p]
    OBVIOUS
  <1>4. HeapOK(f, h)
    <2>1. IsFiniteSet(DOMAIN f)
      BY <1>2, FS_Subset DEF HeapOK
    <2>2. f = [p \in DOMAIN f |-> f[p]]
      BY <1>3
    <2>3. \A p \in DOMAIN h : f[p] = h[p]
      BY <1>2, <1>3 DEF HeapOK
    <2> QED
      BY <1>2, <2>1, <2>2, <2>3 DEF HeapOK
  <1>5. \A i \in A : from[i] \in 0 .. Len(s) - 1
    BY <1>9
  <1>6. \A i \in A : c[i] \in DOMAIN f \ DOMAIN h /\ f[c[i]] = t[i + 1]
    BY <1>2, <1>3, <1>5, <1>9
  <1>7. \A i, j \in A : c[i] = c[j] => i = j
    BY <1>2, <1>5, <1>9
  <1>8. Partly(x, t, A, h)
    BY <1>1, <1>4, <1>6, <1>7, <1>9 DEF Partly
  <1> QED
    BY <1>8 DEF x

(* Nothing is freed.                                                       *)
LEMMA Kept ==
  ASSUME NEW m, NEW s, NEW h, Stands(m, s, h), NEW t, NEW A, NEW from, NEW c, Traced(m, s, t, A, from, c),
         \A j \in 0 .. Len(s) - 1 : \E i \in A : from[i] = j
  PROVE  Partly(With(c, m.heap), t, A, h)
  <1> DEFINE f == m.heap
  <1>1. /\ HeapOK(f, h)
        /\ \A i \in 0 .. Len(s) - 1 : m.argv[i] \in DOMAIN f \ DOMAIN h
        /\ \A p \in DOMAIN f \ DOMAIN h : \E i \in 0 .. Len(s) - 1 : m.argv[i] = p
    BY Owners
  <1>2. f = [p \in DOMAIN f |-> m.heap[p]] /\ DOMAIN f \subseteq DOMAIN m.heap /\ DOMAIN h \subseteq DOMAIN f
    BY <1>1 DEF HeapOK
  <1>6. /\ t \in Seq(Word) /\ A \in SUBSET (0 .. Len(t) - 1)
        /\ from \in [A -> 0 .. Len(s) - 1] /\ (\A i, j \in A : from[i] = from[j] => i = j)
        /\ c \in [0 .. Len(t) -> Int] /\ c[Len(t)] = Null
        /\ \A i \in A : c[i] = m.argv[from[i]] /\ t[i + 1] = s[from[i] + 1]
    BY DEF Traced
  <1>3. \A i \in A : c[i] \in DOMAIN f
    BY <1>1, <1>6
  <1>4. ASSUME NEW p \in DOMAIN f \ DOMAIN h PROVE \E i \in A : c[i] = p
    <2>1. PICK j \in 0 .. Len(s) - 1 : m.argv[j] = p
      BY <1>1
    <2>2. PICK i \in A : from[i] = j
      OBVIOUS
    <2> QED
      BY <1>6, <2>1, <2>2
  <1> HIDE DEF f
  <1>5. Partly(With(c, f), t, A, h)
    BY <1>2, <1>3, <1>4, Rearranged
  <1> QED
    BY <1>5 DEF f

LEMMA ConsIs ==
  ASSUME NEW s \in Seq(Word), NEW arg \in Word
  PROVE  /\ <<arg>> \o s \in Seq(Word) /\ Len(<<arg>> \o s) = Len(s) + 1
         /\ (<<arg>> \o s)[1] = arg /\ \A i \in 1 .. Len(s) : (<<arg>> \o s)[i + 1] = s[i]
  <1> DEFINE u == <<arg>>
             t == u \o s
  <1>1. u \in Seq(Word) /\ Len(u) = 1 /\ u[1] = arg
    OBVIOUS
  <1> HIDE DEF u
  <1>2. /\ t \in Seq(Word) /\ Len(t) = Len(u) + Len(s)
        /\ \A i \in 1 .. Len(u) + Len(s) : t[i] = IF i <= Len(u) THEN u[i] ELSE s[i - Len(u)]
    BY <1>1, ConcatProperties
  <1> HIDE DEF t
  <1>3. Len(s) \in Nat
    BY LenProperties
  <1>4. t[1] = arg
    BY <1>1, <1>2, <1>3
  <1>5. ASSUME NEW i \in 1 .. Len(s) PROVE t[i + 1] = s[i]
    <2>1. i + 1 \in 1 .. 1 + Len(s) /\ ~(i + 1 <= 1) /\ (i + 1) - 1 = i
      BY <1>3
    <2>2. t[i + 1] = IF i + 1 <= 1 THEN u[i + 1] ELSE s[(i + 1) - 1]
      BY <1>1, <1>2, <2>1
    <2> QED
      BY <2>1, <2>2
  <1> QED
    BY <1>1, <1>2, <1>3, <1>4, <1>5 DEF t, u

LEMMA AppendStands ==
  ASSUME NEW m, NEW s, NEW h, Stands(m, s, h), NEW arg \in Word
  PROVE  Stands(AppendNosize(m, arg), Append(s, arg), h)
  <1> DEFINE t == Append(s, arg)
             A == 0 .. Len(s) - 1
             from == [i \in A |-> i]
             r == Realloc(m.argv, Len(s) + 2)
             c == Store(r, Len(s) + 1, Null)
  <1>1. Len(s) \in Nat /\ s \in Seq(Word) /\ Count(m) = Len(s) /\ m = [argv |-> m.argv, heap |-> m.heap]
    BY StandsFor, Owners
  <1>2. t \in Seq(Word) /\ Len(t) = Len(s) + 1 /\ t[Len(s) + 1] = arg /\ \A i \in 1 .. Len(s) : t[i] = s[i]
    BY <1>1, AppendProperties
  <1>3. r \in [0 .. Len(s) + 1 -> Int] /\ DOMAIN r = 0 .. Len(s) + 1 /\ \A i \in 0 .. Len(s) - 1 : r[i] = m.argv[i]
    <2>1. Len(s) + 2 \in Nat /\ (Len(s) + 2) - 1 = Len(s) + 1
      BY <1>1
    <2>2. /\ r \in [0 .. (Len(s) + 2) - 1 -> Int] /\ DOMAIN r = 0 .. (Len(s) + 2) - 1
          /\ \A i \in 0 .. Len(s) - 1 : i < Len(s) + 2 => r[i] = m.argv[i]
      BY <2>1, CellsOf
    <2> QED
      BY <1>1, <2>1, <2>2
  <1>4. /\ AppendNosize(m, arg) = Strdup(With(c, m.heap), Len(s), arg)
    BY <1>1 DEF AppendNosize, With
  <1> HIDE DEF r, t
  <1>5. c \in [0 .. Len(s) + 1 -> Int] /\ c[Len(s) + 1] = Null /\ \A i \in 0 .. Len(s) - 1 : c[i] = m.argv[i]
    BY <1>1, <1>3 DEF Store, Null
  <1> HIDE DEF c
  <1>6. A \in SUBSET (0 .. Len(t) - 1) /\ Len(s) \in 0 .. Len(t) - 1 /\ Len(s) \notin A /\ A \cup {Len(s)} = 0 .. Len(t) - 1
    BY <1>1, <1>2
  <1>7. /\ from \in [A -> 0 .. Len(s) - 1] /\ (\A i, j \in A : from[i] = from[j] => i = j)
        /\ (\A j \in 0 .. Len(s) - 1 : \E i \in A : from[i] = j)
        /\ \A i \in A : c[i] = m.argv[from[i]] /\ t[i + 1] = s[from[i] + 1]
    BY <1>1, <1>2, <1>5
  <1> HIDE DEF A, from
  <1>11. c \in [0 .. Len(t) -> Int] /\ c[Len(t)] = Null
    BY <1>2, <1>5
  <1>8. Partly(With(c, m.heap), t, A, h)
    <2>1. Traced(m, s, t, A, from, c)
      BY <1>2, <1>6, <1>7, <1>11 DEF Traced
    <2> QED
      BY <1>7, <2>1, Kept
  <1>9. Partly(Strdup(With(c, m.heap), Len(s), t[Len(s) + 1]), t, A \cup {Len(s)}, h)
    BY <1>6, <1>8, StrdupFills
  <1>10. Full(AppendNosize(m, arg), t, h)
    BY <1>2, <1>4, <1>6, <1>9 DEF Full
  <1> QED
    BY <1>10 DEF Stands, t

LEMMA PrependStands ==
  ASSUME NEW m, NEW s, NEW h, Stands(m, s, h), NEW arg \in Word
  PROVE  Stands(PrependNosize(m, arg), <<arg>> \o s, h)
  <1> DEFINE t == <<arg>> \o s
             A == 1 .. Len(s)
             from == [i \in A |-> i - 1]
             r == Realloc(m.argv, Len(s) + 2)
             b == Store(r, Len(s) + 1, Null)
             is == Down(Len(s), 1)
             c == Move(b, is, 1)
  <1>1. Len(s) \in Nat /\ s \in Seq(Word) /\ Count(m) = Len(s) /\ m = [argv |-> m.argv, heap |-> m.heap]
    BY StandsFor, Owners
  <1>2. t \in Seq(Word) /\ Len(t) = Len(s) + 1 /\ t[0 + 1] = arg /\ \A i \in 1 .. Len(s) : t[i + 1] = s[i]
    BY <1>1, ConsIs
  <1>3. r \in [0 .. Len(s) + 1 -> Int] /\ DOMAIN r = 0 .. Len(s) + 1 /\ \A i \in 0 .. Len(s) - 1 : r[i] = m.argv[i]
    <2>1. Len(s) + 2 \in Nat /\ (Len(s) + 2) - 1 = Len(s) + 1
      BY <1>1
    <2>2. /\ r \in [0 .. (Len(s) + 2) - 1 -> Int] /\ DOMAIN r = 0 .. (Len(s) + 2) - 1
          /\ \A i \in 0 .. Len(s) - 1 : i < Len(s) + 2 => r[i] = m.argv[i]
      BY <2>1, CellsOf
    <2> QED
      BY <1>1, <2>1, <2>2
  <1>4. PrependNosize(m, arg) = Strdup(With(c, m.heap), 0, arg)
    BY <1>1 DEF PrependNosize, With
  <1>5. Len(is) = Len(s) /\ \A k \in 1 .. Len(s) : is[k] = Len(s) - k + 1
    <2>1. is = [k \in 1 .. Len(s) |-> Len(s) - k + 1]
      BY <1>1 DEF Down
    <2> HIDE DEF is
    <2> QED
      BY <1>1, <2>1
  <1> HIDE DEF r, t, is
  <1>6. b \in [0 .. Len(s) + 1 -> Int] /\ b[Len(s) + 1] = Null /\ \A i \in 0 .. Len(s) - 1 : b[i] = m.argv[i]
    BY <1>1, <1>3 DEF Store, Null
  <1> HIDE DEF b
  <1>7. /\ c \in [0 .. Len(s) + 1 -> Int]
        /\ \A i \in 0 .. Len(s) + 1 : c[i] = IF 1 <= i /\ i < Len(s) + 1 THEN b[i - 1] ELSE b[i]
    <2>1. Len(s) + 1 \in Nat /\ Len(is) \in Nat /\ Len(s) \in Int /\ 1 \in Nat \ {0} /\ Len(s) <= Len(s) + 1 /\ 1 <= Len(s) + 1 - Len(is)
      BY <1>1, <1>5
    <2>2. Shifted(b, Move(b, is, 1), Len(s) + 1, Len(s) + 1 - Len(is), Len(s) + 1, 1)
      BY <1>5, <1>6, <2>1, MovesDown
    <2>3. Len(s) + 1 - Len(is) = 1
      BY <1>1, <1>5
    <2> QED
      BY <2>2, <2>3 DEF Shifted
  <1> HIDE DEF c
  <1>8. c[Len(s) + 1] = Null /\ \A i \in 1 .. Len(s) : c[i] = m.argv[i - 1]
    <2>1. c[Len(s) + 1] = Null
      BY <1>1, <1>6, <1>7
    <2>2. ASSUME NEW i \in 1 .. Len(s) PROVE c[i] = m.argv[i - 1]
      <3>1. i \in 0 .. Len(s) + 1 /\ 1 <= i /\ i < Len(s) + 1 /\ i - 1 \in 0 .. Len(s) - 1
        BY <1>1
      <3> QED
        BY <1>6, <1>7, <3>1
    <2> QED
      BY <2>1, <2>2
  <1>9. A \in SUBSET (0 .. Len(t) - 1) /\ 0 \in 0 .. Len(t) - 1 /\ 0 \notin A /\ A \cup {0} = 0 .. Len(t) - 1
    BY <1>1, <1>2
  <1>10. /\ from \in [A -> 0 .. Len(s) - 1] /\ (\A i, j \in A : from[i] = from[j] => i = j)
         /\ \A i \in A : c[i] = m.argv[from[i]] /\ t[i + 1] = s[from[i] + 1]
    BY <1>1, <1>2, <1>8
  <1>11. ASSUME NEW j \in 0 .. Len(s) - 1 PROVE \E i \in A : from[i] = j
    <2>1. j + 1 \in A /\ from[j + 1] = j
      BY <1>1
    <2> QED
      BY <2>1
  <1> HIDE DEF A, from
  <1>15. c \in [0 .. Len(t) -> Int] /\ c[Len(t)] = Null
    BY <1>2, <1>7, <1>8
  <1>12. Partly(With(c, m.heap), t, A, h)
    <2>1. Traced(m, s, t, A, from, c)
      BY <1>2, <1>8, <1>9, <1>10, <1>11, <1>15 DEF Traced
    <2> QED
      BY <1>11, <2>1, Kept
  <1>13. Partly(Strdup(With(c, m.heap), 0, t[0 + 1]), t, A \cup {0}, h)
    BY <1>9, <1>12, StrdupFills
  <1>14. Full(PrependNosize(m, arg), t, h)
    BY <1>2, <1>4, <1>9, <1>13 DEF Full
  <1> QED
    BY <1>14 DEF Stands, t
LEMMA ConcatAppend ==
  ASSUME NEW T, NEW s \in Seq(T), NEW v \in Seq(T), NEW e \in T
  PROVE  s \o (v \o <<e>>) = Append(s \o v, e)
  <1> DEFINE u == <<e>>
  <1>1. u \in Seq(T)
    OBVIOUS
  <1> HIDE DEF u
  <1>2. (s \o v) \o u = s \o (v \o u)
    BY <1>1, ConcatAssociative
  <1>3. s \o v \in Seq(T)
    BY ConcatProperties
  <1>4. Append(s \o v, e) = (s \o v) \o u
    BY <1>3, AppendIsConcat DEF u
  <1> QED
    BY <1>2, <1>4 DEF u

LEMMA AllOwned ==
  ASSUME NEW m, NEW s, NEW h, Stands(m, s, h)
  PROVE  /\ {Load(m.argv, i) : i \in 0 .. Len(s) - 1} \subseteq DOMAIN m.heap
         /\ DOMAIN m.heap \ {Load(m.argv, i) : i \in 0 .. Len(s) - 1} = DOMAIN h
  <1> DEFINE I == 0 .. Len(s) - 1
             D == {Load(m.argv, i) : i \in I}
  <1>1. /\ HeapOK(m.heap, h) /\ \A i \in I : m.argv[i] \in DOMAIN m.heap \ DOMAIN h
        /\ \A p \in DOMAIN m.heap \ DOMAIN h : \E i \in I : m.argv[i] = p
    BY Owners
  <1>2. \A i \in I : Load(m.argv, i) = m.argv[i]
    <2>1. CASE Full(m, s, h)
      <3>1. DOMAIN m.argv = 0 .. Len(s) /\ Len(s) \in Nat
        BY <2>1, FullCells
      <3> QED
        BY <3>1 DEF Load
    <2>2. CASE s = <<>>
      BY <2>2
    <2> QED
      BY <2>1, <2>2 DEF Stands
  <1> HIDE DEF I
  <1>3. \A p \in D : p \in DOMAIN m.heap \ DOMAIN h
    BY <1>1, <1>2
  <1>4. \A p \in DOMAIN m.heap \ DOMAIN h : p \in D
    BY <1>1, <1>2
  <1>5. DOMAIN h \subseteq DOMAIN m.heap
    BY <1>1 DEF HeapOK
  <1> HIDE DEF D
  <1>6. D \subseteq DOMAIN m.heap /\ DOMAIN m.heap \ D = DOMAIN h
    BY <1>3, <1>4, <1>5
  <1> QED
    BY <1>6 DEF D, I

LEMMA AppendAllStands ==
  ASSUME NEW m, NEW s, NEW h, Stands(m, s, h), NEW args \in Seq(Word)
  PROVE  Stands(AppendAll(m, args), s \o args, h)
  <1> DEFINE n == Len(args)
             upto(k) == SubSeq(args, 1, k)
  <1>1. n \in Nat /\ s \in Seq(Word)
    BY StandsFor, LenProperties
  <1>2. PICK g : /\ AppendAll(m, args) = g[n] /\ g[0] = m
                 /\ \A k \in 1 .. n : g[k] = AppendNosize(g[k - 1], args[k])
    <2>1. Len(args) \in Nat
      BY <1>1
    <2> QED
      BY <2>1, AppendAllIs
  <1> DEFINE Done == {k \in Nat : k <= n => Stands(g[k], s \o upto(k), h)}
  <1>3. 0 \in Done
    <2>1. s \o upto(0) = s
      BY <1>1, ConcatEmptySeq, SubSeqEmpty
    <2> QED
      BY <1>2, <2>1
  <1>4. ASSUME NEW k \in Nat, k \in Done PROVE k + 1 \in Done
    <2> SUFFICES ASSUME k + 1 <= n PROVE Stands(g[k + 1], s \o upto(k + 1), h)
      OBVIOUS
    <2>1. k <= n /\ k + 1 \in 1 .. n /\ (k + 1) - 1 = k /\ 1 \in 1 .. n
      BY <1>1
    <2>2. Stands(g[k], s \o upto(k), h) /\ g[k + 1] = AppendNosize(g[k], args[k + 1])
      BY <1>2, <1>4, <2>1
    <2>3. args[k + 1] \in Word
      BY <2>1, ElementOfSeq
    <2>4. upto(k) \in Seq(Word)
      <3>1. \A i \in 1 .. k : args[i] \in Word
        BY <1>1, <2>1, ElementOfSeq
      <3> QED
        BY <3>1, SubSeqProperties
    <2>5. upto(k + 1) = upto(k) \o <<args[k + 1]>>
      BY <2>1, SubSeqRecursiveSecond
    <2>7. s \o upto(k + 1) = Append(s \o upto(k), args[k + 1])
      <3> DEFINE v == upto(k)
                 e == args[k + 1]
                 w == upto(k + 1)
      <3>1. v \in Seq(Word) /\ e \in Word /\ w = v \o <<e>> /\ s \in Seq(Word)
        BY <1>1, <2>3, <2>4, <2>5
      <3> HIDE DEF v, e, w
      <3>2. s \o w = Append(s \o v, e)
        BY <3>1, ConcatAppend
      <3> QED
        BY <3>2 DEF v, e, w
    <2> HIDE DEF upto
    <2> QED
      BY <2>2, <2>3, <2>7, AppendStands
  <1>5. Stands(g[n], s \o upto(n), h)
    <2> HIDE DEF Done
    <2>1. n \in Done
      BY <1>1, <1>3, <1>4, InductionOnSets
    <2> QED
      BY <1>1, <2>1 DEF Done
  <1>6. upto(n) = args
    BY SubSeqFull
  <1> HIDE DEF upto, n
  <1> QED
    BY <1>2, <1>5, <1>6

LEMMA FreeStands ==
  ASSUME NEW m, NEW s, NEW h, Stands(m, s, h)
  PROVE  Stands(Free(m), <<>>, h) /\ Free(m).argv = NoArray
  <1> DEFINE x == Free(m)
             D == {Load(m.argv, i) : i \in 0 .. Len(s) - 1}
  <1>1. Count(m) = Len(s) /\ HeapOK(m.heap, h) /\ Len(s) \in Nat
    BY StandsFor, Owners
  <1>4. DOMAIN m.heap \ D = DOMAIN h
    BY AllOwned
  <1> HIDE DEF D
  <1>5. /\ x = [argv |-> x.argv, heap |-> x.heap] /\ x.argv = NoArray
        /\ x.heap = [p \in DOMAIN m.heap \ D |-> m.heap[p]]
    BY <1>1 DEF Free, Freed, D
  <1>6. x.heap = h
    BY <1>1, <1>4, <1>5 DEF HeapOK
  <1>7. HeapOK(h, h)
    BY <1>1, FS_Subset DEF HeapOK
  <1> HIDE DEF x
  <1>8. Empty(x, h)
    BY <1>5, <1>6, <1>7 DEF Empty
  <1> QED
    BY <1>5, <1>8 DEF Stands, x

(* Of the heap f, what is not in h is freed.                               *)
LEMMA Dropped ==
  ASSUME NEW x, NEW s, NEW f, Stands(x, s, f), NEW h, HeapOK(f, h), NEW D, D \subseteq DOMAIN f,
         DOMAIN f \ D = DOMAIN h, NEW y, y = With(x.argv, [p \in DOMAIN x.heap \ D |-> x.heap[p]])
  PROVE  Stands(y, s, h)
  <1>1. /\ y = [argv |-> y.argv, heap |-> y.heap] /\ y.argv = x.argv
        /\ y.heap = [p \in DOMAIN x.heap \ D |-> x.heap[p]]
    BY DEF With
  <1>2. /\ DOMAIN y.heap = DOMAIN x.heap \ D /\ \A p \in DOMAIN y.heap : y.heap[p] = x.heap[p]
        /\ y.heap = [p \in DOMAIN y.heap |-> y.heap[p]]
    BY <1>1
  <1>3. HeapOK(x.heap, f)
    BY Owners
  <1>4. DOMAIN y.heap \ DOMAIN h = DOMAIN x.heap \ DOMAIN f
    BY <1>2, <1>3 DEF HeapOK
  <1>5. HeapOK(y.heap, h)
    <2>1. IsFiniteSet(DOMAIN y.heap)
      BY <1>2, <1>3, FS_Subset DEF HeapOK
    <2>2. DOMAIN h \subseteq DOMAIN y.heap
      BY <1>2, <1>3 DEF HeapOK
    <2>3. \A p \in DOMAIN h : y.heap[p] = h[p]
      BY <1>2, <1>3, <2>2 DEF HeapOK
    <2> QED
      BY <1>2, <1>3, <2>1, <2>2, <2>3 DEF HeapOK
  <1>6. CASE Full(x, s, f)
    <2>1. /\ s \in Seq(Word) /\ x.argv \in [0 .. Len(s) -> Int] /\ x.argv[Len(s)] = Null
          /\ \A i \in 0 .. Len(s) - 1 : x.argv[i] \in DOMAIN x.heap \ DOMAIN f /\ x.heap[x.argv[i]] = s[i + 1]
          /\ \A i, j \in 0 .. Len(s) - 1 : x.argv[i] = x.argv[j] => i = j
          /\ \A p \in DOMAIN x.heap \ DOMAIN f : \E i \in 0 .. Len(s) - 1 : x.argv[i] = p
      BY <1>6 DEF Full, Partly
    <2>2. \A i \in 0 .. Len(s) - 1 : y.argv[i] \in DOMAIN y.heap \ DOMAIN h /\ y.heap[y.argv[i]] = s[i + 1]
      BY <1>1, <1>2, <1>4, <2>1
    <2> DEFINE A == 0 .. Len(s) - 1
    <2>3. /\ A \subseteq 0 .. Len(s) - 1 /\ \A i, j \in A : y.argv[i] = y.argv[j] => i = j
          /\ \A i \in A : y.argv[i] \in DOMAIN y.heap \ DOMAIN h /\ y.heap[y.argv[i]] = s[i + 1]
          /\ \A p \in DOMAIN y.heap \ DOMAIN h : \E i \in A : y.argv[i] = p
          /\ y.argv \in [0 .. Len(s) -> Int] /\ y.argv[Len(s)] = Null
      <3>1. y.argv = x.argv /\ DOMAIN y.heap \ DOMAIN h = DOMAIN x.heap \ DOMAIN f
        BY <1>1, <1>4
      <3> QED
        BY ONLY <2>1, <2>2, <3>1 DEF A
    <2> HIDE DEF A
    <2>4. Partly(y, s, A, h)
      BY <1>1, <1>5, <2>1, <2>3 DEF Partly
    <2>5. Full(y, s, h)
      BY <2>4 DEF Full, A
    <2> QED
      BY <2>5 DEF Stands
  <1>7. CASE s = <<>> /\ Empty(x, f)
    <2>1. DOMAIN y.heap = DOMAIN h
      <3>1. DOMAIN y.heap \ DOMAIN h = {}
        BY <1>4, <1>7 DEF Empty
      <3> QED
        BY <1>5, <3>1 DEF HeapOK
    <2>2. Empty(y, h)
      BY <1>1, <1>5, <1>7, <2>1 DEF Empty
    <2> QED
      BY <1>7, <2>2 DEF Stands
  <1> QED
    BY <1>6, <1>7 DEF Stands

LEMMA CopyStands ==
  ASSUME NEW m, NEW s, NEW h, Stands(m, s, h), m.argv # NoArray
  PROVE  Stands([Copy(m) EXCEPT !.heap = Freed(@, m.argv, 0 .. Count(m) - 1)], s, h)
  <1> DEFINE b == With([i \in {0} |-> Null], m.heap)
             x == Copy(m)
             D == {Load(m.argv, i) : i \in 0 .. Len(s) - 1}
             y == [x EXCEPT !.heap = Freed(@, m.argv, 0 .. Count(m) - 1)]
  <1>1. Full(m, s, h)
    BY DEF Stands, Empty
  <1>2. /\ HeapOK(m.heap, h) /\ Len(s) \in Nat /\ s \in Seq(Word)
        /\ Count(m) = Len(s) /\ Elements(m) = s /\ DOMAIN m.argv = 0 .. Len(s)
        /\ \A i \in 0 .. Len(s) - 1 : m.argv[i] \in DOMAIN m.heap \ DOMAIN h
        /\ \A p \in DOMAIN m.heap \ DOMAIN h : \E i \in 0 .. Len(s) - 1 : m.argv[i] = p
    BY <1>1, Owners, StandsFor, FullCells
  <1>3. Stands(b, <<>>, m.heap)
    <2>1. b = [argv |-> b.argv, heap |-> b.heap] /\ b.argv = [i \in {0} |-> Null] /\ b.heap = m.heap
      BY DEF With
    <2> HIDE DEF b
    <2>2. HeapOK(m.heap, m.heap)
      BY <1>2 DEF HeapOK
    <2> DEFINE e == <<>>
    <2>3. e \in Seq(Word) /\ Len(e) = 0
      OBVIOUS
    <2> HIDE DEF e
    <2>4. b.argv \in [0 .. Len(e) -> Int] /\ b.argv[Len(e)] = Null /\ 0 .. Len(e) - 1 = {}
      BY <2>1, <2>3 DEF Null
    <2>5. Full(b, e, m.heap)
      BY <2>1, <2>2, <2>3, <2>4 DEF Full, Partly
    <2> QED
      BY <2>5 DEF Stands, e
  <1>4. Stands(x, s, m.heap)
    <2>1. x = AppendAll(b, s)
      BY <1>2 DEF Copy, With
    <2> HIDE DEF x, b
    <2>2. Stands(x, <<>> \o s, m.heap)
      BY <1>2, <1>3, <2>1, AppendAllStands
    <2>3. <<>> \o s = s
      BY <1>2, ConcatEmptySeq
    <2> QED
      BY <2>2, <2>3
  <1>6. D \subseteq DOMAIN m.heap /\ DOMAIN m.heap \ D = DOMAIN h
    BY AllOwned
  <1>7. y = With(x.argv, [p \in DOMAIN x.heap \ D |-> x.heap[p]])
    <2>1. x = [argv |-> x.argv, heap |-> x.heap]
      BY <1>4, Owners
    <2> HIDE DEF x
    <2> QED
      BY <1>2, <2>1 DEF Freed, With
  <1> HIDE DEF x, D, y
  <1>8. Stands(y, s, h)
    BY <1>2, <1>4, <1>6, <1>7, Dropped
  <1> QED
    BY <1>8 DEF y, x

-----------------------------------------------------------------------------
(* The elements from a to b - 1 are replaced by those of x.                *)
Replaced(s, a, x, b) == SubSeq(s, 1, a) \o x \o SubSeq(s, b + 1, Len(s))
Rest(s, b) == IF b <= Len(s) THEN Len(s) - b ELSE 0

LEMMA RestIs ==
  ASSUME NEW s \in Seq(Word), NEW b \in Nat
  PROVE  /\ SubSeq(s, b + 1, Len(s)) \in Seq(Word) /\ Len(SubSeq(s, b + 1, Len(s))) = Rest(s, b)
         /\ \A i \in 1 .. Rest(s, b) : SubSeq(s, b + 1, Len(s))[i] = s[b + i]
  <1> DEFINE n == Len(s)
             v == SubSeq(s, b + 1, n)
  <1>1. n \in Nat /\ \A i \in b + 1 .. n : s[i] \in Word
    BY LenProperties, ElementOfSeq
  <1>2. b + 1 \in Int /\ n \in Int
    BY <1>1
  <1>3. /\ v \in Seq(Word) /\ Len(v) = IF b + 1 <= n THEN n - (b + 1) + 1 ELSE 0
        /\ \A i \in 1 .. n - (b + 1) + 1 : v[i] = s[b + 1 + i - 1]
    BY <1>1, <1>2, SubSeqProperties
  <1> HIDE DEF v
  <1>4. Len(v) = Rest(s, b)
    <2> HIDE DEF n
    <2>1. Len(v) = IF b <= n THEN n - b ELSE 0
      BY <1>1, <1>3
    <2> QED
      BY <2>1 DEF Rest, n
  <1>5. ASSUME NEW i \in 1 .. Rest(s, b) PROVE v[i] = s[b + i]
    <2>1. i \in 1 .. n - (b + 1) + 1 /\ b + 1 + i - 1 = b + i
      BY <1>1 DEF Rest
    <2> QED
      BY <1>3, <2>1
  <1> QED
    BY <1>3, <1>4, <1>5 DEF v

LEMMA StartIs ==
  ASSUME NEW s \in Seq(Word), NEW a \in 0 .. Len(s)
  PROVE  /\ SubSeq(s, 1, a) \in Seq(Word) /\ Len(SubSeq(s, 1, a)) = a
         /\ \A i \in 1 .. a : SubSeq(s, 1, a)[i] = s[i]
  <1> DEFINE u == SubSeq(s, 1, a)
  <1>1. a \in Int /\ 1 \in Int /\ Len(s) \in Nat /\ \A i \in 1 .. a : s[i] \in Word
    BY LenProperties, ElementOfSeq
  <1>2. /\ u \in Seq(Word) /\ Len(u) = IF 1 <= a THEN a - 1 + 1 ELSE 0
        /\ \A i \in 1 .. a - 1 + 1 : u[i] = s[1 + i - 1]
    BY <1>1, SubSeqProperties
  <1> HIDE DEF u
  <1>3. Len(u) = a
    BY <1>1, <1>2
  <1>4. \A i \in 1 .. a : i \in 1 .. a - 1 + 1 /\ 1 + i - 1 = i
    BY <1>1
  <1>5. \A i \in 1 .. a : u[i] = s[i]
    BY <1>2, <1>4
  <1> QED
    BY <1>2, <1>3, <1>5 DEF u

Parts(t, s, a, x, b) ==
  /\ t \in Seq(Word) /\ Len(t) = a + Len(x) + Rest(s, b)
  /\ \A i \in 1 .. a : t[i] = s[i]
  /\ \A i \in 1 .. Len(x) : t[a + i] = x[i]
  /\ \A i \in 1 .. Rest(s, b) : t[a + Len(x) + i] = s[b + i]

LEMMA ReplacedIs ==
  ASSUME NEW s \in Seq(Word), NEW a \in 0 .. Len(s), NEW x \in Seq(Word), NEW b \in Nat
  PROVE  Parts(Replaced(s, a, x, b), s, a, x, b)
  <1> DEFINE u == SubSeq(s, 1, a)
             v == SubSeq(s, b + 1, Len(s))
             w == u \o x
             t == w \o v
             r == Rest(s, b)
             n == Len(x)
  <1>1. t = Replaced(s, a, x, b)
    BY DEF Replaced
  <1>2. u \in Seq(Word) /\ Len(u) = a /\ \A i \in 1 .. a : u[i] = s[i]
    BY StartIs
  <1>3. v \in Seq(Word) /\ Len(v) = r /\ \A i \in 1 .. r : v[i] = s[b + i]
    BY RestIs
  <1>4. r \in Nat /\ a \in Nat /\ n \in Nat
    BY LenProperties DEF Rest
  <1> HIDE DEF u, v, r
  <1>5. w \in Seq(Word) /\ Len(w) = Len(u) + n
        /\ \A i \in 1 .. Len(u) + n : w[i] = IF i <= Len(u) THEN u[i] ELSE x[i - Len(u)]
    BY <1>2, ConcatProperties
  <1> HIDE DEF w
  <1>6. t \in Seq(Word) /\ Len(t) = Len(w) + Len(v)
        /\ \A i \in 1 .. Len(w) + Len(v) : t[i] = IF i <= Len(w) THEN w[i] ELSE v[i - Len(w)]
    BY <1>3, <1>5, ConcatProperties
  <1> HIDE DEF t, n
  <1>7. Len(t) = a + n + r /\ Len(w) = a + n /\ Len(v) = r /\ Len(u) = a
    BY <1>2, <1>3, <1>5, <1>6
  <1>8. ASSUME NEW i \in 1 .. a PROVE t[i] = s[i]
    <2>1. i \in 1 .. a + n /\ i \in 1 .. a + n + r /\ i <= a + n /\ i <= a
      BY <1>4
    <2> QED
      BY <1>2, <1>5, <1>6, <1>7, <2>1
  <1>9. ASSUME NEW i \in 1 .. n PROVE t[a + i] = x[i]
    <2>1. a + i \in 1 .. a + n /\ a + i \in 1 .. a + n + r /\ a + i <= a + n /\ ~(a + i <= a) /\ (a + i) - a = i
      BY <1>4
    <2>2. t[a + i] = w[a + i] /\ w[a + i] = x[(a + i) - a]
      BY <1>5, <1>6, <1>7, <2>1
    <2> QED
      BY <2>1, <2>2
  <1>10. ASSUME NEW i \in 1 .. r PROVE t[a + n + i] = s[b + i]
    <2>1. a + n + i \in 1 .. a + n + r /\ ~(a + n + i <= a + n) /\ (a + n + i) - (a + n) = i
      BY <1>4
    <2>2. t[a + n + i] = v[(a + n + i) - (a + n)]
      BY <1>6, <1>7, <2>1
    <2> QED
      BY <1>3, <2>1, <2>2
  <1>11. Parts(t, s, a, x, b)
    BY <1>6, <1>7, <1>8, <1>9, <1>10 DEF Parts, n, r
  <1> QED
    BY <1>1, <1>11

LEMMA DeletedIs ==
  ASSUME NEW s \in Seq(Word), NEW a \in 0 .. Len(s), NEW b \in Nat
  PROVE  Parts(SubSeq(s, 1, a) \o SubSeq(s, b + 1, Len(s)), s, a, <<>>, b)
  <1> DEFINE u == SubSeq(s, 1, a)
             e == <<>>
  <1>1. u \in Seq(Word)
    BY StartIs
  <1>2. e \in Seq(Word) /\ u \o e = u
    BY <1>1, ConcatEmptySeq
  <1> HIDE DEF e
  <1>3. Parts(Replaced(s, a, e, b), s, a, e, b)
    BY <1>2, ReplacedIs
  <1>4. Replaced(s, a, e, b) = u \o SubSeq(s, b + 1, Len(s))
    BY <1>2 DEF Replaced
  <1> QED
    BY <1>3, <1>4 DEF e

LEMMA DeleteStands ==
  ASSUME NEW m, NEW s, NEW h, Full(m, s, h), NEW start \in 0 .. Len(s), NEW num \in Nat \ {0}
  PROVE  Stands(Delete(m, start, num), SubSeq(s, 1, start) \o SubSeq(s, start + num + 1, Len(s)), h)
  <1> DEFINE n == Len(s)
             left == Rest(s, start + num)
             t == SubSeq(s, 1, start) \o SubSeq(s, start + num + 1, n)
             is == Up(start, start + left - 1)
             e == -num
             c == Move(m.argv, is, e)
             d == Store(c, start + left, Null)
             r == Realloc(d, start + left + 1)
             I == {i \in start .. start + num - 1 : i < n}
             D == {Load(m.argv, i) : i \in I}
             f == [p \in DOMAIN m.heap \ D |-> m.heap[p]]
             A == 0 .. start + left - 1
             from == [i \in A |-> IF i < start THEN i ELSE i + num]
  <1>1. Stands(m, s, h)
    BY DEF Stands
  <1>2. /\ n \in Nat /\ s \in Seq(Word) /\ Count(m) = n /\ HeapOK(m.heap, h)
        /\ m.argv \in [0 .. n -> Int] /\ m.argv[n] = Null /\ DOMAIN m.argv = 0 .. n
        /\ \A i \in 0 .. n - 1 : m.argv[i] \in DOMAIN m.heap \ DOMAIN h
        /\ \A i, j \in 0 .. n - 1 : m.argv[i] = m.argv[j] => i = j
        /\ \A p \in DOMAIN m.heap \ DOMAIN h : \E i \in 0 .. n - 1 : m.argv[i] = p
    BY <1>1, StandsFor, Owners, FullCells
  <1>3. /\ left \in Nat /\ start \in Nat /\ start + num \in Nat /\ start + left \in 0 .. n
        /\ left = (IF n < start + num THEN 0 ELSE n - (start + num))
        /\ (left # 0 => start + left + num = n)
    BY <1>2 DEF Rest
  <1>4. t \in Seq(Word) /\ Len(t) = start + left /\ (\A i \in 1 .. start : t[i] = s[i])
        /\ \A i \in 1 .. left : t[start + i] = s[start + num + i]
    <2>1. Parts(t, s, start, <<>>, start + num)
      BY <1>2, <1>3, DeletedIs
    <2>2. Len(<<>>) = 0
      OBVIOUS
    <2> HIDE DEF t, left
    <2>3. t \in Seq(Word) /\ Len(t) = start + 0 + left /\ (\A i \in 1 .. start : t[i] = s[i])
          /\ \A i \in 1 .. left : t[start + 0 + i] = s[start + num + i]
      BY <2>1, <2>2 DEF Parts, left
    <2> QED
      BY <1>3, <2>3
  <1>5. Delete(m, start, num) = With(r, f)
    BY <1>2, <1>3 DEF Delete, With, Freed
  <1>6. Len(is) = left /\ \A k \in 1 .. Len(is) : is[k] = start + k - 1
    <2>1. is = [k \in 1 .. left |-> start + k - 1]
      <3>1. (start + left - 1) - start + 1 = left
        BY <1>3
      <3> HIDE DEF left
      <3> QED
        BY <3>1 DEF Up
    <2> HIDE DEF left, is
    <2> QED
      BY <1>3, <2>1
  <1> HIDE DEF left, t, is, n
  <1>7. e \in Int /\ e <= 0 /\ \A i \in Int : i - e = i + num
    OBVIOUS
  <1> HIDE DEF e
  <1>8. /\ c \in [0 .. n -> Int]
        /\ \A i \in 0 .. n : c[i] = IF start <= i /\ i < start + left THEN m.argv[i + num] ELSE m.argv[i]
    <2>1. Len(is) # 0 => start + Len(is) - e <= n + 1
      BY <1>2, <1>3, <1>6, <1>7
    <2>2. Len(is) \in Nat
      BY <1>3, <1>6
    <2>3. Shifted(m.argv, c, n, start, start + Len(is), e)
      BY <1>2, <1>3, <1>6, <1>7, <2>1, <2>2, MovesUp
    <2> HIDE DEF c
    <2> QED
      BY <1>6, <1>7, <2>3 DEF Shifted
  <1> HIDE DEF c
  <1>9. d \in [0 .. n -> Int] /\ d[start + left] = Null /\ \A i \in A : d[i] = c[i]
    BY <1>3, <1>8 DEF Store, Null
  <1> HIDE DEF d
  <1>10. r \in [0 .. start + left -> Int] /\ \A i \in 0 .. start + left : r[i] = d[i]
    <2>2. \A i \in 0 .. start + left : i \in DOMAIN d /\ d[i] \in Int
      BY <1>2, <1>3, <1>9
    <2> DEFINE k == start + left + 1
    <2>3. r = [i \in 0 .. k - 1 |-> IF i \in DOMAIN d THEN d[i] ELSE Junk]
      BY DEF Realloc
    <2>5. k - 1 = start + left
      BY <1>3
    <2> HIDE DEF k, r
    <2>4. r = [i \in 0 .. start + left |-> IF i \in DOMAIN d THEN d[i] ELSE Junk]
      BY <2>3, <2>5
    <2> QED
      BY <2>2, <2>4
  <1> HIDE DEF r
  <1>11. \A i \in A : from[i] \in 0 .. n - 1 /\ r[i] = m.argv[from[i]]
    <2> SUFFICES ASSUME NEW i \in A PROVE from[i] \in 0 .. n - 1 /\ r[i] = m.argv[from[i]]
      OBVIOUS
    <2>1. i \in 0 .. n /\ i \in 0 .. start + left /\ r[i] = c[i]
      <3>1. i \in 0 .. start + left /\ i \in 0 .. n
        BY <1>2, <1>3
      <3> HIDE DEF A
      <3> QED
        BY <1>9, <1>10, <3>1
    <2>2. CASE i < start
      <3>1. from[i] = i /\ i \in 0 .. n - 1 /\ ~(start <= i)
        BY <1>2, <1>3, <2>2
      <3> QED
        BY <1>8, <2>1, <3>1
    <2>3. CASE ~(i < start)
      <3>1. from[i] = i + num /\ start <= i /\ i < start + left /\ left # 0 /\ i \in Nat
        BY <1>3, <2>3
      <3>2. i + num \in 0 .. n - 1
        BY <1>2, <1>3, <3>1
      <3> QED
        BY <1>8, <2>1, <3>1, <3>2
    <2> QED
      BY <2>2, <2>3
  <1>12. \A i \in A : t[i + 1] = s[from[i] + 1]
    <2> SUFFICES ASSUME NEW i \in A PROVE t[i + 1] = s[from[i] + 1]
      OBVIOUS
    <2>1. CASE i < start
      <3>1. from[i] = i /\ i + 1 \in 1 .. start
        BY <1>3, <2>1
      <3> QED
        BY <1>4, <3>1
    <2>2. CASE ~(i < start)
      <3>1. from[i] = i + num /\ i + 1 - start \in 1 .. left /\ start + (i + 1 - start) = i + 1
            /\ start + num + (i + 1 - start) = i + num + 1
        BY <1>3, <2>2
      <3>2. t[start + (i + 1 - start)] = s[start + num + (i + 1 - start)]
        BY <1>4, <3>1
      <3> QED
        BY <3>1, <3>2
    <2> QED
      BY <2>1, <2>2
  <1>13. \A i, j \in A : from[i] = from[j] => i = j
    BY <1>3
  <1>14. \A j \in 0 .. n - 1 : j \notin I => \E i \in A : from[i] = j
    <2> SUFFICES ASSUME NEW j \in 0 .. n - 1, j \notin I PROVE \E i \in A : from[i] = j
      OBVIOUS
    <2>1. CASE j < start
      <3>1. j \in A /\ from[j] = j
        BY <1>2, <1>3, <2>1
      <3> QED
        BY <3>1
    <2>2. CASE ~(j < start)
      <3>1. ~(j <= start + num - 1)
        BY <1>2, <2>2
      <3>2. j - num \in A /\ ~(j - num < start)
        BY <1>2, <1>3, <2>2, <3>1
      <3>3. from[j - num] = (j - num) + num
        BY <3>2
      <3>4. from[j - num] = j
        BY <1>2, <3>3
      <3> QED
        BY <3>2, <3>4
    <2> QED
      BY <2>1, <2>2
  <1>15. \A i \in A : from[i] \notin I
    BY <1>3
  <1>16. \A i \in I : i \in 0 .. n - 1 /\ Load(m.argv, i) = m.argv[i]
    <2>1. \A i \in I : i \in 0 .. n - 1 /\ i \in 0 .. n
      BY <1>2, <1>3
    <2> QED
      BY <1>2, <2>1 DEF Load
  <1>17. from \in [A -> 0 .. n - 1] /\ DOMAIN from = A
    BY <1>11
  <1> HIDE DEF from, I
  <1>18. DOMAIN f = DOMAIN m.heap \ D /\ f = [p \in DOMAIN f |-> m.heap[p]]
    OBVIOUS
  <1> HIDE DEF f
  <1>19. \A p \in D : \E i \in I : p = m.argv[i]
    BY <1>16
  <1>20. \A i \in I : m.argv[i] \in D
    BY <1>16
  <1> HIDE DEF D
  <1>21. DOMAIN f \subseteq DOMAIN m.heap /\ DOMAIN h \subseteq DOMAIN f
    BY <1>2, <1>16, <1>18, <1>19 DEF HeapOK
  <1>22. \A i \in A : r[i] \in DOMAIN f
    <2> SUFFICES ASSUME NEW i \in A, m.argv[from[i]] \in D PROVE FALSE
      BY <1>2, <1>11, <1>18
    <2>1. PICK j \in I : m.argv[from[i]] = m.argv[j]
      BY <1>19
    <2> QED
      BY <1>2, <1>11, <1>15, <1>16, <2>1
  <1>23. \A p \in DOMAIN f \ DOMAIN h : \E i \in A : r[i] = p
    <2> SUFFICES ASSUME NEW p \in DOMAIN f \ DOMAIN h PROVE \E i \in A : r[i] = p
      OBVIOUS
    <2>1. PICK j \in 0 .. n - 1 : m.argv[j] = p
      BY <1>2, <1>18
    <2>2. j \notin I
      BY <1>18, <1>20, <2>1
    <2>3. PICK i \in A : from[i] = j
      BY <1>14, <2>2
    <2> QED
      BY <1>11, <2>1, <2>3
  <1>24. A = 0 .. Len(t) - 1 /\ A \in SUBSET (0 .. Len(t) - 1)
    BY <1>3, <1>4 DEF A
  <1> HIDE DEF A
  <1>25. r \in [0 .. Len(t) -> Int] /\ r[Len(t)] = Null /\ \A i \in A : r[i] = m.argv[from[i]] /\ t[i + 1] = s[from[i] + 1]
    BY <1>3, <1>4, <1>9, <1>10, <1>11, <1>12
  <1>26. Partly(With(r, f), t, A, h)
    <2>1. from \in [A -> 0 .. Len(s) - 1]
      BY <1>17 DEF n
    <2>2. Traced(m, s, t, A, from, r)
      BY <1>4, <1>13, <1>24, <1>25, <2>1 DEF Traced
    <2> QED
      BY <1>1, <1>18, <1>21, <1>22, <1>23, <2>2, Rearranged
  <1> QED
    BY <1>5, <1>24, <1>26 DEF Stands, Full, t, n

LEMMA InsertIntoStands ==
  ASSUME NEW m, NEW s, NEW h, Full(m, s, h), NEW start \in 0 .. Len(s), NEW source \in Seq(Word), source # <<>>
  PROVE  Stands(InsertInto(m, start, source), Replaced(s, start, source, start), h)
  <1> DEFINE n == Len(s)
             d == Len(source)
             t == Replaced(s, start, source, start)
             end == n + d
             b == Realloc(m.argv, end + 1)
             is == Down(end - 1, start + d)
             c == Move(b, is, d)
             e == Store(c, end, Null)
             A == Gap(t, start, d)
             from == [i \in A |-> IF i < start THEN i ELSE i - d]
  <1>1. Stands(m, s, h)
    BY DEF Stands
  <1>2. n \in Nat /\ s \in Seq(Word) /\ Count(m) = n /\ m = [argv |-> m.argv, heap |-> m.heap]
    BY <1>1, StandsFor, Owners
  <1>3. d \in Nat \ {0} /\ start \in Nat /\ start <= n /\ Len(source) \in Nat
    BY <1>2, LenProperties, EmptySeq
  <1>4. /\ t \in Seq(Word) /\ Len(t) = end /\ \A i \in 1 .. start : t[i] = s[i]
        /\ \A i \in 1 .. d : t[start + i] = source[i]
        /\ \A i \in 1 .. n - start : t[start + d + i] = s[start + i]
    <2>1. Parts(t, s, start, source, start)
      BY <1>2, <1>3, ReplacedIs
    <2>2. Rest(s, start) = n - start
      BY <1>3 DEF Rest
    <2> HIDE DEF t, n, d
    <2>3. start + d + (n - start) = n + d
      BY <1>2, <1>3
    <2> QED
      BY <2>1, <2>2, <2>3 DEF Parts, d
  <1>5. InsertInto(m, start, source) = StrdupAll(With(e, m.heap), start, source)
    BY <1>2 DEF InsertInto, With
  <1>6. Len(is) = n - start /\ \A k \in 1 .. Len(is) : is[k] = (end - 1) - k + 1
    <2> DEFINE x == end - 1
    <2>1. is = [k \in 1 .. x - (start + d) + 1 |-> x - k + 1]
      BY DEF Down
    <2>2. x - (start + d) + 1 = n - start /\ n - start \in Nat
      BY <1>2, <1>3
    <2> HIDE DEF n, d, is, x
    <2>3. is = [k \in 1 .. n - start |-> x - k + 1]
      BY <2>1, <2>2
    <2>4. Len(is) = n - start /\ \A k \in 1 .. Len(is) : is[k] = x - k + 1
      BY <2>2, <2>3
    <2> QED
      BY <2>4 DEF x
  <1> HIDE DEF n, d, t, is
  <1>7. b \in [0 .. end -> Int] /\ \A i \in 0 .. n - 1 : b[i] = m.argv[i]
    <2> DEFINE k == end + 1
    <2>1. k \in Nat /\ k - 1 = end /\ \A i \in 0 .. n - 1 : i < k
      BY <1>2, <1>3
    <2> HIDE DEF k
    <2>2. /\ Realloc(m.argv, k) \in [0 .. k - 1 -> Int]
          /\ \A i \in 0 .. n - 1 : i < k => Realloc(m.argv, k)[i] = m.argv[i]
      BY <1>1, <2>1, CellsOf DEF n
    <2> QED
      BY <2>1, <2>2 DEF k
  <1> HIDE DEF b
  <1>8. /\ c \in [0 .. end -> Int]
        /\ \A i \in 0 .. end : c[i] = IF start + d <= i /\ i < end THEN b[i - d] ELSE b[i]
    <2> DEFINE x == end - 1
    <2>1. end \in Nat /\ Len(is) \in Nat /\ x \in Int /\ x <= end /\ d <= x + 1 - Len(is)
          /\ x + 1 - Len(is) = start + d /\ x + 1 = end
      BY <1>2, <1>3, <1>6
    <2>2. \A k \in 1 .. Len(is) : is[k] = x - k + 1
      BY <1>6
    <2> HIDE DEF x, end
    <2>3. Shifted(b, Move(b, is, d), end, x + 1 - Len(is), x + 1, d)
      BY <1>3, <1>7, <2>1, <2>2, MovesDown
    <2> QED
      BY <2>1, <2>3 DEF Shifted
  <1> HIDE DEF c
  <1>9. e \in [0 .. end -> Int] /\ e[end] = Null /\ \A i \in 0 .. end - 1 : e[i] = c[i]
    BY <1>2, <1>3, <1>8 DEF Store, Null
  <1> HIDE DEF e
  <1>10. A = {i \in 0 .. end - 1 : i < start \/ start + d <= i} /\ A \in SUBSET (0 .. Len(t) - 1)
    BY <1>4 DEF Gap
  <1>11. \A i \in A : from[i] \in 0 .. n - 1 /\ e[i] = m.argv[from[i]]
    <2> SUFFICES ASSUME NEW i \in A PROVE from[i] \in 0 .. n - 1 /\ e[i] = m.argv[from[i]]
      OBVIOUS
    <2>1. i \in 0 .. end /\ i \in 0 .. end - 1 /\ e[i] = c[i]
      BY <1>2, <1>3, <1>9, <1>10
    <2>2. CASE i < start
      <3>1. from[i] = i /\ i \in 0 .. n - 1 /\ ~(start + d <= i)
        BY <1>2, <1>3, <2>1, <2>2
      <3> QED
        BY <1>7, <1>8, <2>1, <3>1
    <2>3. CASE ~(i < start)
      <3>1. from[i] = i - d /\ start + d <= i /\ i < end
        BY <1>2, <1>3, <1>10, <2>1, <2>3
      <3>2. i - d \in 0 .. n - 1
        BY <1>2, <1>3, <2>1, <3>1
      <3> QED
        BY <1>7, <1>8, <2>1, <3>1, <3>2
    <2> QED
      BY <2>2, <2>3
  <1>12. \A i \in A : t[i + 1] = s[from[i] + 1]
    <2> SUFFICES ASSUME NEW i \in A PROVE t[i + 1] = s[from[i] + 1]
      OBVIOUS
    <2>1. i \in 0 .. end - 1
      BY <1>10
    <2>2. CASE i < start
      <3>1. from[i] = i /\ i + 1 \in 1 .. start
        BY <1>3, <2>1, <2>2
      <3> QED
        BY <1>4, <3>1
    <2>3. CASE ~(i < start)
      <3>1. from[i] = i - d /\ start + d <= i
        BY <1>2, <1>3, <1>10, <2>1, <2>3
      <3> DEFINE k == i + 1 - start - d
      <3>2. k \in 1 .. n - start /\ start + d + k = i + 1 /\ start + k = (i - d) + 1
        BY <1>2, <1>3, <2>1, <3>1
      <3> HIDE DEF k
      <3>3. t[start + d + k] = s[start + k]
        BY <1>4, <3>2
      <3> QED
        BY <3>1, <3>2, <3>3
    <2> QED
      BY <2>2, <2>3
  <1>13. ASSUME NEW i \in A, NEW j \in A, from[i] = from[j] PROVE i = j
    <2>1. i \in Nat /\ j \in Nat /\ (i < start \/ start + d <= i) /\ (j < start \/ start + d <= j)
      BY <1>2, <1>3, <1>10
    <2>2. from[i] = (IF i < start THEN i ELSE i - d) /\ from[j] = (IF j < start THEN j ELSE j - d)
      OBVIOUS
    <2> QED
      BY <1>3, <1>13, <2>1, <2>2
  <1>14. \A j \in 0 .. n - 1 : \E i \in A : from[i] = j
    <2> SUFFICES ASSUME NEW j \in 0 .. n - 1 PROVE \E i \in A : from[i] = j
      OBVIOUS
    <2>1. CASE j < start
      <3>1. j \in A
        BY <1>2, <1>3, <1>10, <2>1
      <3>2. from[j] = j
        BY <2>1, <3>1
      <3> QED
        BY <3>1, <3>2
    <2>2. CASE ~(j < start)
      <3> DEFINE i == j + d
      <3>1. i \in A /\ ~(i < start) /\ i - d = j
        BY <1>2, <1>3, <1>10, <2>2
      <3> HIDE DEF i
      <3>2. from[i] = i - d
        BY <3>1
      <3> QED
        BY <3>1, <3>2
    <2> QED
      BY <2>1, <2>2
  <1>15. from \in [A -> 0 .. Len(s) - 1]
    BY <1>11 DEF n
  <1> HIDE DEF from, A
  <1>16. e \in [0 .. Len(t) -> Int] /\ e[Len(t)] = Null /\ \A i \in A : e[i] = m.argv[from[i]] /\ t[i + 1] = s[from[i] + 1]
    BY <1>4, <1>9, <1>11, <1>12
  <1>17. \A j \in 0 .. Len(s) - 1 : \E i \in A : from[i] = j
    BY <1>14 DEF n
  <1>18. Partly(With(e, m.heap), t, A, h)
    <2>1. \A i, j \in A : from[i] = from[j] => i = j
      BY <1>13
    <2>2. t \in Seq(Word) /\ A \in SUBSET (0 .. Len(t) - 1)
      BY <1>4, <1>10
    <2>3. Traced(m, s, t, A, from, e)
      BY <1>15, <1>16, <2>1, <2>2 DEF Traced
    <2> QED
      BY <1>1, <1>17, <2>3, Kept
  <1>19. Full(StrdupAll(With(e, m.heap), start, source), t, h)
    <2>1. start + Len(source) <= Len(t)
      BY <1>2, <1>3, <1>4 DEF d
    <2>2. Partly(With(e, m.heap), t, Gap(t, start, Len(source)), h)
      BY <1>18 DEF A, d
    <2>3. \A k \in 1 .. Len(source) : source[k] = t[start + k]
      BY <1>4 DEF d
    <2> QED
      BY <1>3, <2>1, <2>2, <2>3, StrdupAllFills
  <1> QED
    BY <1>5, <1>19 DEF Stands, t

LEMMA InsertStands ==
  ASSUME NEW m, NEW s, NEW h, Stands(m, s, h), m.argv # NoArray,
         NEW start \in Nat, NEW source \in Seq(Word), source # <<>>
  PROVE  LET a == IF start < Len(s) THEN start ELSE Len(s)
         IN  Stands(InsertArgv(m, start, source), Replaced(s, a, source, a), h)
  <1>1. Full(m, s, h)
    BY DEF Stands, Empty
  <1>2. Count(m) = Len(s) /\ Len(s) \in Nat /\ s \in Seq(Word)
    BY StandsFor
  <1>3. CASE start > Len(s)
    <2>1. Stands(AppendAll(m, source), s \o source, h)
      BY AppendAllStands
    <2>2. Replaced(s, Len(s), source, Len(s)) = s \o source
      <3>1. SubSeq(s, 1, Len(s)) = s
        BY <1>2, SubSeqFull
      <3>2. SubSeq(s, Len(s) + 1, Len(s)) = <<>>
        BY <1>2, SubSeqEmpty
      <3>3. s \o source \in Seq(Word)
        BY <1>2, ConcatProperties
      <3>4. (s \o source) \o <<>> = s \o source
        BY <3>3, ConcatEmptySeq
      <3> QED
        BY <3>1, <3>2, <3>4 DEF Replaced
    <2>3. (IF start < Len(s) THEN start ELSE Len(s)) = Len(s) /\ InsertArgv(m, start, source) = AppendAll(m, source)
      BY <1>2, <1>3 DEF InsertArgv
    <2> QED
      BY <2>1, <2>2, <2>3
  <1>4. CASE ~(start > Len(s))
    <2>1. start \in 0 .. Len(s) /\ (IF start < Len(s) THEN start ELSE Len(s)) = start
      BY <1>2, <1>4
    <2>2. Stands(InsertInto(m, start, source), Replaced(s, start, source, start), h)
      BY <1>1, <2>1, InsertIntoStands
    <2>3. InsertArgv(m, start, source) = InsertInto(m, start, source)
      BY <1>2, <1>4 DEF InsertArgv
    <2> QED
      BY <2>1, <2>2, <2>3
  <1> QED
    BY <1>3, <1>4

-----------------------------------------------------------------------------
(* The strings of an argument vector have no delimiter.                    *)
Chars == Alphabet \cup {Delimiter}
Plain == {w \in Word : \A i \in DOMAIN w : w[i] # Delimiter}

LEMMA PlainWords ==
  /\ Plain \subseteq Word /\ <<>> \in Plain /\ Arguments \subseteq Plain
  /\ Strings \subseteq Seq(Chars) /\ Word \subseteq Seq(Chars) /\ Seq(Plain) \subseteq Seq(Word)
  <1>1. Alphabet \subseteq Chars
    BY DEF Chars
  <1> HIDE DEF Chars
  <1>2. Word \subseteq Seq(Chars)
    BY <1>1, SeqMonotonic DEF Word
  <1>3. <<>> \in Word
    BY DEF Word
  <1>4. Seq(Plain) \subseteq Seq(Word)
    BY SeqMonotonic DEF Plain
  <1>5. <<>> \in Plain
    BY <1>3 DEF Plain
  <1> QED
    BY <1>2, <1>4, <1>5, ArgvAssumption DEF Plain

LEMMA PlainGrows ==
  ASSUME NEW w \in Plain, NEW ch \in Chars, ch # Delimiter
  PROVE  Append(w, ch) \in Plain
  <1>1. w \in Seq(Alphabet) /\ ch \in Alphabet
    BY DEF Plain, Word, Chars
  <1> DEFINE v == Append(w, ch)
  <1>2. /\ v \in Seq(Alphabet) /\ Len(v) = Len(w) + 1 /\ Len(w) \in Nat /\ DOMAIN w = 1 .. Len(w)
        /\ \A i \in 1 .. Len(w) : v[i] = w[i]
        /\ v[Len(w) + 1] = ch
    BY <1>1, AppendProperties, LenProperties
  <1> HIDE DEF v
  <1>3. DOMAIN v = 1 .. Len(w) + 1
    BY <1>2, LenProperties
  <1>4. \A i \in DOMAIN w : w[i] # Delimiter
    BY DEF Plain
  <1>5. ASSUME NEW i \in DOMAIN v PROVE v[i] # Delimiter
    BY <1>2, <1>3, <1>4
  <1> QED
    BY <1>2, <1>5 DEF Plain, Word, v

(* The last piece grows.                                                   *)
LEMMA PieceType ==
  ASSUME NEW ps \in Seq(Plain), ps # <<>>, NEW ch \in Chars
  PROVE  Piece(ps, ch) \in Seq(Plain) /\ Piece(ps, ch) # <<>>
  <1>1. CASE ch = Delimiter
    <2>1. Append(ps, <<>>) \in Seq(Plain) /\ Append(ps, <<>>) # <<>>
      BY PlainWords, AppendProperties
    <2> QED
      BY <1>1, <2>1 DEF Piece
  <1>2. CASE ch # Delimiter
    <2> DEFINE n == Len(ps)
               w == ps[n]
               v == Append(w, ch)
    <2>1. n \in 1 .. Len(ps)
      BY LenProperties, EmptySeq
    <2>2. w \in Plain
      BY <2>1, ElementOfSeq
    <2>3. v \in Plain
      BY <1>2, <2>2, PlainGrows
    <2>4. Piece(ps, ch) = [ps EXCEPT ![n] = v]
      BY <1>2 DEF Piece
    <2> HIDE DEF v, n
    <2>5. [ps EXCEPT ![n] = v] \in Seq(Plain) /\ Len([ps EXCEPT ![n] = v]) = Len(ps)
      BY <2>1, <2>3, ExceptSeq
    <2>6. Len(ps) # 0 /\ Len(<<>>) = 0
      BY <2>1
    <2> QED
      BY <2>4, <2>5, <2>6
  <1> QED
    BY <1>1, <1>2

LEMMA PiecesType ==
  ASSUME NEW string \in Seq(Chars)
  PROVE  Pieces(string) \in Seq(Plain) /\ Pieces(string) # <<>>
  <1> DEFINE n == Len(string)
             T == Seq(Plain) \ {<<>>}
  <1>1. n \in Nat
    BY LenProperties
  <1>2. PICK g : /\ Pieces(string) = g[n] /\ g[0] = <<<<>>>>
                 /\ \A k \in 1 .. n : g[k] = Piece(g[k - 1], string[k])
    BY <1>1, PiecesIs
  <1> DEFINE Done == {k \in Nat : k <= n => g[k] \in T}
  <1>3. 0 \in Done
    <2> DEFINE e == <<>>
    <2>1. e \in Plain
      BY PlainWords
    <2> HIDE DEF e
    <2>2. <<e>> \in T
      BY <2>1
    <2>3. g[0] = <<e>>
      BY <1>2 DEF e
    <2> HIDE DEF T
    <2> QED
      BY <2>2, <2>3
  <1>4. ASSUME NEW k \in Nat, k \in Done PROVE k + 1 \in Done
    <2> SUFFICES ASSUME k + 1 <= n PROVE g[k + 1] \in T
      OBVIOUS
    <2>1. k <= n /\ k + 1 \in 1 .. n /\ (k + 1) - 1 = k
      BY <1>1
    <2>2. g[k] \in T /\ g[k + 1] = Piece(g[k], string[k + 1])
      BY <1>2, <1>4, <2>1
    <2>3. string[k + 1] \in Chars
      BY <2>1, ElementOfSeq
    <2> QED
      BY <2>2, <2>3, PieceType
  <1>5. g[n] \in T
    <2> HIDE DEF Done
    <2>1. n \in Done
      BY <1>1, <1>3, <1>4, InductionOnSets
    <2> QED
      BY <1>1, <2>1 DEF Done
  <1> QED
    BY <1>2, <1>5

LEMMA NonEmptyType ==
  ASSUME NEW ps \in Seq(Plain)
  PROVE  NonEmpty(ps) \in Seq(Plain)
  <1> DEFINE n == Len(ps)
  <1>1. n \in Nat
    BY LenProperties
  <1>2. PICK g : /\ NonEmpty(ps) = g[n] /\ g[0] = <<>>
                 /\ \A k \in 1 .. n : g[k] = Keep(g[k - 1], ps[k])
    BY <1>1, NonEmptyIs
  <1> DEFINE Done == {k \in Nat : k <= n => g[k] \in Seq(Plain)}
  <1>3. 0 \in Done
    <2>1. <<>> \in Seq(Plain)
      OBVIOUS
    <2> QED
      BY <1>2, <2>1
  <1>4. ASSUME NEW k \in Nat, k \in Done PROVE k + 1 \in Done
    <2> SUFFICES ASSUME k + 1 <= n PROVE g[k + 1] \in Seq(Plain)
      OBVIOUS
    <2>1. k <= n /\ k + 1 \in 1 .. n /\ (k + 1) - 1 = k
      BY <1>1
    <2>2. g[k] \in Seq(Plain) /\ g[k + 1] = Keep(g[k], ps[k + 1])
      BY <1>2, <1>4, <2>1
    <2>3. ps[k + 1] \in Plain
      BY <2>1, ElementOfSeq
    <2>4. Append(g[k], ps[k + 1]) \in Seq(Plain)
      BY <2>2, <2>3, AppendProperties
    <2> QED
      BY <2>2, <2>4 DEF Keep
  <1>5. g[n] \in Seq(Plain)
    <2> HIDE DEF Done
    <2>1. n \in Done
      BY <1>1, <1>3, <1>4, InductionOnSets
    <2> QED
      BY <1>1, <2>1 DEF Done
  <1> QED
    BY <1>2, <1>5

(* The pieces that split appends.                                          *)
Seen(string) == IF Last(Pieces(string)) = <<>> THEN Front(Pieces(string)) ELSE Pieces(string)
Chosen(string, include_empty) == IF include_empty THEN Seen(string) ELSE NonEmpty(Seen(string))

LEMMA FrontIs ==
  ASSUME NEW S, NEW s \in Seq(S), s # <<>>
  PROVE  /\ Front(s) \in Seq(S) /\ Len(Front(s)) = Len(s) - 1 /\ Len(s) \in Nat \ {0}
         /\ \A i \in 1 .. Len(s) - 1 : Front(s)[i] = s[i]
  <1> DEFINE n == Len(s) - 1
             u == SubSeq(s, 1, n)
  <1>1. Len(s) \in Nat \ {0} /\ n \in Nat
    BY LenProperties, EmptySeq
  <1>2. \A i \in 1 .. n : s[i] \in S
    BY <1>1, ElementOfSeq
  <1> HIDE DEF n
  <1>3. /\ u \in Seq(S) /\ Len(u) = IF 1 <= n THEN n - 1 + 1 ELSE 0
        /\ \A i \in 1 .. n - 1 + 1 : u[i] = s[1 + i - 1]
    BY <1>1, <1>2, SubSeqProperties
  <1> HIDE DEF u
  <1>4. Len(u) = n
    BY <1>1, <1>3
  <1>5. \A i \in 1 .. n : i \in 1 .. n - 1 + 1 /\ 1 + i - 1 = i
    BY <1>1
  <1>6. \A i \in 1 .. n : u[i] = s[i]
    BY <1>3, <1>5
  <1>7. u \in Seq(S) /\ Len(u) = Len(s) - 1 /\ \A i \in 1 .. Len(s) - 1 : u[i] = s[i]
    BY <1>3, <1>4, <1>6 DEF n
  <1> QED
    BY <1>1, <1>7 DEF Front, u, n

LEMMA ChosenType ==
  ASSUME NEW string \in Seq(Chars), NEW include_empty
  PROVE  Chosen(string, include_empty) \in Seq(Plain)
  <1>1. Pieces(string) \in Seq(Plain) /\ Pieces(string) # <<>>
    BY PiecesType
  <1>2. Front(Pieces(string)) \in Seq(Plain)
    BY <1>1, FrontIs
  <1>3. Seen(string) \in Seq(Plain)
    BY <1>1, <1>2 DEF Seen
  <1> QED
    BY <1>3, NonEmptyType DEF Chosen

LEMMA SplitStands ==
  ASSUME NEW m, NEW h, Stands(m, <<>>, h), NEW string \in Seq(Chars), NEW include_empty
  PROVE  Stands(SplitInter(m, string, include_empty), Chosen(string, include_empty), h)
  <1> DEFINE c == Chosen(string, include_empty)
  <1>1. SplitInter(m, string, include_empty) = AppendAll(m, c)
    BY DEF SplitInter, Chosen, Seen
  <1>2. c \in Seq(Word)
    BY ChosenType, PlainWords
  <1> HIDE DEF c
  <1>3. Stands(AppendAll(m, c), <<>> \o c, h) /\ <<>> \o c = c
    BY <1>2, AppendAllStands, ConcatEmptySeq
  <1> QED
    BY <1>1, <1>3 DEF c

-----------------------------------------------------------------------------
(* The invariant: the vector stands for a sequence of strings.             *)
Holds(s) == s \in Seq(Plain) /\ Stands(Vector, s, <<>>)
ArgvInv == \E s \in Seq(Plain) : Holds(s)

LEMMA InitHolds == Init => ArgvInv
  <1> SUFFICES ASSUME Init PROVE Holds(<<>>)
    BY DEF ArgvInv, Holds
  <1> DEFINE e == <<>>
  <1>1. Vector = [argv |-> Vector.argv, heap |-> Vector.heap] /\ Vector.argv = NoArray /\ Vector.heap = e
    BY DEF Vector, Init
  <1>2. DOMAIN e = {} /\ e = [p \in DOMAIN e |-> e[p]]
    OBVIOUS
  <1> HIDE DEF e
  <1>3. HeapOK(e, e)
    BY <1>2, FS_EmptySet DEF HeapOK
  <1>4. Empty(Vector, e)
    BY <1>1, <1>3 DEF Empty
  <1>5. <<>> \in Seq(Plain)
    OBVIOUS
  <1> QED
    BY <1>4, <1>5 DEF Holds, Stands, e

LEMMA Became ==
  \A m, s, n : Stands(m, s, <<>>) /\ s \in Seq(Plain) /\ Becomes(m, n) => Holds(s)' /\ argc' = n
  <1> SUFFICES ASSUME NEW m, NEW s, NEW n, Stands(m, s, <<>>), s \in Seq(Plain), Becomes(m, n)
               PROVE  Holds(s)' /\ argc' = n
    OBVIOUS
  <1>1. m = [argv |-> m.argv, heap |-> m.heap]
    BY Owners
  <1>2. Vector' = m
    BY <1>1 DEF Vector, Becomes
  <1>3. Stands(Vector', s, <<>>)
    BY <1>2
  <1> QED
    BY <1>3 DEF Holds, Becomes

LEMMA HoldsElements ==
  \A s : Holds(s) => /\ Elements(Vector) = s /\ Count(Vector) = Len(s) /\ Args = s
                     /\ s \in Seq(Plain) /\ s \in Seq(Word) /\ Len(s) \in Nat /\ Stands(Vector, s, <<>>)
  BY StandsFor, PlainWords DEF Holds, Args

(* The elements stay free of the delimiter.                                *)
LEMMA ReplacedPlain ==
  ASSUME NEW s \in Seq(Plain), NEW a \in 0 .. Len(s), NEW x \in Seq(Plain), NEW b \in Nat
  PROVE  Replaced(s, a, x, b) \in Seq(Plain) /\ SubSeq(s, 1, a) \o SubSeq(s, b + 1, Len(s)) \in Seq(Plain)
  <1> DEFINE u == SubSeq(s, 1, a)
             v == SubSeq(s, b + 1, Len(s))
  <1>1. Len(s) \in Nat /\ \A i \in 1 .. Len(s) : s[i] \in Plain
    BY LenProperties, ElementOfSeq
  <1>2. u \in Seq(Plain)
    BY <1>1, SubSeqProperties
  <1>3. v \in Seq(Plain)
    <2>1. \A i \in b + 1 .. Len(s) : s[i] \in Plain
      BY <1>1
    <2>2. b + 1 \in Int /\ Len(s) \in Int
      BY <1>1
    <2> QED
      BY <2>1, <2>2, SubSeqProperties
  <1>4. Replaced(s, a, x, b) = (u \o x) \o v
    BY DEF Replaced
  <1> HIDE DEF u, v
  <1>5. u \o x \in Seq(Plain) /\ u \o v \in Seq(Plain)
    BY <1>2, <1>3, ConcatProperties
  <1>6. (u \o x) \o v \in Seq(Plain)
    BY <1>3, <1>5, ConcatProperties
  <1> QED
    BY <1>4, <1>5, <1>6 DEF u, v

LEMMA ReplacedEnds ==
  ASSUME NEW s \in Seq(Plain)
  PROVE  /\ \A arg \in Plain : /\ Replaced(s, Len(s), <<arg>>, Len(s)) = Append(s, arg)
                               /\ Replaced(s, 0, <<arg>>, 0) = <<arg>> \o s
         /\ Replaced(s, Len(s), <<>>, Len(s)) = s /\ Replaced(s, 0, <<>>, 0) = s
  <1>1. /\ Len(s) \in Nat /\ SubSeq(s, 1, Len(s)) = s /\ SubSeq(s, Len(s) + 1, Len(s)) = <<>>
        /\ SubSeq(s, 1, 0) = <<>> /\ SubSeq(s, 0 + 1, Len(s)) = s
    BY LenProperties, SubSeqFull, SubSeqEmpty
  <1>2. s \o <<>> = s /\ <<>> \o s = s /\ <<>> \o <<>> = <<>>
    BY ConcatEmptySeq
  <1>3. ASSUME NEW arg \in Plain
        PROVE  Replaced(s, Len(s), <<arg>>, Len(s)) = Append(s, arg) /\ Replaced(s, 0, <<arg>>, 0) = <<arg>> \o s
    <2> DEFINE u == <<arg>>
    <2>1. u \in Seq(Plain)
      OBVIOUS
    <2>2. Append(s, arg) = s \o u
      BY AppendIsConcat
    <2> HIDE DEF u
    <2>3. s \o u \in Seq(Plain)
      BY <2>1, ConcatProperties
    <2>4. (s \o u) \o <<>> = s \o u /\ <<>> \o u = u
      BY <2>1, <2>3, ConcatEmptySeq
    <2>5. Replaced(s, Len(s), u, Len(s)) = s \o u /\ Replaced(s, 0, u, 0) = u \o s
      BY <1>1, <2>4 DEF Replaced
    <2> QED
      BY <2>2, <2>5 DEF u
  <1>4. Replaced(s, Len(s), <<>>, Len(s)) = s /\ Replaced(s, 0, <<>>, 0) = s
    BY <1>1, <1>2 DEF Replaced
  <1> QED
    BY <1>3, <1>4

(* What each call makes of the sequence.                                   *)
LEMMA Made ==
  \A m, t : Stands(m, t, <<>>) /\ t \in Seq(Plain) /\ Becomes(m, Count(m)) => Holds(t)' /\ argc' = Len(t)
  <1> SUFFICES ASSUME NEW m, NEW t, Stands(m, t, <<>>), t \in Seq(Plain), Becomes(m, Count(m))
               PROVE  Holds(t)' /\ argc' = Len(t)
    OBVIOUS
  <1>1. Count(m) = Len(t)
    BY StandsFor
  <1>2. Holds(t)' /\ argc' = Count(m)
    BY Became
  <1> QED
    BY <1>1, <1>2

LEMMA AppendCall ==
  ASSUME NEW s, Holds(s), NEW arg \in Plain, pmix_argv_append(arg)
  PROVE  Holds(Append(s, arg))' /\ argc' = Len(Append(s, arg))
  <1>1. s \in Seq(Plain) /\ arg \in Word /\ Stands(Vector, s, <<>>)
    BY PlainWords, HoldsElements
  <1> DEFINE t == Append(s, arg)
             m == AppendNosize(Vector, arg)
  <1>2. t \in Seq(Plain)
    BY <1>1, AppendProperties
  <1>3. Stands(m, t, <<>>)
    BY <1>1, AppendStands
  <1>4. Becomes(m, Count(m))
    BY DEF pmix_argv_append
  <1> HIDE DEF m, t
  <1>5. Holds(t)' /\ argc' = Len(t)
    BY <1>2, <1>3, <1>4, Made
  <1> QED
    BY <1>5 DEF t

LEMMA PrependCall ==
  ASSUME NEW s, Holds(s), NEW arg \in Plain, pmix_argv_prepend_nosize(arg)
  PROVE  Holds(<<arg>> \o s)' /\ argc' = Len(<<arg>> \o s)
  <1>1. s \in Seq(Plain) /\ arg \in Word /\ Stands(Vector, s, <<>>)
    BY PlainWords, HoldsElements
  <1> DEFINE u == <<arg>>
             t == u \o s
             m == PrependNosize(Vector, arg)
  <1>2. t \in Seq(Plain)
    <2>1. u \in Seq(Plain)
      OBVIOUS
    <2> HIDE DEF u
    <2> QED
      BY <1>1, <2>1, ConcatProperties
  <1>3. Stands(m, t, <<>>)
    BY <1>1, PrependStands
  <1>4. Becomes(m, Count(m))
    BY DEF pmix_argv_prepend_nosize
  <1> HIDE DEF m, t
  <1>5. Holds(t)' /\ argc' = Len(t)
    BY <1>2, <1>3, <1>4, Made
  <1> QED
    BY <1>5 DEF t, u

LEMMA UniqueCall ==
  ASSUME NEW s, Holds(s), NEW arg \in Plain, pmix_argv_append_unique(arg)
  PROVE  LET t == IF Contains(s, arg) THEN s ELSE Append(s, arg)
         IN  Holds(t)' /\ argc' = Len(t)
  <1>1. s \in Seq(Plain) /\ arg \in Word /\ Stands(Vector, s, <<>>) /\ Elements(Vector) = s
    BY PlainWords, HoldsElements
  <1> DEFINE t == IF Contains(s, arg) THEN s ELSE Append(s, arg)
             m == AppendUnique(Vector, arg)
  <1>2. t \in Seq(Plain)
    BY <1>1, AppendProperties
  <1>3. Stands(m, t, <<>>)
    <2>1. Stands(AppendNosize(Vector, arg), Append(s, arg), <<>>)
      BY <1>1, AppendStands
    <2> QED
      BY <1>1, <2>1 DEF AppendUnique
  <1>4. Becomes(m, Count(m))
    BY DEF pmix_argv_append_unique
  <1> HIDE DEF m, t
  <1>5. Holds(t)' /\ argc' = Len(t)
    BY <1>2, <1>3, <1>4, Made
  <1> QED
    BY <1>5 DEF t

LEMMA FreeCall ==
  ASSUME NEW s, Holds(s), pmix_argv_free
  PROVE  Holds(<<>>)'
  <1> DEFINE m == Free(Vector)
  <1>1. Stands(m, <<>>, <<>>)
    BY HoldsElements, FreeStands
  <1>2. Becomes(m, 0)
    BY DEF pmix_argv_free
  <1> HIDE DEF m
  <1>3. <<>> \in Seq(Plain)
    OBVIOUS
  <1> QED
    BY <1>1, <1>2, <1>3, Became

LEMMA CopyCall ==
  ASSUME NEW s, Holds(s), pmix_argv_copy
  PROVE  Holds(s)' /\ argc' = Len(s)
  <1> DEFINE x == Copy(Vector)
             m == [x EXCEPT !.heap = Freed(@, Vector.argv, 0 .. Count(Vector) - 1)]
  <1>1. Stands(Vector, s, <<>>) /\ Vector.argv # NoArray /\ s \in Seq(Plain)
    BY HoldsElements DEF pmix_argv_copy, Vector
  <1>2. Stands(m, s, <<>>)
    BY <1>1, CopyStands
  <1>3. Becomes(m, Count(x)) /\ argc' = Count(x)
    BY DEF pmix_argv_copy, Becomes, Vector
  <1>4. Count(x) = Count(m)
    BY DEF Count, Load
  <1> HIDE DEF m, x
  <1> QED
    BY <1>1, <1>2, <1>3, <1>4, Made

LEMMA DeleteCall ==
  ASSUME NEW s, Holds(s), NEW start \in Nat, NEW num \in Nat, pmix_argv_delete(start, num)
  PROVE  /\ Holds(SubSeq(s, 1, start) \o SubSeq(s, start + num + 1, Len(s)))' /\ argc' = Len(s) - num
         /\ start + num <= Len(s) => Len(SubSeq(s, 1, start) \o SubSeq(s, start + num + 1, Len(s))) = Len(s) - num
  <1> DEFINE m == Delete(Vector, start, num)
             b == start + num
             t == SubSeq(s, 1, start) \o SubSeq(s, b + 1, Len(s))
  <1>1. /\ s \in Seq(Plain) /\ s \in Seq(Word) /\ Len(s) \in Nat /\ Stands(Vector, s, <<>>)
        /\ Count(Vector) = Len(s)
    BY HoldsElements
  <1>2. Vector.argv # NoArray /\ num # 0 /\ start \in 0 .. Len(s) /\ Becomes(m, Len(s) - num)
    BY <1>1 DEF pmix_argv_delete, Vector
  <1>3. Full(Vector, s, <<>>)
    BY <1>1, <1>2 DEF Stands, Empty
  <1>4. Stands(m, t, <<>>)
    BY <1>2, <1>3, DeleteStands
  <1>5. t \in Seq(Plain)
    <2>1. b \in Nat
      BY <1>2
    <2> HIDE DEF b
    <2> QED
      BY <1>1, <1>2, <2>1, ReplacedPlain
  <1>6. ASSUME b <= Len(s) PROVE Len(t) = Len(s) - num
    <2>1. Parts(t, s, start, <<>>, b)
      BY <1>1, <1>2, DeletedIs
    <2>2. Len(<<>>) = 0 /\ Rest(s, b) = Len(s) - b
      BY <1>6 DEF Rest
    <2> HIDE DEF t
    <2>3. Len(t) = start + 0 + (Len(s) - b)
      BY <2>1, <2>2 DEF Parts
    <2> QED
      BY <1>1, <2>3
  <1> HIDE DEF m, t
  <1>7. Holds(t)' /\ argc' = Len(s) - num
    BY <1>2, <1>4, <1>5, Became
  <1> QED
    BY <1>6, <1>7 DEF t

LEMMA InsertCall ==
  ASSUME NEW s, Holds(s), NEW start \in Nat, NEW source \in Seq(Plain), source # <<>>,
         pmix_argv_insert(start, source)
  PROVE  LET a == IF start < Len(s) THEN start ELSE Len(s)
         IN  Holds(Replaced(s, a, source, a))' /\ argc' = Len(Replaced(s, a, source, a))
  <1> DEFINE a == IF start < Len(s) THEN start ELSE Len(s)
             t == Replaced(s, a, source, a)
             m == InsertArgv(Vector, start, source)
  <1>1. s \in Seq(Plain) /\ Stands(Vector, s, <<>>) /\ Len(s) \in Nat /\ source \in Seq(Word)
    BY PlainWords, HoldsElements
  <1>2. Vector.argv # NoArray /\ Becomes(m, Count(m))
    BY DEF pmix_argv_insert, Vector
  <1>3. Stands(m, t, <<>>)
    BY <1>1, <1>2, InsertStands
  <1>4. a \in 0 .. Len(s) /\ a \in Nat
    BY <1>1
  <1> HIDE DEF m, a
  <1>5. t \in Seq(Plain)
    BY <1>1, <1>4, ReplacedPlain
  <1> HIDE DEF t
  <1>6. Holds(t)' /\ argc' = Len(t)
    BY <1>2, <1>3, <1>5, Made
  <1> QED
    BY <1>6 DEF t, a

LEMMA SplitCall ==
  ASSUME NEW s, Holds(s), NEW string \in Seq(Chars), NEW include_empty, pmix_argv_split(string, include_empty)
  PROVE  Holds(Chosen(string, include_empty))'
  <1> DEFINE t == Chosen(string, include_empty)
             m == SplitInter(Vector, string, include_empty)
  <1>1. Stands(Vector, s, <<>>)
    BY HoldsElements
  <1>2. Vector.argv = NoArray /\ Becomes(m, Count(m))
    BY DEF pmix_argv_split, Vector
  <1>3. s = <<>>
    <2>1. ASSUME Full(Vector, s, <<>>) PROVE FALSE
      <3>1. DOMAIN Vector.argv = 0 .. Len(s) /\ Len(s) \in Nat
        BY <2>1, FullCells
      <3>2. 0 \in DOMAIN Vector.argv
        BY <3>1
      <3> QED
        BY <1>2, <3>2 DEF NoArray
    <2> QED
      BY <1>1, <2>1 DEF Stands
  <1>4. Stands(m, t, <<>>)
    BY <1>1, <1>3, SplitStands
  <1>5. t \in Seq(Plain)
    BY ChosenType
  <1> HIDE DEF m, t
  <1> QED
    BY <1>2, <1>4, <1>5, Made DEF t

LEMMA NextHolds == ArgvInv /\ [Next]_vars => ArgvInv'
  <1> SUFFICES ASSUME ArgvInv, [Next]_vars PROVE \E t : Holds(t)'
    BY DEF ArgvInv, Holds
  <1>1. PICK s \in Seq(Plain) : Holds(s)
    BY DEF ArgvInv
  <1>2. ASSUME NEW arg \in Arguments,
               pmix_argv_append(arg) \/ pmix_argv_prepend_nosize(arg) \/ pmix_argv_append_unique(arg)
        PROVE  \E t : Holds(t)'
    BY <1>1, <1>2, PlainWords, AppendCall, PrependCall, UniqueCall
  <1>3. ASSUME NEW arg \in Arguments, NEW start \in 0 .. MaxCount + 1,
               NEW more \in {<<>>} \cup {<<a>> : a \in Arguments}, pmix_argv_insert(start, <<arg>> \o more)
        PROVE  \E t : Holds(t)'
    <2> DEFINE u == <<arg>>
               x == u \o more
    <2>1. u \in Seq(Plain) /\ Len(u) = 1 /\ more \in Seq(Plain)
      <3>1. u \in Seq(Plain) /\ Len(u) = 1
        BY PlainWords
      <3>2. CASE more = <<>>
        BY <3>1, <3>2
      <3>3. CASE more \in {<<a>> : a \in Arguments}
        <4>1. PICK a \in Arguments : more = <<a>>
          BY <3>3
        <4>2. a \in Plain
          BY PlainWords
        <4> QED
          BY <3>1, <4>1, <4>2
      <3> QED
        BY <3>2, <3>3
    <2> HIDE DEF u
    <2>2. x \in Seq(Plain) /\ Len(x) = 1 + Len(more) /\ Len(more) \in Nat
      <3>1. Len(more) \in Nat
        BY <2>1, LenProperties
      <3>2. u \o more \in Seq(Plain) /\ Len(u \o more) = Len(u) + Len(more)
        BY <2>1, ConcatProperties
      <3> QED
        BY <2>1, <3>1, <3>2
    <2>3. pmix_argv_insert(start, x)
      BY <1>3 DEF u
    <2> HIDE DEF x
    <2>4. x # <<>>
      BY <2>2
    <2>5. start \in Nat
      BY ArgvAssumption
    <2> QED
      BY <1>1, <2>2, <2>3, <2>4, <2>5, InsertCall
  <1>4. ASSUME NEW start \in 0 .. MaxCount, NEW num \in 0 .. MaxCount, pmix_argv_delete(start, num)
        PROVE  \E t : Holds(t)'
    <2>1. start \in Nat /\ num \in Nat
      BY ArgvAssumption
    <2> QED
      BY <1>1, <1>4, <2>1, DeleteCall
  <1>5. ASSUME NEW string \in Strings, NEW include_empty \in BOOLEAN, pmix_argv_split(string, include_empty)
        PROVE  \E t : Holds(t)'
    BY <1>1, <1>5, PlainWords, SplitCall
  <1>6. CASE pmix_argv_free
    BY <1>1, <1>6, FreeCall
  <1>7. CASE pmix_argv_copy
    BY <1>1, <1>7, CopyCall
  <1>8. CASE UNCHANGED vars
    <2>1. Vector' = Vector
      BY <1>8 DEF vars, Vector
    <2>2. Holds(s)'
      BY <1>1, <2>1 DEF Holds
    <2> QED
      BY <2>2
  <1> QED
    BY <1>2, <1>3, <1>4, <1>5, <1>6, <1>7, <1>8 DEF Next

(* In every state the array and the strings in memory stand for a sequence *)
(* of strings without delimiters.                                          *)
THEOREM Inductive == Spec => []ArgvInv
  BY InitHolds, NextHolds, PTL DEF Spec

-----------------------------------------------------------------------------
LEMMA MemoryIsSafe == ArgvInv => MemorySafe
  <1> SUFFICES ASSUME ArgvInv PROVE MemorySafe
    OBVIOUS
  <1>1. PICK s \in Seq(Plain) : Holds(s)
    BY DEF ArgvInv
  <1> DEFINE h == <<>>
             I == 0 .. Len(s) - 1
  <1>2. /\ Stands(Vector, s, h) /\ Len(s) \in Nat /\ Vector.argv = argv /\ Vector.heap = heap
        /\ HeapOK(heap, h) /\ DOMAIN h = {}
        /\ \A i \in I : argv[i] \in DOMAIN heap
        /\ \A i, j \in I : argv[i] = argv[j] => i = j
        /\ \A p \in DOMAIN heap : \E i \in I : argv[i] = p
    <2>1. Vector.argv = argv /\ Vector.heap = heap /\ DOMAIN h = {}
      BY DEF Vector
    <2>2. Stands(Vector, s, h) /\ Len(s) \in Nat
      BY <1>1, HoldsElements
    <2> QED
      BY <2>1, <2>2, Owners
  <1> HIDE DEF h
  <1>3. CASE Full(Vector, s, h)
    <2>1. DOMAIN argv = 0 .. Len(s) /\ argv[Len(s)] = Null /\ \A i \in I : argv[i] # Null
      BY <1>2, <1>3, FullCells
    <2>2. argv # NoArray
      <3>1. 0 \in DOMAIN argv
        BY <1>2, <2>1
      <3> QED
        BY <3>1 DEF NoArray
    <2>3. Cardinality(DOMAIN argv) - 1 = Len(s)
      <3>1. Len(s) + 1 \in Nat /\ 0 .. (Len(s) + 1) - 1 = 0 .. Len(s)
        BY <1>2
      <3>2. Cardinality(0 .. (Len(s) + 1) - 1) = Len(s) + 1
        BY <3>1, IndexInterval
      <3> QED
        BY <1>2, <2>1, <3>1, <3>2
    <2>4. Cardinality(DOMAIN heap) = Len(s)
      <3> DEFINE f == [i \in I |-> argv[i]]
      <3>1. f \in [I -> DOMAIN heap] /\ DOMAIN f = I
        BY <1>2
      <3>2. \A a, b \in I : f[a] = f[b] => a = b
        BY <1>2
      <3>3. \A p \in DOMAIN heap : \E i \in I : f[i] = p
        BY <1>2
      <3>4. IsFiniteSet(I) /\ Cardinality(I) = Len(s)
        BY <1>2, IndexInterval
      <3> HIDE DEF f, I
      <3>5. f \in Bijection(I, DOMAIN heap)
        BY <3>1, <3>2, <3>3 DEF Bijection, Injection, Surjection, IsInjective
      <3>6. ExistsBijection(I, DOMAIN heap)
        BY <3>5 DEF ExistsBijection
      <3> QED
        BY <3>4, <3>6, FS_Bijection
    <2>5. \A i \in 0 .. Len(s) : argv[i] = Null <=> i = Len(s)
      <3> SUFFICES ASSUME NEW i \in 0 .. Len(s) PROVE argv[i] = Null <=> i = Len(s)
        OBVIOUS
      <3>1. i = Len(s) \/ i \in I
        BY <1>2
      <3>2. i \in I => i # Len(s)
        BY <1>2
      <3> QED
        BY <2>1, <3>1, <3>2
    <2> QED
      BY <1>2, <2>1, <2>2, <2>3, <2>4, <2>5 DEF MemorySafe, Owned, NothingLeft
  <1>4. CASE Empty(Vector, h)
    <2>1. argv = NoArray /\ DOMAIN heap = {} /\ heap = [p \in DOMAIN heap |-> heap[p]]
      BY <1>2, <1>4 DEF Empty, HeapOK
    <2>2. heap = <<>>
      BY <2>1
    <2> QED
      BY <2>1, <2>2 DEF MemorySafe, Owned, NothingLeft
  <1> QED
    BY <1>2, <1>3, <1>4 DEF Stands

(* Every string has one owner in the array or is freed, and the array ends *)
(* with its NULL, whatever is called in whatever order.                    *)
THEOREM MemoryIsOwned == Spec => []MemorySafe
  BY Inductive, MemoryIsSafe, PTL

-----------------------------------------------------------------------------
LEMMA GrowsBy ==
  \A s, t, from, added : Holds(s) /\ Holds(t)' /\ argc' = Len(t) /\ t = Replaced(s, from, added, from) => Grows(from, added)
  <1> SUFFICES ASSUME NEW s, NEW t, NEW from, NEW added, Holds(s), Holds(t)', argc' = Len(t),
                      t = Replaced(s, from, added, from)
               PROVE  Grows(from, added)
    OBVIOUS
  <1>1. Args = s
    BY HoldsElements
  <1>2. Args' = t
    <2>1. Stands(Vector', t, <<>>)
      BY DEF Holds
    <2>2. Elements(Vector') = t
      BY <2>1, StandsFor
    <2> QED
      BY <2>2 DEF Args
  <1> QED
    BY <1>1, <1>2 DEF Grows, Replaced

LEMMA NextKeepsContract ==
  ASSUME ArgvInv
  PROVE  /\ \A arg \in Arguments :
              /\ pmix_argv_append(arg) => Grows(Len(Args), <<arg>>)
              /\ pmix_argv_prepend_nosize(arg) => Grows(0, <<arg>>)
              /\ pmix_argv_append_unique(arg) => Grows(Len(Args), IF Contains(Args, arg) THEN <<>> ELSE <<arg>>)
         /\ pmix_argv_copy => Grows(0, <<>>)
         /\ \A start \in 0 .. MaxCount + 1, a, b \in Arguments :
              pmix_argv_insert(start, <<a, b>>) => Grows(IF start < Len(Args) THEN start ELSE Len(Args), <<a, b>>)
         /\ \A start, num \in 0 .. MaxCount :
              pmix_argv_delete(start, num) =>
                /\ Args' = SubSeq(Args, 1, start) \o SubSeq(Args, start + num + 1, Len(Args))
                /\ start + num <= Len(Args) => argc' = Len(Args')
  <1>1. PICK s \in Seq(Plain) : Holds(s)
    BY DEF ArgvInv
  <1>2. Args = s /\ Len(s) \in Nat
    BY <1>1, HoldsElements
  <1>3. ASSUME NEW arg \in Arguments, pmix_argv_append(arg) PROVE Grows(Len(Args), <<arg>>)
    <2>1. arg \in Plain
      BY PlainWords
    <2>2. Append(s, arg) = Replaced(s, Len(s), <<arg>>, Len(s))
      BY <2>1, ReplacedEnds
    <2>3. Holds(Append(s, arg))' /\ argc' = Len(Append(s, arg))
      BY <1>1, <1>3, <2>1, AppendCall
    <2> QED
      BY <1>1, <1>2, <2>2, <2>3, GrowsBy
  <1>4. ASSUME NEW arg \in Arguments, pmix_argv_prepend_nosize(arg) PROVE Grows(0, <<arg>>)
    <2>1. arg \in Plain
      BY PlainWords
    <2>2. <<arg>> \o s = Replaced(s, 0, <<arg>>, 0)
      BY <2>1, ReplacedEnds
    <2>3. Holds(<<arg>> \o s)' /\ argc' = Len(<<arg>> \o s)
      BY <1>1, <1>4, <2>1, PrependCall
    <2> QED
      BY <1>1, <2>2, <2>3, GrowsBy
  <1>5. ASSUME NEW arg \in Arguments, pmix_argv_append_unique(arg)
        PROVE  Grows(Len(Args), IF Contains(Args, arg) THEN <<>> ELSE <<arg>>)
    <2> DEFINE t == IF Contains(s, arg) THEN s ELSE Append(s, arg)
               x == IF Contains(s, arg) THEN <<>> ELSE <<arg>>
    <2>1. arg \in Plain
      BY PlainWords
    <2>2. t = Replaced(s, Len(s), x, Len(s))
      BY <2>1, ReplacedEnds
    <2>3. Holds(t)' /\ argc' = Len(t)
      BY <1>1, <1>5, <2>1, UniqueCall
    <2> HIDE DEF t, x
    <2>4. Grows(Len(s), x)
      BY <1>1, <2>2, <2>3, GrowsBy
    <2> QED
      BY <1>2, <2>4 DEF x
  <1>6. ASSUME pmix_argv_copy PROVE Grows(0, <<>>)
    <2>1. s = Replaced(s, 0, <<>>, 0)
      BY ReplacedEnds
    <2> QED
      BY <1>1, <1>6, <2>1, CopyCall, GrowsBy
  <1>7. ASSUME NEW start \in 0 .. MaxCount + 1, NEW a \in Arguments, NEW b \in Arguments,
               pmix_argv_insert(start, <<a, b>>)
        PROVE  Grows(IF start < Len(Args) THEN start ELSE Len(Args), <<a, b>>)
    <2> DEFINE x == <<a, b>>
               k == IF start < Len(s) THEN start ELSE Len(s)
               t == Replaced(s, k, x, k)
    <2>1. x \in Seq(Plain) /\ x # <<>>
      BY PlainWords
    <2>2. start \in Nat
      BY ArgvAssumption
    <2>3. pmix_argv_insert(start, x)
      BY <1>7
    <2> HIDE DEF x
    <2>4. Holds(t)' /\ argc' = Len(t)
      BY <1>1, <2>1, <2>2, <2>3, InsertCall
    <2> HIDE DEF k, t
    <2>5. Grows(k, x)
      BY <1>1, <2>4, GrowsBy DEF t
    <2> QED
      BY <1>2, <2>5 DEF k, x
  <1>8. ASSUME NEW start \in 0 .. MaxCount, NEW num \in 0 .. MaxCount, pmix_argv_delete(start, num)
        PROVE  /\ Args' = SubSeq(Args, 1, start) \o SubSeq(Args, start + num + 1, Len(Args))
               /\ start + num <= Len(Args) => argc' = Len(Args')
    <2> DEFINE t == SubSeq(s, 1, start) \o SubSeq(s, start + num + 1, Len(s))
    <2>1. start \in Nat /\ num \in Nat
      BY ArgvAssumption
    <2>2. Holds(t)' /\ argc' = Len(s) - num /\ (start + num <= Len(s) => Len(t) = Len(s) - num)
      BY <1>1, <1>8, <2>1, DeleteCall
    <2> HIDE DEF t
    <2>3. Args' = t
      <3>1. Stands(Vector', t, <<>>)
        BY <2>2 DEF Holds
      <3>2. Elements(Vector') = t
        BY <3>1, StandsFor
      <3> QED
        BY <3>2 DEF Args
    <2> QED
      BY <1>2, <2>2, <2>3 DEF t
  <1> QED
    BY <1>3, <1>4, <1>5, <1>6, <1>7, <1>8

(* Each call does to the elements what argv.h says.                        *)
THEOREM CallsKeepContract == Spec => Contract
  <1>1. ArgvInv /\ [Next]_vars =>
          [/\ \A arg \in Arguments :
                /\ pmix_argv_append(arg) => Grows(Len(Args), <<arg>>)
                /\ pmix_argv_prepend_nosize(arg) => Grows(0, <<arg>>)
                /\ pmix_argv_append_unique(arg) => Grows(Len(Args), IF Contains(Args, arg) THEN <<>> ELSE <<arg>>)
           /\ pmix_argv_copy => Grows(0, <<>>)
           /\ \A start \in 0 .. MaxCount + 1, a, b \in Arguments :
                pmix_argv_insert(start, <<a, b>>) => Grows(IF start < Len(Args) THEN start ELSE Len(Args), <<a, b>>)
           /\ \A start, num \in 0 .. MaxCount :
                pmix_argv_delete(start, num) =>
                  /\ Args' = SubSeq(Args, 1, start) \o SubSeq(Args, start + num + 1, Len(Args))
                  /\ start + num <= Len(Args) => argc' = Len(Args')]_vars
    BY NextKeepsContract
  <1> QED
    BY <1>1, Inductive, PTL DEF Spec, Contract

-----------------------------------------------------------------------------
(* Splitting what has been joined.  The loops, one round more.             *)

LEMMA FlattenIs ==
  ASSUME NEW seqs, Len(seqs) \in Nat \ {0}
  PROVE  \E g : /\ FlattenSeq(seqs) = g[Len(seqs)] /\ g[1] = seqs[1]
               /\ \A k \in 2 .. Len(seqs) : g[k] = g[k - 1] \o seqs[k]
  <1> DEFINE n == Len(seqs)
             Def(g, k) == IF k = 1 THEN seqs[k] ELSE g[k - 1] \o seqs[k]
             Upto(g, j) == g = [k \in 1 .. j |-> Def(g, k)]
             Defined == {j \in Nat : \E g : Upto(g, j)}
             flatten[k \in 1 .. n] == Def(flatten, k)
  <1>1. ASSUME NEW g, NEW h, NEW k \in Nat, k # 1 => g[k - 1] = h[k - 1] PROVE Def(g, k) = Def(h, k)
    BY <1>1
  <1>2. FlattenSeq(seqs) = flatten[n]
    BY DEF FlattenSeq, flatten, Def, n
  <1>3. \A g : Def(g, 1) = seqs[1] /\ \A k \in 2 .. n : Def(g, k) = g[k - 1] \o seqs[k]
    <2>1. n \in Nat /\ \A k \in 2 .. n : k # 1
      OBVIOUS
    <2> HIDE DEF n
    <2> QED
      BY <2>1
  <1> HIDE DEF Def, n, flatten
  <1>4. 0 \in Defined
    <2> DEFINE h == [k \in 1 .. 0 |-> 0]
    <2>1. Upto(h, 0)
      <3>1. \A k \in 1 .. 0 : h[k] = Def(h, k)
        OBVIOUS
      <3> QED
        BY <3>1
    <2> HIDE DEF h
    <2> QED
      BY <2>1
  <1>5. ASSUME NEW j \in Nat, j \in Defined PROVE j + 1 \in Defined
    <2>1. PICK g : Upto(g, j)
      BY <1>5
    <2> DEFINE h == [k \in 1 .. j + 1 |-> IF k = j + 1 THEN Def(g, j + 1) ELSE g[k]]
    <2>2. (\A k \in 1 .. j : h[k] = g[k] /\ g[k] = Def(g, k)) /\ h[j + 1] = Def(g, j + 1)
      <3>1. \A k \in 1 .. j : g[k] = Def(g, k)
        BY <2>1
      <3>2. (\A k \in 1 .. j : h[k] = g[k]) /\ h[j + 1] = Def(g, j + 1)
        OBVIOUS
      <3> QED
        BY <3>1, <3>2
    <2> HIDE DEF h
    <2>3. \A k \in 1 .. j + 1 : Def(h, k) = Def(g, k)
      <3> SUFFICES ASSUME NEW k \in 1 .. j + 1 PROVE Def(h, k) = Def(g, k)
        OBVIOUS
      <3>1. k \in Nat /\ (k # 1 => h[k - 1] = g[k - 1])
        BY <2>2
      <3> QED
        BY <1>1, <3>1
    <2>4. \A k \in 1 .. j + 1 : h[k] = Def(h, k)
      BY <2>2, <2>3
    <2>5. Upto(h, j + 1)
      BY <2>4 DEF h
    <2> QED
      BY <2>5
  <1>6. n \in Defined
    <2> HIDE DEF Defined
    <2>1. Nat \subseteq Defined
      BY <1>4, <1>5, InductionOnSets
    <2> QED
      BY <2>1 DEF n
  <1>7. Upto(flatten, n)
    <2>1. PICK g : Upto(g, n)
      BY <1>6
    <2> QED
      BY <2>1 DEF flatten
  <1>8. \A k \in 1 .. n : flatten[k] = Def(flatten, k)
    BY <1>7
  <1>9. flatten[1] = seqs[1] /\ \A k \in 2 .. n : flatten[k] = flatten[k - 1] \o seqs[k]
    <2>1. n \in Nat \ {0}
      BY DEF n
    <2>2. \A k \in 2 .. n : Def(flatten, k) = flatten[k - 1] \o seqs[k]
      BY <1>3
    <2>3. 1 \in 1 .. n /\ \A k \in 2 .. n : k \in 1 .. n
      BY <2>1
    <2>4. flatten[1] = Def(flatten, 1) /\ Def(flatten, 1) = seqs[1]
      BY <1>3, <1>8, <2>3
    <2>5. \A k \in 2 .. n : flatten[k] = Def(flatten, k)
      BY <1>8, <2>3
    <2> QED
      BY <2>2, <2>4, <2>5
  <1> QED
    BY <1>2, <1>9 DEF n

LEMMA PiecesAppend ==
  ASSUME NEW S, NEW x \in Seq(S), NEW e \in S
  PROVE  Pieces(Append(x, e)) = Piece(Pieces(x), e)
  <1> DEFINE n == Len(x)
             y == Append(x, e)
  <1>1. n \in Nat /\ Len(y) = n + 1 /\ y[n + 1] = e /\ \A k \in 1 .. n : y[k] = x[k]
    BY LenProperties, AppendProperties
  <1>2. PICK f : /\ Pieces(x) = f[n] /\ f[0] = <<<<>>>> /\ \A k \in 1 .. n : f[k] = Piece(f[k - 1], x[k])
    BY <1>1, PiecesIs
  <1> HIDE DEF y
  <1>3. PICK g : /\ Pieces(y) = g[n + 1] /\ g[0] = <<<<>>>>
                 /\ \A k \in 1 .. n + 1 : g[k] = Piece(g[k - 1], y[k])
    <2>1. Len(y) \in Nat
      BY <1>1
    <2>2. PICK g : /\ Pieces(y) = g[Len(y)] /\ g[0] = <<<<>>>>
                   /\ \A k \in 1 .. Len(y) : g[k] = Piece(g[k - 1], y[k])
      BY <2>1, PiecesIs
    <2> QED
      BY <1>1, <2>2
  <1> HIDE DEF n
  <1> DEFINE Same == {k \in Nat : k <= n => g[k] = f[k]}
  <1>4. 0 \in Same
    BY <1>2, <1>3
  <1>5. ASSUME NEW k \in Nat, k \in Same PROVE k + 1 \in Same
    <2> SUFFICES ASSUME k + 1 <= n PROVE g[k + 1] = f[k + 1]
      OBVIOUS
    <2>1. k <= n /\ k + 1 \in 1 .. n /\ k + 1 \in 1 .. n + 1 /\ (k + 1) - 1 = k
      BY <1>1
    <2>2. g[k] = f[k] /\ y[k + 1] = x[k + 1]
      BY <1>1, <1>5, <2>1
    <2>3. g[k + 1] = Piece(g[k], y[k + 1]) /\ f[k + 1] = Piece(f[k], x[k + 1])
      BY <1>2, <1>3, <2>1
    <2> QED
      BY <2>2, <2>3
  <1>6. g[n] = f[n]
    <2> HIDE DEF Same
    <2>1. n \in Same
      BY <1>1, <1>4, <1>5, InductionOnSets
    <2> QED
      BY <1>1, <2>1 DEF Same
  <1>7. g[n + 1] = Piece(g[n], e)
    <2>1. n + 1 \in 1 .. n + 1 /\ (n + 1) - 1 = n
      BY <1>1
    <2>2. g[n + 1] = Piece(g[(n + 1) - 1], y[n + 1])
      BY <1>3, <2>1
    <2> QED
      BY <1>1, <2>1, <2>2
  <1> QED
    BY <1>2, <1>3, <1>6, <1>7 DEF y

LEMMA NonEmptyAppend ==
  ASSUME NEW S, NEW x \in Seq(S), NEW e \in S
  PROVE  NonEmpty(Append(x, e)) = Keep(NonEmpty(x), e)
  <1> DEFINE n == Len(x)
             y == Append(x, e)
  <1>1. n \in Nat /\ Len(y) = n + 1 /\ y[n + 1] = e /\ \A k \in 1 .. n : y[k] = x[k]
    BY LenProperties, AppendProperties
  <1>2. PICK f : /\ NonEmpty(x) = f[n] /\ f[0] = <<>> /\ \A k \in 1 .. n : f[k] = Keep(f[k - 1], x[k])
    BY <1>1, NonEmptyIs
  <1> HIDE DEF y
  <1>3. PICK g : /\ NonEmpty(y) = g[n + 1] /\ g[0] = <<>>
                 /\ \A k \in 1 .. n + 1 : g[k] = Keep(g[k - 1], y[k])
    <2>1. Len(y) \in Nat
      BY <1>1
    <2>2. PICK g : /\ NonEmpty(y) = g[Len(y)] /\ g[0] = <<>>
                   /\ \A k \in 1 .. Len(y) : g[k] = Keep(g[k - 1], y[k])
      BY <2>1, NonEmptyIs
    <2> QED
      BY <1>1, <2>2
  <1> HIDE DEF n
  <1> DEFINE Same == {k \in Nat : k <= n => g[k] = f[k]}
  <1>4. 0 \in Same
    BY <1>2, <1>3
  <1>5. ASSUME NEW k \in Nat, k \in Same PROVE k + 1 \in Same
    <2> SUFFICES ASSUME k + 1 <= n PROVE g[k + 1] = f[k + 1]
      OBVIOUS
    <2>1. k <= n /\ k + 1 \in 1 .. n /\ k + 1 \in 1 .. n + 1 /\ (k + 1) - 1 = k
      BY <1>1
    <2>2. g[k] = f[k] /\ y[k + 1] = x[k + 1]
      BY <1>1, <1>5, <2>1
    <2>3. g[k + 1] = Keep(g[k], y[k + 1]) /\ f[k + 1] = Keep(f[k], x[k + 1])
      BY <1>2, <1>3, <2>1
    <2> QED
      BY <2>2, <2>3
  <1>6. g[n] = f[n]
    <2> HIDE DEF Same
    <2>1. n \in Same
      BY <1>1, <1>4, <1>5, InductionOnSets
    <2> QED
      BY <1>1, <2>1 DEF Same
  <1>7. g[n + 1] = Keep(g[n], e)
    <2>1. n + 1 \in 1 .. n + 1 /\ (n + 1) - 1 = n
      BY <1>1
    <2>2. g[n + 1] = Keep(g[(n + 1) - 1], y[n + 1])
      BY <1>3, <2>1
    <2> QED
      BY <1>1, <2>1, <2>2
  <1> QED
    BY <1>2, <1>3, <1>6, <1>7 DEF y

LEMMA PieceOfLast ==
  ASSUME NEW q \in Seq(Plain), NEW u \in Plain, NEW ch \in Chars, ch # Delimiter
  PROVE  Piece(Append(q, u), ch) = Append(q, Append(u, ch))
  <1> DEFINE ps == Append(q, u)
             n == Len(q)
             v == Append(u, ch)
             t == Append(q, v)
  <1>1. n \in Nat /\ v \in Plain
    BY LenProperties, PlainGrows
  <1>2. ps \in Seq(Plain) /\ Len(ps) = n + 1 /\ (\A i \in 1 .. n : ps[i] = q[i]) /\ ps[n + 1] = u
    BY AppendProperties
  <1> HIDE DEF v
  <1>3. t \in Seq(Plain) /\ Len(t) = n + 1 /\ (\A i \in 1 .. n : t[i] = q[i]) /\ t[n + 1] = v
    BY <1>1, AppendProperties
  <1> HIDE DEF ps, t, n
  <1> DEFINE e == [ps EXCEPT ![n + 1] = v]
  <1>4. /\ e \in Seq(Plain) /\ Len(e) = n + 1
        /\ \A i \in 1 .. n + 1 : e[i] = IF i = n + 1 THEN v ELSE ps[i]
    <2>1. n + 1 \in 1 .. Len(ps)
      BY <1>1, <1>2
    <2> DEFINE k == n + 1
    <2> HIDE DEF k
    <2>2. k \in 1 .. Len(ps) /\ v \in Plain
      BY <1>1, <2>1 DEF k
    <2>3. /\ [ps EXCEPT ![k] = v] \in Seq(Plain) /\ Len([ps EXCEPT ![k] = v]) = Len(ps)
          /\ \A j \in 1 .. Len(ps) : [ps EXCEPT ![k] = v][j] = IF j = k THEN v ELSE ps[j]
      BY <1>2, <2>2, ExceptSeq
    <2> QED
      BY <1>2, <2>3 DEF k
  <1>5. Piece(ps, ch) = e
    BY <1>2 DEF Piece, v
  <1> HIDE DEF e
  <1>6. ASSUME NEW i \in 1 .. n + 1 PROVE e[i] = t[i]
    BY <1>1, <1>2, <1>3, <1>4
  <1>7. e = t
    BY <1>3, <1>4, <1>6, SeqEqual
  <1> QED
    BY <1>5, <1>7 DEF ps, t, v

LEMMA PiecesOfPlain ==
  ASSUME NEW x \in Seq(Chars), NEW q \in Seq(Plain), Pieces(x) = Append(q, <<>>), NEW w \in Plain
  PROVE  x \o w \in Seq(Chars) /\ Pieces(x \o w) = Append(q, w)
  <1> DEFINE n == Len(w)
             upto(k) == SubSeq(w, 1, k)
  <1>1. n \in Nat /\ w \in Seq(Chars) /\ w \in Seq(Alphabet)
    BY PlainWords, LenProperties DEF Plain, Word
  <1>2. \A i \in 1 .. n : w[i] \in Chars /\ w[i] # Delimiter
    <2>1. DOMAIN w = 1 .. n
      BY <1>1, LenProperties
    <2> QED
      BY <1>1, <2>1, ElementOfSeq DEF Plain
  <1> DEFINE Done == {k \in Nat : k <= n => /\ upto(k) \in Plain /\ upto(k) \in Seq(Chars) /\ x \o upto(k) \in Seq(Chars)
                                            /\ Pieces(x \o upto(k)) = Append(q, upto(k))}
  <1>3. 0 \in Done
    <2>1. upto(0) = <<>> /\ <<>> \in Plain /\ <<>> \in Seq(Chars)
      BY SubSeqEmpty, PlainWords
    <2>2. x \o <<>> = x
      BY ConcatEmptySeq
    <2> QED
      BY <2>1, <2>2
  <1>4. ASSUME NEW k \in Nat, k \in Done PROVE k + 1 \in Done
    <2> DEFINE u == upto(k)
               v == upto(k + 1)
               ch == w[k + 1]
    <2> SUFFICES ASSUME k + 1 <= n
                 PROVE  v \in Plain /\ v \in Seq(Chars) /\ x \o v \in Seq(Chars) /\ Pieces(x \o v) = Append(q, v)
      OBVIOUS
    <2>1. k <= n /\ k + 1 \in 1 .. n /\ (k + 1) - 1 = k /\ 1 \in 1 .. n
      BY <1>1
    <2>2. u \in Plain /\ u \in Seq(Chars) /\ x \o u \in Seq(Chars) /\ Pieces(x \o u) = Append(q, u)
      BY <1>4, <2>1
    <2>3. ch \in Chars /\ ch # Delimiter
      BY <1>2, <2>1
    <2>4. v = u \o <<ch>>
      BY <1>1, <2>1, SubSeqRecursiveSecond
    <2> HIDE DEF u, v, ch
    <2>5. v = Append(u, ch)
      BY <2>2, <2>3, <2>4, AppendIsConcat
    <2>6. x \o v = Append(x \o u, ch)
      BY <2>2, <2>3, <2>4, ConcatAppend
    <2>7. v \in Plain /\ v \in Seq(Chars)
      BY <2>2, <2>3, <2>5, PlainGrows, PlainWords
    <2>8. x \o v \in Seq(Chars)
      BY <2>7, ConcatProperties
    <2>9. Pieces(Append(x \o u, ch)) = Piece(Pieces(x \o u), ch)
      BY <2>2, <2>3, PiecesAppend
    <2>10. Piece(Append(q, u), ch) = Append(q, Append(u, ch))
      BY <2>2, <2>3, PieceOfLast
    <2>11. Pieces(x \o v) = Append(q, v)
      BY <2>2, <2>5, <2>6, <2>9, <2>10
    <2> QED
      BY <2>7, <2>8, <2>11
  <1>5. x \o upto(n) \in Seq(Chars) /\ Pieces(x \o upto(n)) = Append(q, upto(n))
    <2> HIDE DEF Done
    <2>1. n \in Done
      BY <1>1, <1>3, <1>4, InductionOnSets
    <2> QED
      BY <1>1, <2>1 DEF Done
  <1>6. upto(n) = w
    BY <1>1, SubSeqFull
  <1> QED
    BY <1>5, <1>6

(* A delimiter ends a piece.                                               *)
LEMMA PiecesOfElement ==
  ASSUME NEW x \in Seq(Chars), NEW q \in Seq(Plain), Pieces(x) = Append(q, <<>>), NEW w \in Plain
  PROVE  LET y == x \o Append(w, Delimiter)
         IN  /\ y = Append(x \o w, Delimiter) /\ y \in Seq(Chars)
             /\ Pieces(y) = Append(Append(q, w), <<>>)
  <1> DEFINE y == x \o Append(w, Delimiter)
  <1>1. x \o w \in Seq(Chars) /\ Pieces(x \o w) = Append(q, w) /\ w \in Seq(Chars) /\ Delimiter \in Chars
    BY PiecesOfPlain, PlainWords DEF Chars
  <1>2. y = Append(x \o w, Delimiter)
    <2>1. Append(w, Delimiter) = w \o <<Delimiter>>
      BY <1>1, AppendIsConcat
    <2>2. x \o (w \o <<Delimiter>>) = Append(x \o w, Delimiter)
      BY <1>1, ConcatAppend
    <2> QED
      BY <2>1, <2>2
  <1>3. Append(x \o w, Delimiter) \in Seq(Chars)
    BY <1>1, AppendProperties
  <1>4. Pieces(Append(x \o w, Delimiter)) = Piece(Append(q, w), Delimiter)
    BY <1>1, PiecesAppend
  <1>5. Piece(Append(q, w), Delimiter) = Append(Append(q, w), <<>>)
    BY DEF Piece
  <1> QED
    BY <1>2, <1>3, <1>4, <1>5

LEMMA PiecesOfJoin ==
  ASSUME NEW s \in Seq(Plain), s # <<>>
  PROVE  Join(s) \in Seq(Chars) /\ Pieces(Join(s)) = s
  <1> DEFINE n == Len(s)
             D == [k \in DOMAIN s |-> Append(s[k], Delimiter)]
             all == FlattenSeq(D)
             upto(k) == SubSeq(s, 1, k)
             Good(x, k) == x \in Seq(Chars) /\ Pieces(x) = Append(upto(k), <<>>)
  <1>1. n \in Nat \ {0} /\ DOMAIN s = 1 .. n /\ \A k \in 1 .. n : s[k] \in Plain
    BY LenProperties, EmptySeq, ElementOfSeq
  <1>2. Len(D) = n /\ \A k \in 1 .. n : D[k] = Append(s[k], Delimiter)
    <2>1. D = [k \in 1 .. n |-> Append(s[k], Delimiter)] /\ n \in Nat
      BY <1>1
    <2> HIDE DEF D, n
    <2> QED
      BY <2>1
  <1>3. Join(s) = SubSeq(all, 1, Len(all) - 1)
    BY DEF Join, Filled
  <1> HIDE DEF D
  <1>4. PICK g : all = g[n] /\ g[1] = D[1] /\ \A k \in 2 .. n : g[k] = g[k - 1] \o D[k]
    <2>1. Len(D) \in Nat \ {0}
      BY <1>1, <1>2
    <2>2. \E g : /\ FlattenSeq(D) = g[Len(D)] /\ g[1] = D[1]
                 /\ \A k \in 2 .. Len(D) : g[k] = g[k - 1] \o D[k]
      BY <2>1, FlattenIs
    <2> QED
      BY <1>2, <2>2
  <1>5. \A k \in 1 .. n : upto(k - 1) \in Seq(Plain) /\ upto(k) = Append(upto(k - 1), s[k])
    <2> SUFFICES ASSUME NEW k \in 1 .. n PROVE upto(k - 1) \in Seq(Plain) /\ upto(k) = Append(upto(k - 1), s[k])
      OBVIOUS
    <2>1. upto(k - 1) \in Seq(Plain)
      <3>1. k - 1 \in Int /\ \A i \in 1 .. k - 1 : s[i] \in Plain
        BY <1>1
      <3> QED
        BY <3>1, SubSeqProperties
    <2>2. upto(k) = upto(k - 1) \o <<s[k]>>
      <3>1. 1 \in 1 .. Len(s) /\ k \in 1 .. Len(s)
        BY <1>1
      <3> QED
        BY <3>1, SubSeqRecursiveSecond
    <2>3. s[k] \in Plain
      BY <1>1
    <2> HIDE DEF upto
    <2> QED
      BY <2>1, <2>2, <2>3, AppendIsConcat
  <1> DEFINE before(k) == IF k = 1 THEN <<>> ELSE g[k - 1]
  <1>6. \A k \in 1 .. n : g[k] = before(k) \o Append(s[k], Delimiter)
    <2> SUFFICES ASSUME NEW k \in 1 .. n PROVE g[k] = before(k) \o Append(s[k], Delimiter)
      OBVIOUS
    <2>1. CASE k = 1
      <3>1. s[k] \in Seq(Chars) /\ Delimiter \in Chars
        BY <1>1, PlainWords DEF Chars
      <3>2. Append(s[k], Delimiter) \in Seq(Chars)
        BY <3>1, AppendProperties
      <3>3. <<>> \o Append(s[k], Delimiter) = Append(s[k], Delimiter)
        BY <3>2, ConcatEmptySeq
      <3> QED
        BY <1>2, <1>4, <2>1, <3>3
    <2>2. CASE k # 1
      <3>1. k \in 2 .. n
        BY <1>1, <2>2
      <3> QED
        BY <1>2, <1>4, <2>2, <3>1
    <2> QED
      BY <2>1, <2>2
  <1>7. Good(before(1), 0)
    <2> DEFINE e == <<>>
    <2>1. Len(e) = 0 /\ e \in Seq(Chars)
      OBVIOUS
    <2>2. Pieces(e) = <<<<>>>>
      <3>1. Len(e) \in Nat
        BY <2>1
      <3> HIDE DEF e
      <3> QED
        BY <2>1, <3>1, PiecesIs
    <2>3. upto(0) = <<>> /\ Append(<<>>, <<>>) = <<<<>>>>
      BY SubSeqEmpty
    <2> QED
      BY <2>1, <2>2, <2>3
  <1>8. ASSUME NEW k \in 1 .. n, Good(before(k), k - 1)
        PROVE  /\ g[k] = Append(before(k) \o s[k], Delimiter) /\ before(k) \o s[k] \in Seq(Chars)
               /\ Pieces(before(k) \o s[k]) = upto(k) /\ Good(g[k], k)
    <2> DEFINE x == before(k)
               q == upto(k - 1)
               w == s[k]
               y == x \o Append(w, Delimiter)
    <2>1. x \in Seq(Chars) /\ q \in Seq(Plain) /\ Pieces(x) = Append(q, <<>>) /\ w \in Plain
      BY <1>1, <1>5, <1>8
    <2>2. g[k] = y /\ upto(k) = Append(q, w)
      BY <1>5, <1>6
    <2> HIDE DEF x, q, w, upto
    <2>3. y = Append(x \o w, Delimiter) /\ y \in Seq(Chars) /\ Pieces(y) = Append(Append(q, w), <<>>)
      BY <2>1, PiecesOfElement
    <2>4. x \o w \in Seq(Chars) /\ Pieces(x \o w) = Append(q, w)
      BY <2>1, PiecesOfPlain
    <2> QED
      BY <2>2, <2>3, <2>4 DEF x, w
  <1> HIDE DEF Good
  <1> DEFINE Done == {k \in Nat : k + 1 <= n => Good(before(k + 1), k)}
  <1>9. 0 \in Done
    BY <1>7
  <1>10. ASSUME NEW k \in Nat, k \in Done PROVE k + 1 \in Done
    <2> SUFFICES ASSUME (k + 1) + 1 <= n PROVE Good(before((k + 1) + 1), k + 1)
      OBVIOUS
    <2>1. k + 1 \in 1 .. n /\ (k + 1) - 1 = k /\ ((k + 1) + 1) - 1 = k + 1 /\ (k + 1) + 1 # 1 /\ k + 1 <= n
      BY <1>1
    <2>2. Good(before(k + 1), (k + 1) - 1)
      BY <1>10, <2>1
    <2>3. Good(g[k + 1], k + 1)
      BY <1>8, <2>1, <2>2
    <2> QED
      BY <2>1, <2>3
  <1>11. Good(before(n), n - 1)
    <2> HIDE DEF Done
    <2>1. n - 1 \in Nat /\ (n - 1) + 1 = n
      BY <1>1
    <2>2. n - 1 \in Done
      BY <1>9, <1>10, <2>1, InductionOnSets
    <2> QED
      BY <2>1, <2>2 DEF Done
  <1>12. n \in 1 .. n
    BY <1>1
  <1>13. /\ all = Append(before(n) \o s[n], Delimiter) /\ before(n) \o s[n] \in Seq(Chars)
         /\ Pieces(before(n) \o s[n]) = upto(n)
    BY <1>4, <1>8, <1>11, <1>12
  <1> DEFINE y == before(n) \o s[n]
  <1> HIDE DEF all, before
  <1>14. SubSeq(all, 1, Len(all) - 1) = y
    <2>1. y \in Seq(Chars) /\ all = Append(y, Delimiter) /\ Delimiter \in Chars
      BY <1>13 DEF Chars
    <2> HIDE DEF y
    <2> DEFINE f == SubSeq(all, 1, Len(all) - 1)
    <2>2. /\ all \in Seq(Chars) /\ all # <<>> /\ Len(all) = Len(y) + 1 /\ Len(y) \in Nat
          /\ \A i \in 1 .. Len(y) : all[i] = y[i]
      BY <2>1, AppendProperties, LenProperties
    <2>3. f \in Seq(Chars) /\ Len(f) = Len(all) - 1 /\ \A i \in 1 .. Len(all) - 1 : f[i] = all[i]
      BY <2>2, FrontIs DEF Front
    <2> HIDE DEF f
    <2>4. Len(f) = Len(y) /\ \A i \in 1 .. Len(y) : f[i] = y[i]
      BY <2>2, <2>3
    <2>5. f = y
      BY <2>1, <2>3, <2>4, SeqEqual
    <2> QED
      BY <2>5 DEF f
  <1>15. upto(n) = s
    BY SubSeqFull
  <1> QED
    BY <1>3, <1>13, <1>14, <1>15

LEMMA SplitOfJoin ==
  ASSUME NEW s \in Seq(Plain), NEW include_empty \in BOOLEAN
  PROVE  LET b == [argv |-> NoArray, heap |-> <<>>]
             kept == IF s # <<>> /\ Last(s) = <<>> THEN Front(s) ELSE s
         IN  Elements(SplitInter(b, Join(s), include_empty)) = IF include_empty THEN kept ELSE NonEmpty(kept)
  <1> DEFINE b == [argv |-> NoArray, heap |-> <<>>]
             kept == IF s # <<>> /\ Last(s) = <<>> THEN Front(s) ELSE s
             j == Join(s)
  <1>1. Stands(b, <<>>, <<>>)
    <2> DEFINE e == <<>>
    <2>1. b = [argv |-> b.argv, heap |-> b.heap] /\ b.argv = NoArray /\ b.heap = e
      OBVIOUS
    <2>2. DOMAIN e = {} /\ e = [p \in DOMAIN e |-> e[p]]
      OBVIOUS
    <2> HIDE DEF e, b
    <2>3. HeapOK(e, e)
      BY <2>2, FS_EmptySet DEF HeapOK
    <2>4. Empty(b, e)
      BY <2>1, <2>3 DEF Empty
    <2> QED
      BY <2>4 DEF Stands, e
  <1>2. j \in Seq(Chars) /\ Seen(j) = kept
    <2>1. CASE s = <<>>
      <3>1. j = <<>>
        <4> DEFINE D == [k \in DOMAIN s |-> Append(s[k], Delimiter)]
        <4>1. D = <<>> /\ Len(D) = 0
          BY <2>1
        <4> HIDE DEF D
        <4>2. FlattenSeq(D) = <<>>
          BY <4>1 DEF FlattenSeq
        <4>3. j = SubSeq(<<>>, 1, 0 - 1)
          BY <4>2 DEF Join, Filled, D
        <4> QED
          BY <4>3, SubSeqEmpty
      <3>2. Pieces(j) = <<<<>>>>
        <4> HIDE DEF j
        <4>1. Len(j) = 0
          BY <3>1
        <4>2. Len(j) \in Nat
          BY <4>1
        <4> QED
          BY <4>1, <4>2, PiecesIs
      <3>3. Last(Pieces(j)) = <<>> /\ Front(Pieces(j)) = <<>>
        <4> DEFINE ps == <<<<>>>>
        <4>1. Len(ps) = 1 /\ ps[1] = <<>>
          OBVIOUS
        <4>2. SubSeq(ps, 1, 1 - 1) = <<>>
          BY SubSeqEmpty
        <4> HIDE DEF ps
        <4>3. Last(ps) = <<>> /\ Front(ps) = <<>>
          BY <4>1, <4>2 DEF Last, Front
        <4> QED
          BY <3>2, <4>3 DEF ps
      <3>4. <<>> \in Seq(Chars)
        OBVIOUS
      <3> QED
        BY <2>1, <3>1, <3>3, <3>4 DEF Seen
    <2>2. CASE s # <<>>
      <3>1. j \in Seq(Chars) /\ Pieces(j) = s
        BY <2>2, PiecesOfJoin
      <3> HIDE DEF j
      <3> QED
        BY <2>2, <3>1 DEF Seen
    <2> QED
      BY <2>1, <2>2
  <1> HIDE DEF b, kept, j
  <1>3. Stands(SplitInter(b, j, include_empty), Chosen(j, include_empty), <<>>)
    BY <1>1, <1>2, SplitStands
  <1>4. Elements(SplitInter(b, j, include_empty)) = Chosen(j, include_empty)
    BY <1>3, StandsFor
  <1>5. Elements(SplitInter(b, j, include_empty)) = IF include_empty THEN kept ELSE NonEmpty(kept)
    BY <1>2, <1>4 DEF Chosen
  <1> QED
    BY <1>5 DEF b, kept, j

(* Without the empty pieces the last one, when it is empty, does not count. *)
LEMMA NonEmptyKept ==
  ASSUME NEW s \in Seq(Plain)
  PROVE  NonEmpty(IF s # <<>> /\ Last(s) = <<>> THEN Front(s) ELSE s) = NonEmpty(s)
  <1>1. CASE s # <<>> /\ Last(s) = <<>>
    <2> DEFINE f == Front(s)
               e == Last(s)
    <2>1. f \in Seq(Plain) /\ Len(f) = Len(s) - 1 /\ Len(s) \in Nat \ {0} /\ \A i \in 1 .. Len(s) - 1 : f[i] = s[i]
      BY <1>1, FrontIs
    <2>2. e \in Plain /\ e = s[Len(s)]
      <3>1. Len(s) \in 1 .. Len(s)
        BY <2>1
      <3> QED
        BY <3>1, ElementOfSeq DEF Last
    <2> HIDE DEF f, e
    <2> DEFINE t == Append(f, e)
    <2>3. /\ t \in Seq(Plain) /\ Len(t) = Len(f) + 1 /\ t[Len(f) + 1] = e
          /\ \A i \in 1 .. Len(f) : t[i] = f[i]
      BY <2>1, <2>2, AppendProperties
    <2> HIDE DEF t
    <2>4. Len(t) = Len(s)
      BY <2>1, <2>3
    <2>5. ASSUME NEW i \in 1 .. Len(s) PROVE t[i] = s[i]
      <3>1. CASE i = Len(s)
        BY <2>1, <2>2, <2>3, <3>1
      <3>2. CASE i # Len(s)
        <4>1. i \in 1 .. Len(s) - 1 /\ i \in 1 .. Len(f)
          BY <2>1, <3>2
        <4> QED
          BY <2>1, <2>3, <4>1
      <3> QED
        BY <3>1, <3>2
    <2>6. t = s
      BY <2>3, <2>4, <2>5, SeqEqual
    <2>7. NonEmpty(t) = Keep(NonEmpty(f), e)
      BY <2>1, <2>2, NonEmptyAppend DEF t
    <2>8. e = <<>>
      BY <1>1 DEF e
    <2>9. NonEmpty(f) = NonEmpty(s)
      BY <2>6, <2>7, <2>8 DEF Keep
    <2> QED
      BY <1>1, <2>9 DEF f
  <1>2. CASE ~(s # <<>> /\ Last(s) = <<>>)
    BY <1>2
  <1> QED
    BY <1>1, <1>2

LEMMA SplitIsRight == ArgvInv => SplitUndoesJoin
  <1> SUFFICES ASSUME ArgvInv PROVE SplitUndoesJoin
    OBVIOUS
  <1>1. PICK s \in Seq(Plain) : Holds(s)
    BY DEF ArgvInv
  <1>2. Elements(Vector) = s
    BY <1>1, HoldsElements
  <1> DEFINE split(include_empty) == Elements(SplitInter([argv |-> NoArray, heap |-> <<>>], Join(s), include_empty))
             kept == IF s # <<>> /\ Last(s) = <<>> THEN Front(s) ELSE s
  <1>3. split(TRUE) = kept
    BY SplitOfJoin
  <1>4. split(FALSE) = NonEmpty(s)
    <2>1. split(FALSE) = NonEmpty(kept)
      BY SplitOfJoin
    <2> QED
      BY <2>1, NonEmptyKept
  <1>5. ASSUME NEW start \in 0 .. Len(s), NEW end \in 0 .. Len(s), start < end
        PROVE  JoinRange(s, start, end) = Join(SubSeq(s, start + 1, end))
    <2>1. Len(s) \in Nat
      BY LenProperties
    <2>2. s # <<>>
      <3>1. Len(s) # 0 /\ Len(<<>>) = 0
        BY <1>5, <2>1
      <3> QED
        BY <3>1
    <2>3. ~(start > Len(s)) /\ (IF end < Len(s) THEN end ELSE Len(s)) = end
      BY <2>1
    <2> QED
      BY <2>2, <2>3 DEF JoinRange, Join
  <1> HIDE DEF split
  <1>6. /\ split(FALSE) = NonEmpty(s)
        /\ split(TRUE) = IF s # <<>> /\ Last(s) = <<>> THEN Front(s) ELSE s
        /\ \A start, end \in 0 .. Len(s) :
             start < end => JoinRange(s, start, end) = Join(SubSeq(s, start + 1, end))
    BY <1>3, <1>4, <1>5
  <1> QED
    BY <1>2, <1>6 DEF SplitUndoesJoin, split

(* A vector that is joined and split again has the same elements, but for  *)
(* the empty ones, or for an empty one at the end.                         *)
THEOREM SplitInvertsJoin == Spec => []SplitUndoesJoin
  BY Inductive, SplitIsRight, PTL
=============================================================================
