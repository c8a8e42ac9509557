-------------------------- MODULE ClientRunsProofs --------------------------
(***************************************************************************)
(* FailureReported for every number of ranks and of rounds: in unit/ no    *)
(* rank exits with 0 after it has seen a failure that counts.              *)
(*                                                                         *)
(* The first part is about the programs as they are written: a unit test   *)
(* is one block in which everything that matters ends the process, and a   *)
(* PMI client a sequence of items whose failures are counted.  The second  *)
(* part follows a failure from where it is seen to the exit status.        *)
(***************************************************************************)
EXTENDS ClientRuns, SequenceTheorems, WellFoundedInduction, TLAPS

-----------------------------------------------------------------------------
(* Induction over the natural numbers, with a set in the place of the      *)
(* predicate, and over the sequences that FlattenSeq concatenates.         *)

LEMMA Smallest ==
  ASSUME NEW S, S \subseteq Nat, S # {}
  PROVE  \E n \in S : \A m \in S : n <= m
  <1> DEFINE R == {p \in Nat \X Nat : p[1] < p[2]}
  <1>1. IsWellFoundedOn(R, Nat)
    BY NatLessThanWellFounded DEF OpToRel
  <1>2. PICK n \in S : \A m \in S : <<m, n>> \notin R
    BY <1>1, WFMin
  <1>3. \A m \in S : m < n => <<m, n>> \in R
    OBVIOUS
  <1> HIDE DEF R
  <1>4. \A m \in S : m \in Nat /\ n \in Nat /\ ~(m < n)
    BY <1>2, <1>3
  <1>5. \A m \in S : n <= m
    BY <1>4
  <1> QED
    BY <1>5

LEMMA InductionOnSets ==
  ASSUME NEW S, 0 \in S, \A n \in Nat : n \in S => n + 1 \in S
  PROVE  Nat \subseteq S
  <1> SUFFICES ASSUME Nat \ S # {} PROVE FALSE
    OBVIOUS
  <1>1. PICK n \in Nat \ S : \A m \in Nat \ S : n <= m
    BY Smallest
  <1>2. n # 0 /\ n - 1 \in Nat /\ n - 1 \notin Nat \ S
    BY <1>1
  <1> QED
    BY <1>1, <1>2

LEMMA FlattenSeqClosed ==
  ASSUME NEW G, \A a, b \in G : a \o b \in G, NEW ss \in Seq(G)
  PROVE  IF ss = <<>> THEN FlattenSeq(ss) = <<>> ELSE FlattenSeq(ss) \in G
  <1> DEFINE Def(g, i) == IF i = 1 THEN ss[i] ELSE g[i - 1] \o ss[i]
             Upto(g, n) == g = [i \in 1 .. n |-> Def(g, i)]
             Defined == {n \in Nat : \E g : Upto(g, n)}
             flatten[i \in 1 .. Len(ss)] == Def(flatten, i)
  <1> HIDE DEF Def
  <1>1. 0 \in Defined
    <2>1. Upto([i \in 1 .. 0 |-> Def(ss, i)], 0)
      OBVIOUS
    <2> QED
      BY <2>1
  <1>2. ASSUME NEW n \in Nat, n \in Defined PROVE n + 1 \in Defined
    <2>1. PICK g : Upto(g, n)
      BY <1>2
    <2>2. \A i \in 1 .. n : g[i] = Def(g, i)
      BY <2>1
    <2> DEFINE h == [i \in 1 .. n + 1 |-> IF i = n + 1 THEN Def(g, n + 1) ELSE g[i]]
    <2>3. \A i \in 1 .. n : h[i] = g[i]
      OBVIOUS
    <2>4. h[n + 1] = Def(g, n + 1)
      OBVIOUS
    <2> HIDE DEF h
    <2>5. \A i \in 1 .. n + 1 : Def(h, i) = Def(g, i)
      BY <2>3 DEF Def
    <2>6. \A i \in 1 .. n + 1 : h[i] = Def(h, i)
      BY <2>2, <2>3, <2>4, <2>5
    <2>7. Upto(h, n + 1)
      BY <2>6 DEF h
    <2> QED
      BY <2>7
  <1>3. Len(ss) \in Defined
    <2> HIDE DEF Defined
    <2>1. Nat \subseteq Defined
      BY <1>1, <1>2, InductionOnSets
    <2> QED
      BY <2>1, LenProperties
  <1>4. Upto(flatten, Len(ss))
    <2>1. PICK g : Upto(g, Len(ss))
      BY <1>3
    <2> QED
      BY <2>1
  <1> DEFINE Closed == {n \in Nat : n + 1 \in 1 .. Len(ss) => flatten[n + 1] \in G}
  <1> HIDE DEF flatten
  <1>5. /\ \A i \in 1 .. Len(ss) : ss[i] \in G /\ flatten[i] = Def(flatten, i)
        /\ 1 \in 1 .. Len(ss) => flatten[1] = ss[1]
        /\ \A i \in 1 .. Len(ss) : i # 1 => flatten[i] = flatten[i - 1] \o ss[i]
    <2>1. \A i \in 1 .. Len(ss) : ss[i] \in G /\ flatten[i] = Def(flatten, i)
      BY <1>4, LenProperties
    <2> QED
      BY <2>1 DEF Def
  <1>6. 0 \in Closed
    BY <1>5
  <1>7. ASSUME NEW n \in Nat, n \in Closed PROVE n + 1 \in Closed
    <2> SUFFICES ASSUME n + 2 \in 1 .. Len(ss) PROVE flatten[n + 2] \in G
      OBVIOUS
    <2>1. n + 1 \in 1 .. Len(ss) /\ flatten[n + 1] \in G
      BY <1>7, LenProperties
    <2>2. flatten[n + 2] = flatten[n + 1] \o ss[n + 2]
      <3>1. n + 2 # 1 /\ (n + 2) - 1 = n + 1
        OBVIOUS
      <3> QED
        BY <1>5, <3>1
    <2> QED
      BY <1>5, <2>1, <2>2
  <1>8. Nat \subseteq Closed
    <2> HIDE DEF Closed
    <2> QED
      BY <1>6, <1>7, InductionOnSets
  <1>9. CASE Len(ss) = 0
    <2>1. ss = <<>>
      BY <1>9, EmptySeq
    <2> QED
      BY <1>9, <2>1 DEF FlattenSeq
  <1>10. CASE Len(ss) # 0
    <2>1. Len(ss) - 1 \in Nat /\ Len(ss) - 1 + 1 = Len(ss) /\ Len(ss) \in 1 .. Len(ss)
      BY <1>10, LenProperties
    <2>2. flatten[Len(ss)] \in G
      BY <1>8, <2>1
    <2>3. FlattenSeq(ss) = flatten[Len(ss)]
      BY <1>10 DEF FlattenSeq, flatten, Def
    <2>4. ss # <<>>
      BY <1>10
    <2> QED
      BY <2>2, <2>3, <2>4
  <1> QED
    BY <1>9, <1>10

-----------------------------------------------------------------------------
(* What the programs of unit/ are made of.  A "pmix" test is one block; a  *)
(* "pmi" client has a block for each item.                                 *)

Kind == {"pmix", "pmi"}

Resolving(is, i) == is[i].op = "call" /\ is[i].fail = "skip"
Allowed(kind, op, fail) ==
  /\ op # "finalize"
  /\ op = "passed" => fail = "exit"
  /\ fail = "skip" => op \in {"fence", "await", "call", "check", "note"}
  /\ kind = "pmix" => op \notin {"check", "note"} /\ fail \in {"exit", "skip", "none"}
  /\ kind = "pmi" => fail \in {"exit", "next", "skip", "none"} /\ ~(op = "call" /\ fail = "skip")

Part(kind, is) == \E S : is \in Seq(S) /\ \A x \in S : Allowed(kind, x.op, x.fail)
Resolved(is) ==
  \A i \in DOMAIN is : Resolving(is, i) => \E j \in DOMAIN is : i < j /\ is[j].op = "passed"
Body(kind, is) == Part(kind, is) /\ Resolved(is)

LEMMA OnePart ==
  ASSUME NEW kind, NEW op, NEW fail, NEW arg, Allowed(kind, op, fail)
  PROVE  Part(kind, One(op, fail, arg)) /\ One(op, fail, arg) # <<>>
  <1> DEFINE x == Instruction(op, fail, arg)
  <1>1. x.op = op /\ x.fail = fail
    BY DEF Instruction
  <1>2. One(op, fail, arg) = <<x>>
    BY DEF One
  <1> HIDE DEF x
  <1> DEFINE X == {x}
             xs == <<x>>
  <1>3. xs \in Seq(X) /\ \A y \in X : Allowed(kind, y.op, y.fail)
    BY <1>1
  <1>4. Part(kind, <<x>>)
    <2> HIDE DEF X, xs
    <2>1. Part(kind, xs)
      BY <1>3 DEF Part
    <2> QED
      BY <2>1 DEF xs
  <1>5. <<x>> # <<>>
    OBVIOUS
  <1> QED
    BY <1>2, <1>4, <1>5

LEMMA ConcatPart ==
  ASSUME NEW kind, NEW s, NEW t, Part(kind, s), Part(kind, t)
  PROVE  /\ Part(kind, s \o t)
         /\ Len(s) \in Nat /\ Len(t) \in Nat /\ DOMAIN s = 1 .. Len(s) /\ DOMAIN t = 1 .. Len(t)
         /\ Len(s \o t) = Len(s) + Len(t) /\ DOMAIN (s \o t) = 1 .. Len(s) + Len(t)
         /\ \A i \in 1 .. Len(s) : (s \o t)[i] = s[i]
         /\ \A i \in 1 .. Len(t) : (s \o t)[Len(s) + i] = t[i]
  <1>1. PICK S : s \in Seq(S) /\ \A x \in S : Allowed(kind, x.op, x.fail)
    BY DEF Part
  <1>2. PICK T : t \in Seq(T) /\ \A x \in T : Allowed(kind, x.op, x.fail)
    BY DEF Part
  <1> DEFINE U == S \cup T
  <1>3. s \in Seq(U) /\ t \in Seq(U)
    BY <1>1, <1>2, SeqMonotonic
  <1>4. \A x \in U : Allowed(kind, x.op, x.fail)
    BY <1>1, <1>2
  <1> HIDE DEF U
  <1>5. Len(s) \in Nat /\ Len(t) \in Nat /\ DOMAIN s = 1 .. Len(s) /\ DOMAIN t = 1 .. Len(t)
    BY <1>3, LenProperties
  <1>6. /\ s \o t \in Seq(U) /\ Len(s \o t) = Len(s) + Len(t)
        /\ \A i \in 1 .. Len(s) + Len(t) : (s \o t)[i] = IF i <= Len(s) THEN s[i] ELSE t[i - Len(s)]
    BY <1>3, ConcatProperties
  <1>7. DOMAIN (s \o t) = 1 .. Len(s) + Len(t)
    BY <1>6, LenProperties
  <1>8. Part(kind, s \o t)
    BY <1>4, <1>6 DEF Part
  <1>9. \A i \in 1 .. Len(s) : (s \o t)[i] = s[i]
    BY <1>5, <1>6
  <1>10. ASSUME NEW i \in 1 .. Len(t) PROVE (s \o t)[Len(s) + i] = t[i]
    <2>1. Len(s) + i \in 1 .. Len(s) + Len(t) /\ ~(Len(s) + i <= Len(s)) /\ (Len(s) + i) - Len(s) = i
      BY <1>5
    <2> QED
      BY <1>6, <2>1
  <1> QED
    BY <1>5, <1>6, <1>7, <1>8, <1>9, <1>10

LEMMA ConcatBody ==
  ASSUME NEW kind, NEW s, NEW t, Body(kind, s), Body(kind, t)
  PROVE  Body(kind, s \o t)
  <1>1. Part(kind, s) /\ Part(kind, t) /\ Resolved(s) /\ Resolved(t)
    BY DEF Body
  <1>2. /\ Part(kind, s \o t)
        /\ Len(s) \in Nat /\ Len(t) \in Nat /\ DOMAIN s = 1 .. Len(s) /\ DOMAIN t = 1 .. Len(t)
        /\ DOMAIN (s \o t) = 1 .. Len(s) + Len(t)
        /\ \A i \in 1 .. Len(s) : (s \o t)[i] = s[i]
        /\ \A i \in 1 .. Len(t) : (s \o t)[Len(s) + i] = t[i]
    BY <1>1, ConcatPart
  <1> DEFINE u == s \o t
  <1> HIDE DEF u
  <1>3. ASSUME NEW i \in 1 .. Len(s) + Len(t), Resolving(u, i)
        PROVE  \E j \in 1 .. Len(s) + Len(t) : i < j /\ u[j].op = "passed"
    <2>1. CASE i <= Len(s)
      <3>1. i \in DOMAIN s /\ Resolving(s, i)
        BY <1>2, <1>3, <2>1 DEF Resolving, u
      <3>2. PICK j \in DOMAIN s : i < j /\ s[j].op = "passed"
        BY <1>1, <3>1 DEF Resolved
      <3> QED
        BY <1>2, <3>2 DEF u
    <2>2. CASE ~(i <= Len(s))
      <3> DEFINE k == i - Len(s)
      <3>1. k \in 1 .. Len(t) /\ i = Len(s) + k
        BY <1>2, <2>2
      <3> HIDE DEF k
      <3>2. k \in DOMAIN t /\ Resolving(t, k)
        BY <1>2, <1>3, <3>1 DEF Resolving, u
      <3>3. PICK j \in DOMAIN t : k < j /\ t[j].op = "passed"
        BY <1>1, <3>2 DEF Resolved
      <3>4. Len(s) + j \in 1 .. Len(s) + Len(t) /\ i < Len(s) + j /\ u[Len(s) + j].op = "passed"
        BY <1>2, <3>1, <3>3 DEF u
      <3> QED
        BY <3>4
    <2> QED
      BY <2>1, <2>2
  <1>4. Resolved(u)
    BY <1>2, <1>3 DEF Resolved, u
  <1> QED
    BY <1>2, <1>4 DEF Body, u

LEMMA EmptyBody == \A kind : Body(kind, <<>>)
  <1>1. <<>> \in Seq({}) /\ DOMAIN <<>> = {}
    OBVIOUS
  <1> QED
    BY <1>1 DEF Body, Part, Resolved

LEMMA OneBody ==
  ASSUME NEW kind, NEW op, NEW fail, NEW arg, Allowed(kind, op, fail), ~(op = "call" /\ fail = "skip")
  PROVE  Body(kind, One(op, fail, arg))
  <1>1. Part(kind, One(op, fail, arg))
    BY OnePart
  <1>2. One(op, fail, arg) = <<Instruction(op, fail, arg)>>
    BY DEF One
  <1>3. Instruction(op, fail, arg).op = op /\ Instruction(op, fail, arg).fail = fail
    BY DEF Instruction
  <1>4. DOMAIN One(op, fail, arg) = {1} /\ One(op, fail, arg)[1] = Instruction(op, fail, arg)
    BY <1>2
  <1> QED
    BY <1>1, <1>3, <1>4 DEF Body, Resolved, Resolving

LEMMA FlattenBody ==
  ASSUME NEW kind, NEW n \in Nat, NEW ss, ss = [i \in 1 .. n |-> ss[i]],
         \A i \in 1 .. n : Body(kind, ss[i])
  PROVE  /\ Body(kind, FlattenSeq(ss))
         /\ n # 0 /\ (\A i \in 1 .. n : ss[i] # <<>>) => FlattenSeq(ss) # <<>>
  <1> DEFINE S == UNION {{ss[i][j] : j \in DOMAIN ss[i]} : i \in 1 .. n}
             G == {is \in Seq(S) : Body(kind, is)}
             H == {is \in G : is # <<>>}
  <1>1. ASSUME NEW i \in 1 .. n PROVE ss[i] \in G
    <2>1. PICK T : ss[i] \in Seq(T)
      BY DEF Body, Part
    <2>2. Len(ss[i]) \in Nat /\ DOMAIN ss[i] = 1 .. Len(ss[i]) /\ ss[i] = [j \in 1 .. Len(ss[i]) |-> ss[i][j]]
      BY <2>1, LenProperties
    <2>3. \A j \in DOMAIN ss[i] : ss[i][j] \in S
      OBVIOUS
    <2> HIDE DEF S
    <2>4. ss[i] \in Seq(S)
      BY <2>2, <2>3
    <2> QED
      BY <2>4
  <1> HIDE DEF S
  <1>2. ASSUME NEW a \in G, NEW b \in G
        PROVE  a \o b \in G /\ (a # <<>> => a \o b # <<>>)
    <2>1. a \in Seq(S) /\ b \in Seq(S) /\ Body(kind, a) /\ Body(kind, b)
      OBVIOUS
    <2>2. a \o b \in Seq(S) /\ (a # <<>> => a \o b # <<>>)
      BY <2>1, ConcatProperties, ConcatEqualIffEmpty
    <2> QED
      BY <2>1, <2>2, ConcatBody
  <1>3. \A is \in G : Body(kind, is)
    OBVIOUS
  <1>4. \A a, b \in H : a \o b \in H
    BY <1>2
  <1> HIDE DEF G
  <1>5. ss \in Seq(G)
    BY <1>1
  <1>6. Body(kind, FlattenSeq(ss))
    <2>1. \A a, b \in G : a \o b \in G
      BY <1>2
    <2>2. IF ss = <<>> THEN FlattenSeq(ss) = <<>> ELSE FlattenSeq(ss) \in G
      BY <1>5, <2>1, FlattenSeqClosed
    <2> QED
      BY <1>3, <2>2, EmptyBody
  <1>7. ASSUME n # 0, \A i \in 1 .. n : ss[i] # <<>> PROVE FlattenSeq(ss) # <<>>
    <2>1. \A i \in 1 .. n : ss[i] \in H
      BY <1>1, <1>7
    <2>2. \A is \in H : is # <<>>
      OBVIOUS
    <2>3. ss # <<>>
      <3>1. DOMAIN ss = 1 .. n /\ 1 \in 1 .. n /\ DOMAIN <<>> = {}
        BY <1>7
      <3> QED
        BY <3>1
    <2> HIDE DEF H
    <2>4. ss \in Seq(H)
      BY <2>1
    <2>5. IF ss = <<>> THEN FlattenSeq(ss) = <<>> ELSE FlattenSeq(ss) \in H
      BY <1>4, <2>4, FlattenSeqClosed
    <2> QED
      BY <2>2, <2>3, <2>5
  <1> QED
    BY <1>6, <1>7

(* The calls that a program makes one after the other.                     *)
LEMMA CallBodies ==
  ASSUME NEW kind, NEW fail, kind \in Kind, fail = "exit" \/ (kind = "pmi" /\ fail = "next")
  PROVE  /\ Body(kind, Call(fail))
         /\ \A key, val : Body(kind, Commit(key, val, fail))
         /\ \A members, name : Body(kind, FenceOf(members, name, fail))
         /\ \A name : Body(kind, Fence(name, fail))
         /\ \A owners, key, val : Body(kind, Get(owners, key, val, fail))
  <1>1. \A op, arg : op \notin {"finalize", "check", "note", "passed"} => Body(kind, One(op, fail, arg))
    BY OneBody DEF Allowed, Kind
  <1>2. \A what : Body(kind, Await(what, fail))
    BY <1>1 DEF Await
  <1>3. \A k, name, members : Body(kind, Collective(k, name, members, fail))
    BY <1>1 DEF Collective
  <1>4. \A members, name : Body(kind, FenceOf(members, name, fail))
    BY <1>2, <1>3, ConcatBody DEF FenceOf
  <1>5. \A owners, key, val : Body(kind, GetNb(owners, key, val, fail))
    BY <1>1 DEF GetNb
  <1>6. \A owners, key, val : Body(kind, Get(owners, key, val, fail))
    BY <1>2, <1>5, ConcatBody DEF Get
  <1>7. Body(kind, Call(fail)) /\ \A key, val : Body(kind, Commit(key, val, fail))
    BY <1>1 DEF Call, Commit
  <1> QED
    BY <1>4, <1>6, <1>7 DEF Fence

LEMMA PmixBodies ==
  /\ \A keys : Body("pmix", Publish(keys, "exit")) /\ Body("pmix", Unpublish(keys, "exit"))
  /\ \A key, owners : Body("pmix", Lookup(key, owners, "exit"))
  /\ \A name, members : Body("pmix", Connect(name, members, "exit"))
  /\ \A members, name : Body("pmix", ConnectTo(members, name, "exit"))
  /\ \A members, name : Body("pmix", FenceOf(members, name, "skip"))
  /\ Body("pmix", Register)
  /\ \A fail \in {"exit", "none"} : Body("pmix", AskAndWait(fail))
  <1>1. \A op, arg : \A fail \in {"exit", "none"} :
          op \notin {"finalize", "check", "note", "passed"} => Body("pmix", One(op, fail, arg))
    BY OneBody DEF Allowed
  <1>2. \A op \in {"fence", "await"} : \A arg : Body("pmix", One(op, "skip", arg))
    <2> SUFFICES ASSUME NEW op \in {"fence", "await"}, NEW arg PROVE Body("pmix", One(op, "skip", arg))
      OBVIOUS
    <2> QED
      BY OneBody DEF Allowed
  <1>3. \A what : Body("pmix", Await(what, "exit")) /\ Body("pmix", Await(what, "none")) /\ Body("pmix", Await(what, "skip"))
    BY <1>1, <1>2 DEF Await
  <1>4. \A k, name, members : Body("pmix", Collective(k, name, members, "exit"))
                              /\ Body("pmix", Collective(k, name, members, "skip"))
    BY <1>1, <1>2 DEF Collective
  <1>5. \A members, name : Body("pmix", FenceOf(members, name, "skip"))
    BY <1>3, <1>4, ConcatBody DEF FenceOf
  <1>6. \A members, name : Body("pmix", ConnectTo(members, name, "exit"))
    BY <1>3, <1>4, ConcatBody DEF ConnectTo
  <1>7. \A name, members : Body("pmix", Connect(name, members, "exit"))
    BY <1>3, <1>4, ConcatBody DEF Connect, ConnectNb
  <1>8. \A fail \in {"exit", "none"} : Body("pmix", AskAndWait(fail))
    BY <1>1, <1>3, ConcatBody DEF AskAndWait, Ask
  <1>9. Body("pmix", Register)
    BY <1>1 DEF Register
  <1>10. /\ \A keys : Body("pmix", Publish(keys, "exit")) /\ Body("pmix", Unpublish(keys, "exit"))
         /\ \A key, owners : Body("pmix", Lookup(key, owners, "exit"))
    BY <1>1 DEF Publish, Unpublish, Lookup
  <1> QED
    BY <1>5, <1>6, <1>7, <1>8, <1>9, <1>10

(* resolve_peers: the call that may fail is looked at when the rank has    *)
(* disconnected.                                                           *)
LEMMA WithNamespaceBody == \A n, r : Body("pmix", WithNamespace(n, r))
  <1> TAKE n, r
  <1> DEFINE c == ConnectTo({n, r}, "connect", "exit")
             d == ConnectTo({n, r}, "disconnect", "exit")
             s == (c \o Call("skip")) \o d
  <1>1. Part("pmix", c) /\ Part("pmix", d)
    BY PmixBodies DEF Body
  <1>2. Part("pmix", Call("skip"))
    BY OnePart DEF Call, Allowed
  <1> HIDE DEF c, d
  <1>3. Part("pmix", s)
    BY <1>1, <1>2, ConcatPart
  <1>4. Part("pmix", Passed) /\ Passed = <<Instruction("passed", "exit", 0)>>
    BY OnePart DEF Passed, Allowed, One
  <1> HIDE DEF s
  <1>5. Len(Passed) = 1 /\ Passed[1].op = "passed"
    BY <1>4 DEF Instruction
  <1>6. /\ Part("pmix", s \o Passed) /\ Len(s) \in Nat /\ DOMAIN (s \o Passed) = 1 .. Len(s) + 1
        /\ (s \o Passed)[Len(s) + 1].op = "passed"
    <2>1. 1 \in 1 .. Len(Passed)
      BY <1>5
    <2> QED
      BY <1>3, <1>4, <1>5, <2>1, ConcatPart
  <1>7. Resolved(s \o Passed)
    <2> SUFFICES ASSUME NEW i \in 1 .. Len(s) + 1, Resolving(s \o Passed, i)
                 PROVE  \E j \in 1 .. Len(s) + 1 : i < j /\ (s \o Passed)[j].op = "passed"
      BY <1>6 DEF Resolved
    <2>1. i # Len(s) + 1
      BY <1>6 DEF Resolving
    <2>2. i < Len(s) + 1 /\ Len(s) + 1 \in 1 .. Len(s) + 1
      BY <1>6, <2>1
    <2> QED
      BY <1>6, <2>2
  <1>8. WithNamespace(n, r) = s \o Passed
    BY DEF WithNamespace, s, c, d
  <1> QED
    BY <1>6, <1>7, <1>8 DEF Body

LEMMA TestBodies ==
  ASSUME NEW r
  PROVE  /\ Body("pmix", TestFence(r)) /\ Body("pmix", TestJobFence)
         /\ Body("pmix", TestPublish(r)) /\ Body("pmix", TestConnect)
         /\ Body("pmix", TestReplace(r)) /\ Body("pmix", TestInternal(r))
         /\ Body("pmix", TestError) /\ Body("pmix", TestSpawn)
  <1>1. /\ Body("pmix", Call("exit"))
        /\ \A key, val : Body("pmix", Commit(key, val, "exit"))
        /\ \A members, name : Body("pmix", FenceOf(members, name, "exit"))
        /\ \A name : Body("pmix", Fence(name, "exit"))
        /\ \A owners, key, val : Body("pmix", Get(owners, key, val, "exit"))
    BY CallBodies DEF Kind
  <1>2. Body("pmix", TestFence(r))
    <2> DEFINE members(n) == Participants(n)
               round(n) ==
                 Only(r, members(n),
                   Commit("same key", n, "exit") \o FenceOf(members(n), <<"data", n>>, "exit")
                     \o Get(members(n), "same key", n, "exit") \o Exchanged(members(n), n))
               ss == [n \in 1 .. Rounds |-> round(n)]
    <2>1. ASSUME NEW n PROVE Body("pmix", round(n))
      <3> HIDE DEF members
      <3> DEFINE a == Commit("same key", n, "exit")
                 b == FenceOf(members(n), <<"data", n>>, "exit")
                 c == Get(members(n), "same key", n, "exit")
                 d == Exchanged(members(n), n)
      <3>1. Body("pmix", a) /\ Body("pmix", b) /\ Body("pmix", c) /\ Body("pmix", d)
        BY <1>1, PmixBodies DEF Exchanged
      <3>2. round(n) = Only(r, members(n), a \o b \o c \o d)
        OBVIOUS
      <3> HIDE DEF a, b, c, d, round
      <3>3. Body("pmix", a \o b \o c \o d)
        BY <3>1, ConcatBody
      <3> QED
        BY <3>2, <3>3, EmptyBody DEF Only
    <2>2. TestFence(r) = FlattenSeq(ss)
      BY DEF TestFence, Repeat
    <2> HIDE DEF round
    <2>3. \A n \in 1 .. Rounds : Body("pmix", ss[n])
      BY <2>1
    <2>4. ss = [n \in 1 .. Rounds |-> ss[n]]
      OBVIOUS
    <2> HIDE DEF ss
    <2> QED
      BY <2>2, <2>3, <2>4, FlattenBody, ClientProgramAssumption
  <1>3. Body("pmix", TestJobFence)
    <2> DEFINE a == Commit("key", 1, "exit")
               b == Fence("job", "exit")
               c == Call("exit")
               d == Get(Rank, "key", 1, "exit")
    <2>1. Body("pmix", a) /\ Body("pmix", b) /\ Body("pmix", c) /\ Body("pmix", d)
      BY <1>1
    <2>2. TestJobFence = a \o b \o c \o d
      BY DEF TestJobFence
    <2> HIDE DEF a, b, c, d
    <2> QED
      BY <2>1, <2>2, ConcatBody
  <1>4. Body("pmix", TestPublish(r))
    <2> DEFINE a == Publish({r}, "exit")
               b == Lookup(r, {r}, "exit")
               c == Unpublish({r}, "exit")
               d == Lookup(r, {}, "exit")
    <2>1. Body("pmix", a) /\ Body("pmix", b) /\ Body("pmix", c) /\ Body("pmix", d)
      BY PmixBodies
    <2>2. PublishLookup(r) = a \o b \o c \o d
      BY DEF PublishLookup
    <2> HIDE DEF a, b, c, d
    <2>3. Body("pmix", PublishLookup(r))
      BY <2>1, <2>2, ConcatBody
    <2> QED
      BY <2>3, ConcatBody DEF TestPublish
  <1>5. Body("pmix", TestConnect)
    <2> DEFINE a == Connect("blocking", Rank, "exit")
               b == Connect("end blocking", Rank, "exit")
               c == Connect("nonblocking", Rank, "exit")
               d == Connect("end nonblocking", Rank, "exit")
    <2>1. Body("pmix", a) /\ Body("pmix", b) /\ Body("pmix", c) /\ Body("pmix", d)
      BY PmixBodies
    <2>2. TestConnect = a \o b \o c \o d
      BY DEF TestConnect
    <2> HIDE DEF a, b, c, d
    <2> QED
      BY <2>1, <2>2, ConcatBody
  <1>6. Body("pmix", TestReplace(r)) /\ Body("pmix", TestInternal(r))
    <2> DEFINE a == Commit("key", 1, "exit")
               b == Fence("put", "exit")
               c == Commit("key", 2, "exit")
               d == Fence("replaced", "exit")
               e == Get({r}, "key", 2, "exit")
               f == Fence("internal", "exit")
               g == Get({r}, "key", 1, "exit")
    <2>1. /\ Body("pmix", a) /\ Body("pmix", b) /\ Body("pmix", c) /\ Body("pmix", d)
          /\ Body("pmix", e) /\ Body("pmix", f) /\ Body("pmix", g)
      BY <1>1
    <2>2. TestReplace(r) = a \o b \o c \o d \o e /\ TestInternal(r) = a \o f \o g
      BY DEF TestReplace, TestInternal
    <2> HIDE DEF a, b, c, d, e, f, g
    <2> QED
      BY <2>1, <2>2, ConcatBody
  <1>7. Body("pmix", TestError) /\ Body("pmix", TestSpawn)
    <2> DEFINE a == Register
               b == AskAndWait("none")
               c == AskAndWait("exit")
               d == Call("exit")
    <2>1. Body("pmix", a) /\ Body("pmix", b) /\ Body("pmix", c) /\ Body("pmix", d)
      BY <1>1, PmixBodies
    <2>2. TestError = a \o a \o b \o b \o b /\ TestSpawn = d \o c \o d
      BY DEF TestError, TestSpawn
    <2> HIDE DEF a, b, c, d
    <2> QED
      BY <2>1, <2>2, ConcatBody
  <1> QED
    BY <1>2, <1>3, <1>4, <1>5, <1>6, <1>7

LEMMA ResolvePeersBody == \A r : Body("pmix", TestResolvePeers(r))
  <1> TAKE r
  <1> DEFINE ss == [i \in DOMAIN Others(r) |-> WithNamespace(Others(r)[i], r)]
  <1>1. DOMAIN Others(r) = 1 .. Size - 1 /\ Size - 1 \in Nat
    BY ClientProgramAssumption DEF Others
  <1>2. \A i \in 1 .. Size - 1 : Body("pmix", ss[i])
    BY <1>1, WithNamespaceBody
  <1>3. ss = [i \in 1 .. Size - 1 |-> ss[i]]
    BY <1>1
  <1>4. TestResolvePeers(r) = Call("exit") \o FlattenSeq(ss)
    BY DEF TestResolvePeers
  <1> HIDE DEF ss
  <1>5. Body("pmix", FlattenSeq(ss))
    BY <1>1, <1>2, <1>3, FlattenBody
  <1>6. Body("pmix", Call("exit"))
    BY CallBodies DEF Kind
  <1> QED
    BY <1>4, <1>5, <1>6, ConcatBody

LEMMA ItemConcat ==
  ASSUME NEW s, NEW t, Body("pmi", s), Body("pmi", t), s # <<>>
  PROVE  Body("pmi", s \o t) /\ s \o t # <<>>
  <1>1. Part("pmi", s) /\ Part("pmi", t) /\ Body("pmi", s \o t)
    BY ConcatBody DEF Body
  <1>2. Len(s) \in Nat /\ Len(t) \in Nat /\ DOMAIN s = 1 .. Len(s) /\ DOMAIN (s \o t) = 1 .. Len(s) + Len(t)
    BY <1>1, ConcatPart
  <1>3. Len(s) # 0
    <2>1. PICK S : s \in Seq(S)
      BY <1>1 DEF Part
    <2> QED
      BY <2>1, EmptySeq
  <1>4. 1 \in DOMAIN (s \o t)
    BY <1>2, <1>3
  <1>5. 1 \notin DOMAIN <<>>
    OBVIOUS
  <1>6. s \o t # <<>>
    BY <1>4, <1>5
  <1> QED
    BY <1>1, <1>6

Item(s) == Body("pmi", s) /\ s # <<>>

LEMMA ItemBodies ==
  ASSUME NEW r
  PROVE  /\ Item(Call("exit"))
         /\ Item(PmiItem1) /\ Item(PmiItem2) /\ Item(PmiItem3) /\ Item(PmiItem4) /\ Item(PmiItem6)
         /\ Item(PmiItem7)
         /\ Item(Pmi2Item1) /\ Item(Pmi2Item2) /\ Item(Pmi2Item5) /\ Item(Pmi2Item6)
         /\ Item(Pmi2Item7(r)) /\ Item(Pmi2Item8) /\ Item(Pmi2Item9) /\ Item(Pmi2Item10)
  <1>1. \A s, t : Item(s) /\ Item(t) => Item(s \o t)
    BY ItemConcat DEF Item
  <1>2. \A s, t : Item(s) /\ Body("pmi", t) => Item(s \o t)
    BY ItemConcat DEF Item
  <1>3. \A op, fail, arg : /\ op \notin {"finalize", "passed"}
                           /\ fail \in {"exit", "next"} \/ (fail = "skip" /\ op \in {"check", "note"}) \/ (fail = "none" /\ op = "call")
                           => Item(One(op, fail, arg))
    <2> SUFFICES ASSUME NEW op, NEW fail, NEW arg, op \notin {"finalize", "passed"},
                        fail \in {"exit", "next"} \/ (fail = "skip" /\ op \in {"check", "note"}) \/ (fail = "none" /\ op = "call")
                 PROVE  Item(One(op, fail, arg))
      OBVIOUS
    <2>1. Allowed("pmi", op, fail)
      BY DEF Allowed
    <2> QED
      BY <2>1, OnePart, OneBody DEF Item
  <1>4. /\ Item(Call("next")) /\ Item(Check) /\ Item(Call("exit"))
        /\ Item(Note("next")) /\ Item(Note("skip")) /\ Item(ReturnZero)
    BY <1>3 DEF Call, Check, Note, ReturnZero
  <1>5. /\ \A key, val : Item(Commit(key, val, "next"))
        /\ \A members, name : Body("pmi", FenceOf(members, name, "next"))
        /\ \A name : Body("pmi", Fence(name, "next"))
        /\ \A owners, key, val : Body("pmi", Get(owners, key, val, "next"))
    BY <1>3, CallBodies DEF Kind, Commit
  <1>6. /\ Item(PmiItem1) /\ Item(PmiItem2) /\ Item(PmiItem3) /\ Item(PmiItem4) /\ Item(PmiItem6)
        /\ Item(Pmi2Item1) /\ Item(Pmi2Item2) /\ Item(Pmi2Item5) /\ Item(Pmi2Item6)
    <2> DEFINE a == Call("next")
               n == Note("next")
    <2>1. Item(a) /\ Item(Check) /\ Item(n)
      BY <1>4
    <2>2. /\ PmiItem1 = Check \o a \o Check \o a \o Check /\ PmiItem2 = a \o Check
          /\ PmiItem3 = a \o Check \o a \o Check /\ PmiItem4 = a \o Check \o a \o n
          /\ PmiItem6 = a \o a \o Check
          /\ Pmi2Item1 = Check \o a \o Check /\ Pmi2Item2 = Check \o a \o Check \o a \o Check
          /\ Pmi2Item5 = a \o a \o Check /\ Pmi2Item6 = a \o a
      BY DEF PmiItem1, PmiItem2, PmiItem3, PmiItem4, PmiItem6, Pmi2Item1, Pmi2Item2, Pmi2Item5, Pmi2Item6
    <2> HIDE DEF a, n
    <2>3. Item(Check \o a) /\ Item(a \o Check) /\ Item(a \o a)
      BY <1>1, <2>1
    <2>4. Item(Check \o a \o Check) /\ Item(a \o Check \o a) /\ Item(a \o a \o Check)
      BY <1>1, <2>1, <2>3
    <2>5. Item(Check \o a \o Check \o a) /\ Item(a \o Check \o a \o Check) /\ Item(a \o Check \o a \o n)
      BY <1>1, <2>1, <2>4
    <2>6. Item(Check \o a \o Check \o a \o Check)
      BY <1>1, <2>1, <2>5
    <2> QED
      BY <2>2, <2>3, <2>4, <2>5, <2>6
  <1>7. \A key : Body("pmi", GetEach(key))
    <2> TAKE key
    <2> DEFINE ss == [n \in 1 .. Size |-> Get({n - 1}, key, 1, "next") \o Check]
    <2>1. \A n \in 1 .. Size : Body("pmi", ss[n])
      <3> TAKE n \in 1 .. Size
      <3> DEFINE g == Get({n - 1}, key, 1, "next")
      <3>1. Body("pmi", g) /\ Body("pmi", Check) /\ ss[n] = g \o Check
        BY <1>4, <1>5 DEF Item
      <3> HIDE DEF g
      <3> QED
        BY <3>1, ConcatBody
    <2>2. GetEach(key) = FlattenSeq(ss) /\ ss = [n \in 1 .. Size |-> ss[n]]
      BY DEF GetEach
    <2> HIDE DEF ss
    <2> QED
      BY <2>1, <2>2, FlattenBody, ClientProgramAssumption
  <1>8. Item(PmiItem7)
    <2> DEFINE a == Commit("KEY", 1, "next")
               b == Fence("TI7", "next")
    <2>1. Item(a) /\ Body("pmi", b) /\ PmiItem7 = a \o b \o GetEach("KEY")
      BY <1>5 DEF PmiItem7
    <2> HIDE DEF a, b
    <2>2. Item(a \o b)
      BY <1>2, <2>1
    <2> QED
      BY <1>2, <1>7, <2>1, <2>2
  <1>9. \A name, key : Item(Pmi2Fence(name, key))
    <2> TAKE name, key
    <2> DEFINE a == Commit(key, 1, "next")
               b == FenceOf(Rank, name, "next")
    <2>1. Item(a) /\ Body("pmi", b) /\ Pmi2Fence(name, key) = a \o b
      BY <1>5 DEF Pmi2Fence
    <2> HIDE DEF a, b
    <2> QED
      BY <1>2, <2>1
  <1>10. Item(Pmi2Item7(r)) /\ Item(Pmi2Item8) /\ Item(Pmi2Item9)
    <2> DEFINE f == Pmi2Fence(<<"TI7", 0>>, <<"KEY", 0>>)
               g == Get({r}, <<"KEY", 0>>, 1, "next")
    <2>1. Item(f) /\ Body("pmi", g) /\ Pmi2Item7(r) = f \o g \o Check \o ReturnZero
      BY <1>5, <1>9 DEF Pmi2Item7
    <2> HIDE DEF f, g
    <2>2. Item(f \o g)
      BY <1>2, <2>1
    <2>3. Item(f \o g \o Check)
      BY <1>1, <1>4, <2>2
    <2>4. Item(Pmi2Item7(r))
      BY <1>1, <1>4, <2>1, <2>3
    <2> QED
      BY <1>2, <1>7, <1>9, <2>4 DEF Pmi2Item8, Pmi2Item9
  <1>11. Item(Pmi2Item10)
    <2> DEFINE gets(n) == [i \in 1 .. n |-> Get(Rank, <<"RANK-key", i>>, 1, "next") \o Note("skip")]
               round(n) == Pmi2Fence(<<"TI10", n>>, <<"RANK-key", n>>) \o FlattenSeq(gets(n))
               ss == [n \in 1 .. Rounds |-> round(n)]
    <2>1. Pmi2Item10 = FlattenSeq(ss) /\ ss = [n \in 1 .. Rounds |-> ss[n]]
      BY DEF Pmi2Item10, Repeat
    <2>2. ASSUME NEW n \in 1 .. Rounds PROVE Item(round(n))
      <3> DEFINE gs == gets(n)
      <3>1. ASSUME NEW i \in 1 .. n PROVE Body("pmi", gs[i])
        <4> DEFINE g == Get(Rank, <<"RANK-key", i>>, 1, "next")
                   m == Note("skip")
        <4>1. Body("pmi", g) /\ Body("pmi", m) /\ gs[i] = g \o m
          BY <1>4, <1>5 DEF Item
        <4> HIDE DEF g, m
        <4> QED
          BY <4>1, ConcatBody
      <3>2. gs = [i \in 1 .. n |-> gs[i]] /\ n \in Nat
        BY ClientProgramAssumption
      <3>3. round(n) = Pmi2Fence(<<"TI10", n>>, <<"RANK-key", n>>) \o FlattenSeq(gs)
        OBVIOUS
      <3> HIDE DEF gs, round
      <3>4. Body("pmi", FlattenSeq(gs))
        BY <3>1, <3>2, FlattenBody
      <3> QED
        BY <1>2, <1>9, <3>3, <3>4
    <2> HIDE DEF round
    <2>3. \A n \in 1 .. Rounds : Item(ss[n])
      BY <2>2
    <2> HIDE DEF ss
    <2>4. Rounds \in Nat /\ Rounds # 0
      BY ClientProgramAssumption
    <2>5. \A n \in 1 .. Rounds : Body("pmi", ss[n]) /\ ss[n] # <<>>
      BY <2>3 DEF Item
    <2>6. Body("pmi", FlattenSeq(ss)) /\ FlattenSeq(ss) # <<>>
      BY <2>1, <2>4, <2>5, FlattenBody
    <2> QED
      BY <2>1, <2>6 DEF Item
  <1> QED
    BY <1>4, <1>6, <1>8, <1>10, <1>11

-----------------------------------------------------------------------------
(* What can be relied on in the program of a rank.                         *)

InstructionOK(t, b, i) ==
  /\ t[b][i].op = "finalize" <=> (b = Len(t) /\ i = Len(t[b]))
  /\ t[b][i].op = "finalize" => t[b][i].arg = (IF Len(t) = 1 THEN "rc" ELSE "ret")
  /\ t[b][i].op = "passed" => t[b][i].fail = "exit"
  /\ t[b][i].fail \in {"exit", "next", "skip", "none"}
  /\ t[b][i].fail = "skip" => t[b][i].op \in {"fence", "await", "call", "check", "note"}
  /\ Len(t) = 1 => t[b][i].op \notin {"check", "note"} /\ t[b][i].fail # "next"
  /\ Resolving(t[b], i) =>
       Len(t) = 1 /\ \E j \in DOMAIN t[b] : i < j /\ t[b][j].op = "passed"
TextOK(t) ==
  /\ Len(t) \in Nat \ {0} /\ DOMAIN t = 1 .. Len(t)
  /\ \A b \in DOMAIN t : /\ Len(t[b]) \in Nat \ {0} /\ DOMAIN t[b] = 1 .. Len(t[b])
                         /\ \A i \in DOMAIN t[b] : InstructionOK(t, b, i)
  /\ Len(t) > 1 => Len(t[Len(t)]) = 1

(* Where a failure that counts is remembered while the rank runs: in ret,  *)
(* in rc to the end of the item, or in the library until the rank looks.   *)
Followed(r, at) ==
  \/ Overwritten(r, at) \/ Ignored(r, at)
  \/ ret[r]
  \/ rc[r] /\ pc[r][1] = at[1] /\ at[2] < pc[r][2] /\ At(r, at).op = "check"
  \/ Len(text[r]) = 1 /\ \E j \in DOMAIN text[r][1] : pc[r][2] <= j /\ text[r][1][j].op = "passed"
ProcessType ==
  /\ pc \in [Rank -> Nat \X Nat]
  /\ status \in [Rank -> {"runs", "ok", "failed"}]
  /\ rc \in [Rank -> BOOLEAN] /\ ret \in [Rank -> BOOLEAN]
  /\ seen \in [Rank -> SUBSET (Nat \X Nat)]
RankOK(r) ==
  /\ TextOK(text[r])
  /\ pc[r][1] \in DOMAIN text[r] /\ pc[r][2] \in DOMAIN text[r][pc[r][1]]
  /\ ret[r] => Len(text[r]) > 1
  /\ status[r] = "runs" => \A at \in seen[r] : Followed(r, at)
  /\ status[r] = "ok" => \A at \in seen[r] : Overwritten(r, at) \/ Ignored(r, at)
FailureInv == prog \in UnitProgram => ProcessType /\ \A r \in Rank : RankOK(r)

LEMMA PmixTextOK ==
  ASSUME NEW s, Body("pmix", s)
  PROVE  TextOK(<<s \o Finalize("rc")>>)
  <1> DEFINE f == Instruction("finalize", "exit", "rc")
             u == s \o <<f>>
             t == <<u>>
             n == Len(s)
  <1>1. f.op = "finalize" /\ f.fail = "exit" /\ f.arg = "rc"
    BY DEF Instruction
  <1>2. <<s \o Finalize("rc")>> = t
    BY DEF Finalize, One
  <1> HIDE DEF f
  <1>3. PICK S : s \in Seq(S) /\ \A x \in S : Allowed("pmix", x.op, x.fail)
    BY DEF Body, Part
  <1> DEFINE U == S \cup {f}
  <1>4. s \in Seq(U) /\ <<f>> \in Seq(U)
    BY <1>3, SeqMonotonic
  <1> HIDE DEF U
  <1>5. n \in Nat /\ DOMAIN s = 1 .. n /\ \A i \in 1 .. n : Allowed("pmix", s[i].op, s[i].fail)
    BY <1>3, LenProperties
  <1>6. Len(u) = n + 1 /\ DOMAIN u = 1 .. n + 1 /\ u[n + 1] = f /\ \A i \in 1 .. n : u[i] = s[i]
    <2>1. Len(<<f>>) = 1 /\ <<f>>[1] = f
      OBVIOUS
    <2>2. u \in Seq(U) /\ Len(u) = n + Len(<<f>>)
          /\ \A i \in 1 .. n + Len(<<f>>) : u[i] = IF i <= n THEN s[i] ELSE <<f>>[i - n]
      BY <1>4, ConcatProperties
    <2> HIDE DEF u, n
    <2>3. DOMAIN u = 1 .. n + 1
      BY <2>1, <2>2, LenProperties
    <2>4. n + 1 \in 1 .. n + 1 /\ ~(n + 1 <= n) /\ (n + 1) - n = 1
      BY <1>5
    <2>5. u[n + 1] = f
      BY <2>1, <2>2, <2>4
    <2>6. \A i \in 1 .. n : u[i] = s[i]
      BY <1>5, <2>1, <2>2
    <2> QED
      BY <2>1, <2>2, <2>3, <2>5, <2>6
  <1>7. Resolved(s)
    BY DEF Body
  <1> HIDE DEF u, n
  <1>8. Len(t) = 1 /\ DOMAIN t = {1} /\ t[1] = u /\ t[Len(t)] = u
    OBVIOUS
  <1> HIDE DEF t
  <1>9. ASSUME NEW i \in 1 .. n PROVE InstructionOK(t, 1, i)
    <2>1. t[1][i] = s[i] /\ i # Len(t[1]) /\ Allowed("pmix", s[i].op, s[i].fail)
      BY <1>5, <1>6, <1>8
    <2>2. ASSUME Resolving(t[1], i) PROVE \E j \in DOMAIN t[1] : i < j /\ t[1][j].op = "passed"
      <3>1. PICK j \in 1 .. n : i < j /\ s[j].op = "passed"
        BY <1>5, <1>7, <2>1, <2>2 DEF Resolved, Resolving
      <3> QED
        BY <1>5, <1>6, <1>8, <3>1
    <2> QED
      BY <1>8, <2>1, <2>2 DEF InstructionOK, Allowed
  <1>10. InstructionOK(t, 1, n + 1)
    BY <1>1, <1>6, <1>8 DEF InstructionOK, Resolving
  <1>11. \A i \in DOMAIN t[1] : InstructionOK(t, 1, i)
    <2>1. \A i \in 1 .. n + 1 : i \in 1 .. n \/ i = n + 1
      BY <1>5
    <2> QED
      BY <1>6, <1>8, <1>9, <1>10, <2>1
  <1>12. DOMAIN t = 1 .. Len(t) /\ Len(t[1]) \in Nat \ {0} /\ DOMAIN t[1] = 1 .. Len(t[1])
    BY <1>5, <1>6, <1>8
  <1>13. ASSUME NEW b \in DOMAIN t
         PROVE  /\ Len(t[b]) \in Nat \ {0} /\ DOMAIN t[b] = 1 .. Len(t[b])
                /\ \A i \in DOMAIN t[b] : InstructionOK(t, b, i)
    <2>1. b = 1
      BY <1>8
    <2> QED
      BY <1>11, <1>12, <2>1
  <1>14. Len(t) \in Nat \ {0} /\ ~(Len(t) > 1)
    BY <1>8
  <1> QED
    BY <1>2, <1>12, <1>13, <1>14 DEF TextOK

LEMMA PmiTextOK ==
  ASSUME NEW n \in Nat \ {0}, NEW t, Len(t) = n + 1, DOMAIN t = 1 .. n + 1,
         \A b \in 1 .. n : Item(t[b]), t[n + 1] = Finalize("ret")
  PROVE  TextOK(t)
  <1>1. /\ Len(t[n + 1]) = 1 /\ DOMAIN t[n + 1] = {1} /\ t[n + 1][1].op = "finalize"
        /\ t[n + 1][1].fail = "exit" /\ t[n + 1][1].arg = "ret"
    <2> DEFINE f == Instruction("finalize", "exit", "ret")
    <2>1. f.op = "finalize" /\ f.fail = "exit" /\ f.arg = "ret"
      BY DEF Instruction
    <2>2. t[n + 1] = <<f>>
      BY DEF Finalize, One
    <2> HIDE DEF f
    <2>3. Len(<<f>>) = 1 /\ DOMAIN <<f>> = {1} /\ <<f>>[1] = f
      OBVIOUS
    <2>4. Len(t[n + 1]) = 1 /\ DOMAIN t[n + 1] = {1} /\ t[n + 1][1] = f
      BY <2>2, <2>3
    <2> QED
      BY <2>1, <2>4
  <1>2. InstructionOK(t, n + 1, 1)
    BY <1>1 DEF InstructionOK, Resolving
  <1>3. ASSUME NEW b \in 1 .. n
        PROVE  /\ Len(t[b]) \in Nat \ {0} /\ DOMAIN t[b] = 1 .. Len(t[b])
               /\ \A i \in DOMAIN t[b] : InstructionOK(t, b, i)
    <2>1. PICK S : t[b] \in Seq(S) /\ \A x \in S : Allowed("pmi", x.op, x.fail)
      BY DEF Item, Body, Part
    <2>2. Len(t[b]) \in Nat /\ DOMAIN t[b] = 1 .. Len(t[b]) /\ \A i \in DOMAIN t[b] : Allowed("pmi", t[b][i].op, t[b][i].fail)
      BY <2>1, LenProperties
    <2>3. Len(t[b]) # 0
      BY <2>1, EmptySeq DEF Item
    <2>4. ASSUME NEW i \in DOMAIN t[b] PROVE InstructionOK(t, b, i)
      <3>1. b # Len(t) /\ Len(t) # 1
        OBVIOUS
      <3> QED
        BY <2>2, <3>1 DEF InstructionOK, Allowed, Resolving
    <2> QED
      BY <2>2, <2>3, <2>4
  <1>4. \A b \in DOMAIN t : b \in 1 .. n \/ b = n + 1
    OBVIOUS
  <1>5. ASSUME NEW b \in DOMAIN t
        PROVE  /\ Len(t[b]) \in Nat \ {0} /\ DOMAIN t[b] = 1 .. Len(t[b])
               /\ \A i \in DOMAIN t[b] : InstructionOK(t, b, i)
    <2>1. CASE b \in 1 .. n
      BY <1>3, <2>1
    <2>2. CASE b = n + 1
      <3>1. Len(t[b]) = 1 /\ DOMAIN t[b] = {1} /\ InstructionOK(t, b, 1)
        BY <1>1, <1>2, <2>2
      <3> QED
        BY <3>1
    <2> QED
      BY <1>4, <2>1, <2>2
  <1> QED
    BY <1>1, <1>5 DEF TextOK

LEMMA UnitTextOK ==
  ASSUME NEW p \in UnitProgram, NEW r
  PROVE  TextOK(UnitText(p, r))
  <1>1. ASSUME NEW nspace, NEW test, Body("pmix", test) PROVE TextOK(PmixClient(nspace, test))
    <2> DEFINE a == JobChecks
               b == LeaveTogether(nspace)
    <2>1. Body("pmix", a) /\ Body("pmix", b)
      BY CallBodies, PmixBodies DEF JobChecks, LeaveTogether, Kind
    <2>2. PmixClient(nspace, test) = <<(a \o test \o b) \o Finalize("rc")>>
      BY DEF PmixClient
    <2> HIDE DEF a, b
    <2>3. Body("pmix", a \o test \o b)
      BY <1>1, <2>1, ConcatBody
    <2> QED
      BY <2>2, <2>3, PmixTextOK
  <1>2. TextOK(PmiClient)
    <2> DEFINE t == PmiClient
    <2>1. /\ Len(t) = 7 + 1 /\ DOMAIN t = 1 .. 7 + 1 /\ t[7 + 1] = Finalize("ret")
          /\ t[1] = Call("exit") /\ t[2] = PmiItem1 /\ t[3] = PmiItem2 /\ t[4] = PmiItem3
          /\ t[5] = PmiItem4 /\ t[6] = PmiItem6 /\ t[7] = PmiItem7
      BY DEF PmiClient
    <2> HIDE DEF t
    <2>2. \A b \in 1 .. 7 : b \in {1, 2, 3, 4, 5, 6, 7}
      OBVIOUS
    <2>3. \A b \in 1 .. 7 : Item(t[b])
      BY <2>1, <2>2, ItemBodies
    <2> DEFINE n == 7
    <2>4. n \in Nat \ {0}
      OBVIOUS
    <2>5. Len(t) = n + 1 /\ DOMAIN t = 1 .. n + 1 /\ t[n + 1] = Finalize("ret")
      BY <2>1
    <2>6. \A b \in 1 .. n : Item(t[b])
      BY <2>3
    <2> HIDE DEF n
    <2>7. TextOK(t)
      BY <2>4, <2>5, <2>6, PmiTextOK
    <2> QED
      BY <2>7 DEF t
  <1>3. TextOK(Pmi2Client(r))
    <2> DEFINE t == Pmi2Client(r)
    <2>1. /\ Len(t) = 9 + 1 /\ DOMAIN t = 1 .. 9 + 1 /\ t[9 + 1] = Finalize("ret")
          /\ t[1] = Call("exit") /\ t[2] = Pmi2Item1 /\ t[3] = Pmi2Item2 /\ t[4] = Pmi2Item5
          /\ t[5] = Pmi2Item6 /\ t[6] = Pmi2Item7(r) /\ t[7] = Pmi2Item8 /\ t[8] = Pmi2Item9
          /\ t[9] = Pmi2Item10
      BY DEF Pmi2Client
    <2> HIDE DEF t
    <2>2. \A b \in 1 .. 9 : b \in {1, 2, 3, 4, 5, 6, 7, 8, 9}
      OBVIOUS
    <2>3. \A b \in 1 .. 9 : Item(t[b])
      BY <2>1, <2>2, ItemBodies
    <2> DEFINE n == 9
    <2>4. n \in Nat \ {0}
      OBVIOUS
    <2>5. Len(t) = n + 1 /\ DOMAIN t = 1 .. n + 1 /\ t[n + 1] = Finalize("ret")
      BY <2>1
    <2>6. \A b \in 1 .. n : Item(t[b])
      BY <2>3
    <2> HIDE DEF n
    <2>7. TextOK(t)
      BY <2>4, <2>5, <2>6, PmiTextOK
    <2> QED
      BY <2>7 DEF t
  <1>4. CASE p = "pmi_client"
    BY <1>2, <1>4 DEF UnitText
  <1>5. CASE p = "pmi2_client"
    BY <1>3, <1>5 DEF UnitText
  <1>6. CASE p \in {"test_fence", "test_job_fence", "test_publish", "test_cd"}
    BY <1>1, <1>6, TestBodies DEF UnitText
  <1>7. CASE p \in {"test_replace", "test_internal", "test_spawn", "test_error"}
    BY <1>1, <1>7, TestBodies DEF UnitText
  <1>8. CASE p = "test_resolve_peers"
    BY <1>1, <1>8, ResolvePeersBody DEF UnitText
  <1> QED
    BY <1>4, <1>5, <1>6, <1>7, <1>8 DEF UnitProgram

-----------------------------------------------------------------------------
(* The invariant holds.                                                    *)

LEMMA InitFailure == Init => FailureInv
  <1> SUFFICES ASSUME Init, prog \in UnitProgram PROVE ProcessType /\ \A r \in Rank : RankOK(r)
    BY DEF FailureInv
  <1>1. ProcessType
    BY DEF Init, ProcessType
  <1>2. ASSUME NEW r \in Rank PROVE RankOK(r)
    <2>1. prog \notin SimpleProgram
      BY DEF UnitProgram, SimpleProgram
    <2>2. text[r] = UnitText(prog, r)
      BY <2>1 DEF Init, Text
    <2>3. TextOK(text[r])
      BY <2>2, UnitTextOK
    <2>4. /\ pc[r][1] = 1 /\ pc[r][2] = 1 /\ ~ret[r] /\ seen[r] = {}
      BY DEF Init
    <2>5. pc[r][1] \in DOMAIN text[r] /\ pc[r][2] \in DOMAIN text[r][pc[r][1]]
      BY <2>3, <2>4 DEF TextOK
    <2> QED
      BY <2>3, <2>4, <2>5 DEF RankOK
  <1> QED
    BY <1>1, <1>2

(* What a step of one rank leaves to the others.                           *)
LEMMA OthersKept ==
  ASSUME FailureInv, prog \in UnitProgram, ProcessType', UNCHANGED program, NEW r \in Rank, RankOK(r)',
         \A q \in Rank \ {r} : /\ pc'[q] = pc[q] /\ status'[q] = status[q] /\ rc'[q] = rc[q]
                               /\ ret'[q] = ret[q] /\ seen'[q] = seen[q]
  PROVE  FailureInv'
  <1>1. text' = text /\ prog' = prog
    BY DEF program
  <1>2. ASSUME NEW q \in Rank, q # r PROVE RankOK(q)'
    <2>1. RankOK(q)
      BY DEF FailureInv
    <2>2. \A at : (Overwritten(q, at)' <=> Overwritten(q, at)) /\ (Ignored(q, at)' <=> Ignored(q, at))
      BY <1>1 DEF Overwritten, Ignored, At
    <2>3. \A at : Followed(q, at)' <=> Followed(q, at)
      BY <1>1, <1>2, <2>2 DEF Followed, At
    <2> QED
      BY <1>1, <1>2, <2>1, <2>2, <2>3 DEF RankOK
  <1> QED
    BY <1>2 DEF FailureInv

(* A call that has returned.                                               *)
LEMMA ReturnKeeps ==
  ASSUME FailureInv, prog \in UnitProgram, UNCHANGED program, NEW r \in Rank, status[r] = "runs",
         Now(r).op # "finalize", NEW failed \in BOOLEAN,
         Now(r).op = "passed" /\ seen[r] # {} => failed,
         Return(r, failed)
  PROVE  FailureInv'
  <1> DEFINE t == text[r]
             b == pc[r][1]
             i == pc[r][2]
             x == t[b][i]
             to == IF failed THEN x.fail ELSE "none"
             sees == to # "none"
             error == CASE x.op = "note" -> rc[r]
                        [] x.op = "check" -> sees \/ rc[r]
                        [] OTHER -> sees
             exits == to \in {"exit", "exit0", "status"}
             ends == to = "next" \/ (to \in {"skip", "none"} /\ i = Len(t[b]))
  <1>1. /\ pc \in [Rank -> Nat \X Nat] /\ status \in [Rank -> {"runs", "ok", "failed"}]
        /\ rc \in [Rank -> BOOLEAN] /\ ret \in [Rank -> BOOLEAN] /\ seen \in [Rank -> SUBSET (Nat \X Nat)]
    BY DEF FailureInv, ProcessType
  <1>2. /\ TextOK(t) /\ b \in DOMAIN t /\ i \in DOMAIN t[b]
        /\ ret[r] => Len(t) > 1
        /\ \A at \in seen[r] : Followed(r, at)
    BY DEF FailureInv, RankOK
  <1>3. x = Now(r) /\ pc[r] = <<b, i>> /\ b \in Nat /\ i \in Nat /\ rc[r] \in BOOLEAN /\ ret[r] \in BOOLEAN
    BY <1>1 DEF Now, At
  <1>4. /\ status' = [status EXCEPT ![r] = IF exits THEN (IF to = "exit0" THEN "ok" ELSE "failed") ELSE @]
        /\ pc' = [pc EXCEPT ![r] = CASE exits -> @
                              [] to = "done" -> <<Len(text[r]), 1>>
                              [] ends -> <<@[1] + 1, 1>>
                              [] OTHER -> <<@[1], @[2] + 1>>]
        /\ rc' = [rc EXCEPT ![r] = error /\ ~ends]
        /\ ret' = [ret EXCEPT ![r] = IF ends THEN ItemDone(@, error) ELSE @]
        /\ seen' = [seen EXCEPT ![r] = IF sees THEN @ \cup {pc[r]} ELSE @]
    BY <1>3 DEF Return
  <1>5. InstructionOK(t, b, i) /\ Len(t) \in Nat \ {0} /\ DOMAIN t = 1 .. Len(t)
        /\ Len(t[b]) \in Nat \ {0} /\ DOMAIN t[b] = 1 .. Len(t[b])
    BY <1>2 DEF TextOK
  <1> HIDE DEF t, b, i
  <1>6. /\ x.fail \in {"exit", "next", "skip", "none"} /\ x.op # "finalize"
        /\ x.op = "passed" => x.fail = "exit"
        /\ x.fail = "skip" => x.op \in {"fence", "await", "call", "check", "note"}
        /\ Len(t) = 1 => x.op \notin {"check", "note"} /\ x.fail # "next"
        /\ ~(b = Len(t) /\ i = Len(t[b]))
        /\ Resolving(t[b], i) => Len(t) = 1 /\ \E j \in DOMAIN t[b] : i < j /\ t[b][j].op = "passed"
    BY <1>3, <1>5 DEF InstructionOK
  <1> HIDE DEF x
  <1>7. to \in {"exit", "next", "skip", "none"} /\ (failed => to = x.fail) /\ (~failed => to = "none")
    BY <1>6
  <1> HIDE DEF to
  <1>8. /\ status'[r] = IF exits THEN "failed" ELSE "runs"
        /\ pc'[r] = IF exits THEN <<b, i>> ELSE IF ends THEN <<b + 1, 1>> ELSE <<b, i + 1>>
        /\ rc'[r] = (error /\ ~ends)
        /\ ret'[r] = IF ends THEN ret[r] \/ error ELSE ret[r]
        /\ seen'[r] = IF sees THEN seen[r] \cup {<<b, i>>} ELSE seen[r]
    BY <1>1, <1>3, <1>4, <1>7 DEF ItemDone, t, b, i
  <1> HIDE DEF sees, error, exits, ends
  <1>9. \A q \in Rank \ {r} : /\ pc'[q] = pc[q] /\ status'[q] = status[q] /\ rc'[q] = rc[q]
                              /\ ret'[q] = ret[q] /\ seen'[q] = seen[q]
    BY <1>1, <1>4
  <1>10. text' = text /\ TextOK(text[r])' /\ t = text[r]
    BY <1>2 DEF program, t
  <1>11. ends => b < Len(t)
    <2>1. ASSUME ends, b = Len(t) PROVE FALSE
      <3>1. Len(t) # 1
        BY <1>5, <1>6, <1>7, <2>1 DEF ends
      <3>2. Len(t[b]) = 1
        BY <1>2, <1>5, <2>1, <3>1 DEF TextOK
      <3> QED
        BY <1>2, <1>5, <1>6, <2>1, <3>2
    <2> QED
      BY <1>2, <1>5, <2>1
  <1>12. ~exits /\ ~ends => i < Len(t[b])
    BY <1>2, <1>5, <1>7 DEF exits, ends
  <1>13. pc'[r][1] \in DOMAIN t /\ pc'[r][2] \in DOMAIN t[pc'[r][1]] /\ pc'[r] \in Nat \X Nat
    <2>1. CASE exits
      BY <1>2, <1>3, <1>8, <2>1
    <2>2. CASE ~exits /\ ends
      <3>1. pc'[r] = <<b + 1, 1>> /\ b + 1 \in DOMAIN t
        BY <1>2, <1>3, <1>5, <1>8, <1>11, <2>2
      <3>2. 1 \in DOMAIN t[b + 1]
        BY <1>2, <3>1 DEF TextOK
      <3> QED
        BY <1>3, <3>1, <3>2
    <2>3. CASE ~exits /\ ~ends
      <3>1. pc'[r] = <<b, i + 1>> /\ i + 1 \in DOMAIN t[b]
        BY <1>2, <1>3, <1>5, <1>8, <1>12, <2>3
      <3> QED
        BY <1>2, <1>3, <3>1
    <2> QED
      BY <2>1, <2>2, <2>3
  <1>14. ret'[r] => Len(t) > 1
    BY <1>2, <1>3, <1>5, <1>8, <1>11
  <1>15. ProcessType'
    <2>1. pc' \in [Rank -> Nat \X Nat]
      BY <1>1, <1>4, <1>13
    <2>2. seen' \in [Rank -> SUBSET (Nat \X Nat)]
      BY <1>1, <1>3, <1>4, <1>8
    <2>3. rc' \in [Rank -> BOOLEAN]
      BY <1>1, <1>4
    <2>4. ret' \in [Rank -> BOOLEAN]
      BY <1>1, <1>4, <1>8
    <2>5. status' \in [Rank -> {"runs", "ok", "failed"}]
      BY <1>1, <1>4, <1>8
    <2> QED
      BY <2>1, <2>2, <2>3, <2>4, <2>5 DEF ProcessType
  <1>16. \A at : (Overwritten(r, at)' <=> Overwritten(r, at)) /\ (Ignored(r, at)' <=> Ignored(r, at))
                 /\ At(r, at)' = At(r, at)
    BY <1>10 DEF Overwritten, Ignored, At
  <1>17. ASSUME ~exits, NEW at \in seen'[r] PROVE Followed(r, at)'
    <2>1. CASE Overwritten(r, at) \/ Ignored(r, at)
      BY <1>16, <2>1 DEF Followed
    <2>2. CASE ret'[r]
      BY <2>2 DEF Followed
    <2>3. CASE /\ ~Overwritten(r, at) /\ ~Ignored(r, at) /\ ~ret'[r]
               /\ at \in seen[r]
      <3>1. Followed(r, at) /\ ~ret[r]
        BY <1>2, <1>3, <1>8, <2>3
      <3>2. CASE rc[r] /\ b = at[1] /\ at[2] < i /\ At(r, at).op = "check"
        <4>1. x.op \in {"check", "note"}
          <5>1. i \in at[2] + 1 .. Len(text[r][at[1]])
            BY <1>2, <1>3, <1>5, <1>10, <2>3, <3>2, <1>1
          <5>2. text[r][at[1]][i].op \in {"check", "note"}
            BY <2>3, <3>2, <5>1 DEF Overwritten
          <5> QED
            BY <1>10, <3>2, <5>2 DEF x
        <4>2. error
          BY <3>2, <4>1 DEF error
        <4>3. ~ends
          BY <1>8, <2>3, <4>2
        <4>4. rc'[r] /\ pc'[r] = <<b, i + 1>>
          BY <1>8, <1>17, <4>2, <4>3
        <4>5. at[2] < i + 1
          BY <1>1, <1>3, <2>3, <3>2
        <4> QED
          BY <1>16, <3>2, <4>4, <4>5 DEF Followed
      <3>3. CASE Len(t) = 1 /\ \E j \in DOMAIN t[1] : i <= j /\ t[1][j].op = "passed"
        <4>1. PICK j \in DOMAIN t[1] : i <= j /\ t[1][j].op = "passed"
          BY <3>3
        <4>2. b = 1
          BY <1>2, <1>5, <3>3
        <4>3. j # i
          <5>1. ASSUME j = i PROVE FALSE
            <6>1. x.op = "passed" /\ failed
              BY <1>3, <2>3, <4>1, <4>2, <5>1 DEF x
            <6> QED
              BY <1>6, <1>7, <1>17, <6>1 DEF exits
          <5> QED
            BY <5>1
        <4>4. ~ends
          BY <1>11, <3>3, <4>2
        <4>5. pc'[r] = <<b, i + 1>>
          BY <1>8, <1>17, <4>4
        <4>6. i + 1 <= j
          BY <1>3, <1>5, <4>1, <4>2, <4>3
        <4> QED
          BY <1>10, <3>3, <4>1, <4>5, <4>6 DEF Followed
      <3> QED
        BY <1>10, <2>3, <3>1, <3>2, <3>3 DEF Followed, b, i
    <2>4. CASE /\ ~Overwritten(r, at) /\ ~Ignored(r, at) /\ ~ret'[r]
               /\ sees /\ at = <<b, i>>
      <3>1. At(r, at) = x /\ x.op # "note"
        BY <1>10, <2>4 DEF At, x, Ignored
      <3>2. error /\ ~ends /\ to = "skip" /\ x.fail = "skip"
        BY <1>7, <1>8, <1>17, <2>4, <3>1 DEF sees, error, exits, ends
      <3>3. rc'[r] /\ pc'[r] = <<b, i + 1>>
        BY <1>8, <1>17, <3>2
      <3>4. x.op \in {"call", "check"}
        BY <1>6, <2>4, <3>2, <3>1 DEF Ignored
      <3>5. CASE x.op = "check"
        BY <1>3, <1>16, <2>4, <3>3, <3>1, <3>5 DEF Followed
      <3>6. CASE x.op = "call"
        <4>1. Resolving(t[b], i)
          BY <3>2, <3>6 DEF Resolving, x
        <4>2. Len(t) = 1
          BY <1>6, <4>1
        <4>3. PICK j \in DOMAIN t[b] : i < j /\ t[b][j].op = "passed"
          BY <1>6, <4>1
        <4>4. b = 1 /\ i + 1 <= j
          BY <1>2, <1>3, <1>5, <4>2, <4>3
        <4> QED
          BY <1>10, <3>3, <4>2, <4>3, <4>4 DEF Followed
      <3> QED
        BY <3>4, <3>5, <3>6
    <2>5. at \in seen[r] \/ (sees /\ at = <<b, i>>)
      BY <1>8
    <2> QED
      BY <2>1, <2>2, <2>3, <2>4, <2>5
  <1>18. RankOK(r)'
    <2>1. status'[r] = "runs" => ~exits
      BY <1>8
    <2>2. status'[r] # "ok"
      BY <1>8
    <2> QED
      BY <1>10, <1>13, <1>14, <1>17, <2>1, <2>2 DEF RankOK
  <1> QED
    BY <1>9, <1>15, <1>18, OthersKept

(* PMIx_Finalize: the exit status tells what has been remembered.          *)
LEMMA FinishKeeps ==
  ASSUME FailureInv, prog \in UnitProgram, UNCHANGED program, NEW r \in Rank, status[r] = "runs", Finish(r)
  PROVE  FailureInv'
  <1> DEFINE b == pc[r][1]
             i == pc[r][2]
  <1>1. /\ pc \in [Rank -> Nat \X Nat] /\ status \in [Rank -> {"runs", "ok", "failed"}]
        /\ rc \in [Rank -> BOOLEAN] /\ ret \in [Rank -> BOOLEAN] /\ seen \in [Rank -> SUBSET (Nat \X Nat)]
    BY DEF FailureInv, ProcessType
  <1>2. /\ TextOK(text[r]) /\ b \in DOMAIN text[r] /\ i \in DOMAIN text[r][b]
        /\ ret[r] => Len(text[r]) > 1
        /\ \A at \in seen[r] : Followed(r, at)
    BY DEF FailureInv, RankOK
  <1>3. Now(r) = text[r][b][i] /\ Now(r).op = "finalize" /\ text' = text
    BY DEF Finish, Doing, Now, At, program
  <1>4. /\ b = Len(text[r]) /\ i = Len(text[r][b])
        /\ Now(r).arg = (IF Len(text[r]) = 1 THEN "rc" ELSE "ret")
    <2>1. InstructionOK(text[r], b, i)
      BY <1>2 DEF TextOK
    <2> QED
      BY <1>3, <2>1 DEF InstructionOK
  <1>5. UNCHANGED <<pc, rc, ret>>
        /\ \E failed : /\ failed <=> Fails(r) \/ (Len(text[r]) # 1 /\ ret[r])
                       /\ status' = [status EXCEPT ![r] = IF failed THEN "failed" ELSE "ok"]
        /\ seen' = [seen EXCEPT ![r] = IF Fails(r) THEN @ \cup {pc[r]} ELSE @]
    <2>1. /\ UNCHANGED <<pc, rc, ret>>
          /\ seen' = [seen EXCEPT ![r] = IF Fails(r) THEN @ \cup {pc[r]} ELSE @]
      BY DEF Finish
    <2>2. \E failed : /\ failed <=> Fails(r) \/ (Len(text[r]) # 1 /\ ret[r])
                     /\ status' = [status EXCEPT ![r] = IF failed THEN "failed" ELSE "ok"]
      <3>1. CASE Len(text[r]) = 1
        <4>1. Now(r).arg = "rc"
          BY <1>4, <3>1
        <4>2. status' = [status EXCEPT ![r] = IF Fails(r) THEN "failed" ELSE "ok"]
          BY <4>1 DEF Finish
        <4> QED
          BY <3>1, <4>2
      <3>2. CASE Len(text[r]) # 1
        <4>1. Now(r).arg = "ret"
          BY <1>4, <3>2
        <4>2. status' = [status EXCEPT ![r] = IF Fails(r) \/ ret[r] THEN "failed" ELSE "ok"]
          BY <4>1 DEF Finish
        <4> QED
          BY <3>2, <4>2
      <3> QED
        BY <3>1, <3>2
    <2> QED
      BY <2>1, <2>2
  <1>6. /\ status'[r] \in {"failed", "ok"}
        /\ status'[r] = "ok" => ~Fails(r) /\ (Len(text[r]) # 1 => ~ret[r])
        /\ ~Fails(r) => seen'[r] = seen[r]
    BY <1>1, <1>5
  <1>7. \A q \in Rank \ {r} : /\ pc'[q] = pc[q] /\ status'[q] = status[q] /\ rc'[q] = rc[q]
                              /\ ret'[q] = ret[q] /\ seen'[q] = seen[q]
    BY <1>1, <1>5
  <1>8. \A at : /\ Overwritten(r, at)' <=> Overwritten(r, at)
                /\ Ignored(r, at)' <=> Ignored(r, at)
    BY <1>3 DEF Overwritten, Ignored, At
  <1>9. ASSUME status'[r] = "ok", NEW at \in seen'[r] PROVE Overwritten(r, at) \/ Ignored(r, at)
    <2>1. at \in seen[r] /\ Followed(r, at)
      BY <1>2, <1>6, <1>9
    <2>2. ~ret[r]
      <3>1. Len(text[r]) > 1 => Len(text[r]) # 1
        BY <1>2 DEF TextOK
      <3> QED
        BY <1>2, <1>6, <1>9, <3>1
    <2>3. rc[r] /\ b = at[1] /\ at[2] < i /\ At(r, at).op = "check" => Overwritten(r, at)
      <3> SUFFICES ASSUME b = at[1], at[2] < i, At(r, at).op = "check" PROVE Overwritten(r, at)
        OBVIOUS
      <3>1. i \in at[2] + 1 .. Len(text[r][at[1]])
        BY <1>1, <1>2, <1>4, <2>1 DEF TextOK
      <3> QED
        BY <1>3, <3>1 DEF Overwritten
    <2>4. ~(Len(text[r]) = 1 /\ \E j \in DOMAIN text[r][1] : i <= j /\ text[r][1][j].op = "passed")
      <3> SUFFICES ASSUME Len(text[r]) = 1, NEW j \in DOMAIN text[r][1], i <= j, text[r][1][j].op = "passed"
                   PROVE  FALSE
        OBVIOUS
      <3>1. j = i /\ b = 1
        BY <1>1, <1>2, <1>4 DEF TextOK
      <3> QED
        BY <1>3, <3>1
    <2> QED
      BY <2>1, <2>2, <2>3, <2>4 DEF Followed
  <1>10. RankOK(r)'
    BY <1>2, <1>3, <1>5, <1>6, <1>8, <1>9 DEF RankOK
  <1>11. ProcessType'
    <2>1. seen' \in [Rank -> SUBSET (Nat \X Nat)]
      BY <1>1, <1>5
    <2>2. status' \in [Rank -> {"runs", "ok", "failed"}]
      BY <1>1, <1>5
    <2> QED
      BY <1>1, <1>5, <2>1, <2>2 DEF ProcessType
  <1> QED
    BY <1>7, <1>10, <1>11, OthersKept

LEMMA ExitKeeps ==
  ASSUME FailureInv, prog \in UnitProgram, UNCHANGED program, NEW r \in Rank, status[r] = "runs", Exit(r)
  PROVE  FailureInv'
  <1>1. /\ pc \in [Rank -> Nat \X Nat] /\ status \in [Rank -> {"runs", "ok", "failed"}]
        /\ rc \in [Rank -> BOOLEAN] /\ ret \in [Rank -> BOOLEAN] /\ seen \in [Rank -> SUBSET (Nat \X Nat)]
    BY DEF FailureInv, ProcessType
  <1>2. status' = [status EXCEPT ![r] = "failed"] /\ UNCHANGED <<pc, rc, ret, seen>> /\ text' = text
    BY DEF Exit, program
  <1>3. ProcessType'
    BY <1>1, <1>2 DEF ProcessType
  <1>4. RankOK(r)'
    <2>1. RankOK(r) /\ status'[r] = "failed"
      BY <1>1, <1>2 DEF FailureInv
    <2> QED
      BY <1>2, <2>1 DEF RankOK
  <1>5. \A q \in Rank \ {r} : status'[q] = status[q]
    BY <1>1, <1>2
  <1> QED
    BY <1>2, <1>3, <1>4, <1>5, OthersKept

(* Every other step of a rank is a call that returns.                      *)
LEMMA RankKeeps ==
  ASSUME FailureInv, prog \in UnitProgram, NEW r \in Rank, GoOn(r) \/ Show(r)
  PROVE  FailureInv'
  <1>1. status[r] = "runs" /\ UNCHANGED program
    BY DEF GoOn, Show, GoesOn
  <1>2. ASSUME NEW failed \in BOOLEAN, Return(r, failed), Now(r).op # "finalize",
               Now(r).op = "passed" => (seen[r] # {} => failed)
        PROVE  FailureInv'
    BY <1>1, <1>2, ReturnKeeps
  <1>3. ASSUME NEW f, Return(r, f), Now(r).op \notin {"finalize", "passed"} PROVE FailureInv'
    <2>1. CASE f
      <3>1. Return(r, TRUE)
        BY <1>3, <2>1 DEF Return
      <3> QED
        BY <1>2, <1>3, <3>1
    <2>2. CASE ~f
      <3>1. Return(r, FALSE)
        BY <1>3, <2>2 DEF Return
      <3> QED
        BY <1>2, <1>3, <3>1
    <2> QED
      BY <2>1, <2>2
  <1>4. CASE CallReturns(r)
    <2> DEFINE f == Fails(r) \/ (Doing(r, "passed") /\ seen[r] # {})
    <2>1. Return(r, f) /\ Now(r).op # "finalize" /\ f \in BOOLEAN
      BY <1>4 DEF CallReturns
    <2>2. Now(r).op = "passed" => (seen[r] # {} => f)
      BY DEF Doing
    <2> HIDE DEF f
    <2>3. CASE f
      <3>1. Return(r, TRUE)
        BY <2>1, <2>3 DEF Return
      <3> QED
        BY <1>2, <2>1, <3>1
    <2>4. CASE ~f
      <3>1. Return(r, FALSE)
        BY <2>1, <2>4 DEF Return
      <3> QED
        BY <1>2, <2>1, <2>2, <2>4, <3>1
    <2> QED
      BY <2>3, <2>4
  <1>5. CASE Finish(r)
    BY <1>1, <1>5, FinishKeeps
  <1>6. CASE Exit(r)
    BY <1>1, <1>6, ExitKeeps
  <1>7. CASE EnterCollective(r) \/ LeaveCollective(r) \/ StartGets(r) \/ FinishGets(r)
    <2>1. Now(r).op \in {"fence", "await", "get"}
      BY <1>7 DEF EnterCollective, LeaveCollective, StartGets, FinishGets, Doing
    <2>2. \E f : Return(r, f)
      BY <1>7 DEF EnterCollective, LeaveCollective, StartGets, FinishGets
    <2> QED
      BY <1>3, <2>1, <2>2
  <1>8. CASE StartCall(r) \/ FinishCall(r) \/ RegisterHandler(r) \/ WaitUntilNotified(r)
    <2>1. Now(r).op \in {"ask", "await", "register", "completed"}
      BY <1>8 DEF StartCall, FinishCall, RegisterHandler, WaitUntilNotified, Doing
    <2>2. \E f : Return(r, f)
      BY <1>8 DEF StartCall, FinishCall, RegisterHandler, WaitUntilNotified
    <2> QED
      BY <1>3, <2>1, <2>2
  <1>9. CASE Put(r) \/ CallAbort(r) \/ WaitUntilTimeout(r)
    <2>1. Now(r).op \in {"commit", "abort", "expire"}
      BY <1>9 DEF Put, CallAbort, WaitUntilTimeout, Doing
    <2>2. \E f : Return(r, f)
      BY <1>9 DEF Put, CallAbort, WaitUntilTimeout
    <2> QED
      BY <1>3, <2>1, <2>2
  <1>10. CASE PublishKeys(r) \/ LookupKey(r) \/ UnpublishKeys(r)
    <2>1. Now(r).op \in {"publish", "lookup", "unpublish"}
      BY <1>10 DEF PublishKeys, LookupKey, UnpublishKeys, Doing
    <2>2. \E f : Return(r, f)
      BY <1>10 DEF PublishKeys, LookupKey, UnpublishKeys
    <2> QED
      BY <1>3, <2>1, <2>2
  <1> QED
    BY <1>4, <1>5, <1>6, <1>7, <1>8, <1>9, <1>10 DEF GoOn, Show

LEMMA UnchangedKeeps ==
  ASSUME FailureInv, UNCHANGED <<program, process>>
  PROVE  FailureInv'
  <1>1. UNCHANGED <<prog, text, pc, status, rc, ret, seen>>
    BY DEF program, process
  <1>2. \A r, at : (Overwritten(r, at)' <=> Overwritten(r, at)) /\ (Ignored(r, at)' <=> Ignored(r, at))
    BY <1>1 DEF Overwritten, Ignored, At
  <1>3. \A r, at : Followed(r, at)' <=> Followed(r, at)
    BY <1>1, <1>2 DEF Followed, At
  <1>4. \A r : RankOK(r)' <=> RankOK(r)
    BY <1>1, <1>2, <1>3 DEF RankOK
  <1> QED
    BY <1>1, <1>4 DEF FailureInv, ProcessType

LEMMA NextFailure == FailureInv /\ [Next]_vars => FailureInv'
  <1> SUFFICES ASSUME FailureInv, [Next]_vars PROVE FailureInv'
    OBVIOUS
  <1>1. CASE UNCHANGED <<program, process>>
    BY <1>1, UnchangedKeeps
  <1>2. CASE \E r \in Rank : GoOn(r) \/ Show(r)
    <2>1. prog' = prog
      BY <1>2 DEF GoOn, Show, program
    <2> QED
      BY <1>2, <2>1, RankKeeps DEF FailureInv
  <1>3. CASE \E r \in Rank : Reply(r) \/ GetsTimeOut(r) \/ HandlerRegistered(r) \/ Callback(r)
    <2>1. UNCHANGED <<program, process>>
      BY <1>3 DEF Reply, GetsTimeOut, HandlerRegistered, Callback
    <2> QED
      BY <1>1, <2>1
  <1>4. CASE CollectiveCompletes
    <2>1. UNCHANGED <<program, process>>
      BY <1>4 DEF CollectiveCompletes
    <2> QED
      BY <1>1, <2>1
  <1>5. CASE UNCHANGED vars
    BY <1>1, <1>5 DEF vars
  <1> QED
    BY <1>2, <1>3, <1>4, <1>5 DEF Next

(* A failure that a rank of a unit program sees is reported by its exit    *)
(* status, unless it is one of an assertion that is overwritten, or of a   *)
(* fence that is ignored: however many ranks and rounds there are, and     *)
(* whatever the other ranks and the library do.                            *)
THEOREM FailureIsReported == Spec => []FailureReported
  <1>1. FailureInv => FailureReported
    BY DEF FailureInv, RankOK, FailureReported
  <1> QED
    BY <1>1, InitFailure, NextFailure, PTL DEF Spec
=============================================================================
