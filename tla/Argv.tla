-------------------------------- MODULE Argv --------------------------------
(***************************************************************************)
(* The argument vectors of unit/argv.c, cell by cell: an array of pointers *)
(* to strings of its own that ends with a NULL.  Memory does not run out.  *)
(***************************************************************************)
EXTENDS Integers, SequencesExt

CONSTANTS
  Delimiter,    (* a character                                             *)
  Arguments,    (* the strings that are added: sequences of characters     *)
  Strings,      (* the strings that are split                              *)
  MaxCount      (* bound: no more elements than this                       *)

Alphabet == UNION {{w[i] : i \in DOMAIN w} : w \in Arguments \cup Strings}
Word == Seq(Alphabet)

ASSUME ArgvAssumption ==
  /\ MaxCount \in Nat
  /\ Arguments \subseteq Word /\ Strings \subseteq Word
  /\ \A arg \in Arguments : \A i \in DOMAIN arg : arg[i] # Delimiter

VARIABLES
  argv,         (* the array, from 0 on; without cells when it is NULL     *)
  heap,         (* the strings that are allocated, by their address        *)
  argc          (* what the last call has made of the right count          *)

vars == <<argv, heap, argc>>

Null == 0
Junk == -1                                  (* not initialized             *)
NoArray == <<>>
Overrun == [i \in {-1} |-> Junk]            (* memory of others is written *)

-----------------------------------------------------------------------------
(* Memory.                                                                 *)

Realloc(cells, n) == [i \in 0 .. n - 1 |-> IF i \in DOMAIN cells THEN cells[i] ELSE Junk]
Load(cells, i) == IF i \in DOMAIN cells THEN cells[i] ELSE Junk
Store(cells, i, p) == IF i \in DOMAIN cells THEN [cells EXCEPT ![i] = p] ELSE Overrun

(* for (i in is) cells[i] = cells[i - d].  A loop is a function of the     *)
(* number of its rounds.                                                   *)
Up(a, b) == [k \in 1 .. b - a + 1 |-> a + k - 1]
Down(a, b) == [k \in 1 .. a - b + 1 |-> a - k + 1]
MoveOne(cells, i, d) == Store(cells, i, Load(cells, i - d))
Move(cells, is, d) ==
  LET after[k \in 0 .. Len(is)] == IF k = 0 THEN cells ELSE MoveOne(after[k - 1], is[k], d)
  IN  after[Len(is)]

(* An argument vector m, m.argv with its strings in m.heap.                *)
Vector == [argv |-> argv, heap |-> heap]

(* pmix_argv_count.                                                        *)
Count(m) == Cardinality({i \in DOMAIN m.argv : \A j \in 0 .. i : Load(m.argv, j) # Null})
Elements(m) == [k \in 1 .. Count(m) |-> m.heap[m.argv[k - 1]]]

(* m.argv[i] = strdup(arg)                                                 *)
Strdup(m, i, arg) ==
  LET p == CHOOSE p \in 1 .. Cardinality(DOMAIN m.heap) + 1 : p \notin DOMAIN m.heap
  IN  [argv |-> Store(m.argv, i, p),
       heap |-> [q \in DOMAIN m.heap \cup {p} |-> IF q = p THEN arg ELSE m.heap[q]]]

(* for (i = start; i < start + Len(source); ++i) ...                       *)
StrdupAll(m, start, source) ==
  LET after[k \in 0 .. Len(source)] == IF k = 0 THEN m ELSE Strdup(after[k - 1], start + k - 1, source[k])
  IN  after[Len(source)]

Freed(h, cells, is) == [p \in DOMAIN h \ {Load(cells, i) : i \in is} |-> h[p]]

-----------------------------------------------------------------------------
(* The functions of argv.c that change a vector.                           *)

AppendNosize(m, arg) ==
  LET c == Realloc(m.argv, Count(m) + 2)
  IN  Strdup([m EXCEPT !.argv = Store(c, Count(m) + 1, Null)], Count(m), arg)

PrependNosize(m, arg) ==
  LET c == Store(Realloc(m.argv, Count(m) + 2), Count(m) + 1, Null)
  IN  Strdup([m EXCEPT !.argv = Move(c, Down(Count(m), 1), 1)], 0, arg)

AppendUnique(m, arg) == IF Contains(Elements(m), arg) THEN m ELSE AppendNosize(m, arg)

AppendAll(m, args) ==
  LET after[k \in 0 .. Len(args)] == IF k = 0 THEN m ELSE AppendNosize(after[k - 1], args[k])
  IN  after[Len(args)]

Free(m) == [argv |-> NoArray, heap |-> Freed(m.heap, m.argv, 0 .. Count(m) - 1)]

(* The copy; the caller drops the original.                                *)
Copy(m) == AppendAll([argv |-> [i \in {0} |-> Null], heap |-> m.heap], Elements(m))

Delete(m, start, num) ==
  LET left == IF Count(m) < start + num THEN 0 ELSE Count(m) - (start + num)
      c == Move(m.argv, Up(start, start + left - 1), -num)
  IN  [argv |-> Realloc(Store(c, start + left, Null), start + left + 1),
       heap |-> Freed(m.heap, m.argv, {i \in start .. start + num - 1 : i < Count(m)})]

(* The same code is in pmix_argv_insert and, for a source of one element,  *)
(* in pmix_argv_insert_element.                                            *)
InsertShort(m, start, source) ==
  LET n == Len(source)
      end == Count(m) + n
      c == Move(Realloc(m.argv, end), Down(end - 1, start + n), n)
  IN  StrdupAll([m EXCEPT !.argv = Store(c, end, Null)], start, source)
InsertInto(m, start, source) ==
  LET n == Len(source)
      end == Count(m) + n
      c == Move(Realloc(m.argv, end + 1), Down(end - 1, start + n), n)
  IN  StrdupAll([m EXCEPT !.argv = Store(c, end, Null)], start, source)
InsertArgvEarly(m, start, source) ==
  IF start + 1 >= Count(m) THEN AppendAll(m, source) ELSE InsertInto(m, start, source)
InsertArgv(m, start, source) ==
  IF start > Count(m) THEN AppendAll(m, source) ELSE InsertInto(m, start, source)

-----------------------------------------------------------------------------
(* Strings.  The pieces of a string, between its delimiters: an empty one  *)
(* at the end is not looked at, and another one only when it is included.  *)

Piece(ps, ch) ==
  IF ch = Delimiter THEN Append(ps, <<>>) ELSE [ps EXCEPT ![Len(ps)] = Append(@, ch)]
Pieces(string) ==
  LET after[k \in 0 .. Len(string)] == IF k = 0 THEN <<<<>>>> ELSE Piece(after[k - 1], string[k])
  IN  after[Len(string)]
Keep(kept, p) == IF p = <<>> THEN kept ELSE Append(kept, p)
NonEmpty(ps) ==
  LET after[k \in 0 .. Len(ps)] == IF k = 0 THEN <<>> ELSE Keep(after[k - 1], ps[k])
  IN  after[Len(ps)]

SplitInter(m, string, include_empty) ==
  LET ps == Pieces(string)
      seen == IF Last(ps) = <<>> THEN Front(ps) ELSE ps
  IN  AppendAll(m, IF include_empty THEN seen ELSE NonEmpty(seen))

(* Each element and a delimiter, and a '\0' in place of the last one.  An  *)
(* empty range would begin with str[-1] = '\0'.                            *)
Filled(args) ==
  LET all == FlattenSeq([k \in DOMAIN args |-> Append(args[k], Delimiter)])
  IN  SubSeq(all, 1, Len(all) - 1)
JoinDelimiterLast(args) == FlattenSeq([k \in DOMAIN args |-> Append(args[k], Delimiter)])
Join(args) == Filled(args)
JoinRange(args, start, end) ==
  IF args = <<>> \/ start > Len(args) THEN <<>>
  ELSE Filled(SubSeq(args, start + 1, IF end < Len(args) THEN end ELSE Len(args)))

-----------------------------------------------------------------------------
Init == argv = NoArray /\ heap = <<>> /\ argc = 0

Becomes(m, n) ==
  /\ Count(m) <= MaxCount
  /\ argv' = m.argv /\ heap' = m.heap /\ argc' = n

pmix_argv_append(arg) == LET m == AppendNosize(Vector, arg) IN Becomes(m, Count(m))
pmix_argv_prepend_nosize(arg) == LET m == PrependNosize(Vector, arg) IN Becomes(m, Count(m))
pmix_argv_append_unique(arg) == LET m == AppendUnique(Vector, arg) IN Becomes(m, Count(m))
pmix_argv_free == Becomes(Free(Vector), 0)
pmix_argv_split(string, include_empty) ==
  /\ argv = NoArray
  /\ LET m == SplitInter(Vector, string, include_empty) IN Becomes(m, Count(m))

pmix_argv_copy ==
  /\ argv # NoArray
  /\ LET m == Copy(Vector)
     IN  Becomes([m EXCEPT !.heap = Freed(@, argv, 0 .. Count(Vector) - 1)], Count(m))

pmix_argv_delete(start, num) ==
  /\ argv # NoArray /\ num # 0 /\ start <= Count(Vector)
  /\ Becomes(Delete(Vector, start, num), Count(Vector) - num)

pmix_argv_insert(start, source) ==
  /\ argv # NoArray
  /\ LET m == InsertArgv(Vector, start, source) IN Becomes(m, Count(m))

Next ==
  \/ \E arg \in Arguments :
       \/ pmix_argv_append(arg) \/ pmix_argv_prepend_nosize(arg) \/ pmix_argv_append_unique(arg)
       \/ \E start \in 0 .. MaxCount + 1 : \E more \in {<<>>} \cup {<<a>> : a \in Arguments} :
            pmix_argv_insert(start, <<arg>> \o more)
  \/ \E start \in 0 .. MaxCount, num \in 0 .. MaxCount : pmix_argv_delete(start, num)
  \/ \E string \in Strings, include_empty \in BOOLEAN : pmix_argv_split(string, include_empty)
  \/ pmix_argv_free \/ pmix_argv_copy

Spec == Init /\ [][Next]_vars

-----------------------------------------------------------------------------
(* Owned: the array ends with its only NULL, and its other cells are each  *)
(* the one owner of a string; every string has an owner.  So no call reads *)
(* what is not initialized, writes behind the end, frees twice or leaks.   *)
Owned ==
  argv # NoArray =>
    LET n == Cardinality(DOMAIN argv) - 1 IN
      /\ DOMAIN argv = 0 .. n
      /\ \A i \in 0 .. n : argv[i] = Null <=> i = n
      /\ \A i \in 0 .. n - 1 : argv[i] \in DOMAIN heap
      /\ \A i, j \in 0 .. n - 1 : argv[i] = argv[j] => i = j
      /\ Cardinality(DOMAIN heap) = n
NothingLeft == argv = NoArray => heap = <<>>
MemorySafe == Owned /\ NothingLeft

(* SplitUndoesJoin: to split what has been joined gives the same elements  *)
(* again, but for the empty ones, or for an empty one at the end.          *)
SplitUndoesJoin ==
  LET args == Elements(Vector)
      split(include_empty) == Elements(SplitInter([argv |-> NoArray, heap |-> <<>>], Join(args), include_empty))
  IN
  /\ split(FALSE) = NonEmpty(args)
  /\ split(TRUE) = IF args # <<>> /\ Last(args) = <<>> THEN Front(args) ELSE args
  /\ \A start, end \in 0 .. Len(args) :
       start < end => JoinRange(args, start, end) = Join(SubSeq(args, start + 1, end))

(* Contract: what each call makes of the elements (argv.h), and the count. *)
Args == Elements(Vector)
Grows(from, added) ==
  Args' = SubSeq(Args, 1, from) \o added \o SubSeq(Args, from + 1, Len(Args)) /\ argc' = Len(Args')
Contract ==
  [][/\ \A arg \in Arguments :
          /\ pmix_argv_append(arg) => Grows(Len(Args), <<arg>>)
          /\ pmix_argv_prepend_nosize(arg) => Grows(0, <<arg>>)
          /\ pmix_argv_append_unique(arg) => Grows(Len(Args), IF Contains(Args, arg) THEN <<>> ELSE <<arg>>)
     /\ pmix_argv_copy => Grows(0, <<>>)
     /\ \A start \in 0 .. MaxCount + 1, a, b \in Arguments :
          pmix_argv_insert(start, <<a, b>>) => Grows(IF start < Len(Args) THEN start ELSE Len(Args), <<a, b>>)
     /\ \A start, num \in 0 .. MaxCount :
          pmix_argv_delete(start, num) =>
            /\ Args' = SubSeq(Args, 1, start) \o SubSeq(Args, start + num + 1, Len(Args))
            /\ start + num <= Len(Args) => argc' = Len(Args')]_vars

(* ArgcRight: after a call *argc is the number of elements.                *)
ArgcRight == argc = Count(Vector)
=============================================================================
