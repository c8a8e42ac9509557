---- MODULE UnitList ----
(***************************************************************************)
(* The doubly linked list of unit/unit_list.[ch], pointer by pointer. A    *)
(* list is its own sentinel: it is a node like the items, and next and     *)
(* prev of a list are the fields of unit_list_sentinel.                    *)
(***************************************************************************)
EXTENDS Integers, Sequences, FiniteSets

CONSTANTS Items, Lists, Null,
          Rank,     \* what the compare function of a sort looks at
          MaxFront  \* bound: inserts at index 0 on each list

ASSUME UnitListAssumption ==
  /\ Items \cap Lists = {} /\ Null \notin Items \cup Lists
  /\ IsFiniteSet(Items) /\ Rank \in [Items -> Nat] /\ MaxFront \in [Lists -> Nat]

Nodes == Items \cup Lists

VARIABLES next, prev,   \* unit_list_next, unit_list_prev
          owner,        \* unit_list_item_belong_to
          on,           \* unit_list_item_refcount: on how many lists
          length,       \* unit_list_length
          loop,         \* a UNIT_LIST_FOREACH_SAFE under way, or Null
          front,        \* history: inserts at index 0 on each list
          lost          \* lists whose sentinel a call took for an item

chain == <<next, prev, owner, on, length>>
vars == <<next, prev, owner, on, length, loop, front, lost>>

Loops == [list : Lists, item : Nodes \cup {Null}, after : Nodes \cup {Null},
          start : Seq(Items), seen : Seq(Items)]

TypeOK ==
  /\ next \in [Nodes -> Nodes \cup {Null}] /\ prev \in [Nodes -> Nodes \cup {Null}]
  /\ owner \in [Nodes -> Lists \cup {Null}] /\ on \in [Nodes -> Nat]
  /\ length \in [Lists -> Nat]
  /\ loop \in Loops \cup {Null}
  /\ front \in [Lists -> Nat] /\ lost \subseteq Lists

Init ==
  /\ next = [n \in Nodes |-> IF n \in Lists THEN n ELSE Null]
  /\ prev = next
  /\ owner = [n \in Nodes |-> IF n \in Lists THEN n ELSE Null]
  /\ on = [n \in Nodes |-> IF n \in Lists THEN 1 ELSE 0]
  /\ length = [l \in Lists |-> 0]
  /\ loop = Null
  /\ front = [l \in Lists |-> 0] /\ lost = {}

----
\* The k-th node on the way from one node along the pointers f.
Walk(f, from) ==
  LET walk[k \in Nat] == IF k = 0 THEN from
                         ELSE IF walk[k - 1] = Null THEN Null ELSE f[walk[k - 1]]
  IN  walk

\* The nodes on the way from one node along the pointers f up to another one,
\* without the last; cut off where there are more than there can be.
Path(f, from, to) ==
  LET walk == Walk(f, from)
      Bound == Cardinality(Items) + 1
      n == IF \E k \in 0 .. Bound : walk[k] = to
           THEN CHOOSE k \in 0 .. Bound : walk[k] = to /\ \A j \in 0 .. k - 1 : walk[j] # to
           ELSE Bound
  IN  [k \in 1 .. n |-> walk[k - 1]]

Forward(l) == Path(next, next[l], l)

OnPath(path, n) == \E k \in DOMAIN path : path[k] = n

----
Grow(l) == length' = [length EXCEPT ![l] = @ + 1]
\* Mutant: an item that leaves is not counted.
ShrinkForgotten(l) == UNCHANGED length
Shrink(l) == length' = [length EXCEPT ![l] = @ - 1]

Attach(l, i) == on' = [on EXCEPT ![i] = @ + 1] /\ owner' = [owner EXCEPT ![i] = l]
Detach(i) == on' = [on EXCEPT ![i] = @ - 1] /\ owner' = [owner EXCEPT ![i] = Null]

\* Puts i in front of the node pos, in the order of the assignments.
LinkBefore(pos, i) ==
  /\ next' = [next EXCEPT ![i] = pos, ![prev[pos]] = i]
  /\ prev' = [prev EXCEPT ![i] = prev[pos], ![pos] = i]

LinkAfter(pos, i) ==
  /\ next' = [next EXCEPT ![i] = next[pos], ![pos] = i]
  /\ prev' = [prev EXCEPT ![i] = pos, ![next[pos]] = i]

Unlinked(f, g, i) == [f EXCEPT ![g[i]] = f[i]]

\* The caller puts an item on a list that is on none.
Free(i) == on[i] = 0

AppendItem(l, i) == Free(i) /\ LinkBefore(l, i) /\ Grow(l) /\ Attach(l, i)

Prepend(l, i) == Free(i) /\ LinkAfter(l, i) /\ Grow(l) /\ Attach(l, i)

\* Mutant: behind pos and not in front of it.
InsertPosBehind(l, pos, i) ==
  /\ Free(i) /\ (pos = l \/ OnPath(Forward(l), pos))
  /\ LinkAfter(pos, i) /\ Grow(l) /\ Attach(l, i)
InsertPos(l, pos, i) ==
  /\ Free(i) /\ (pos = l \/ OnPath(Forward(l), pos))
  /\ LinkBefore(pos, i) /\ Grow(l) /\ Attach(l, i)

\* Returns false and does nothing when idx is not below the counter. The walk
\* takes its steps round the ring of the sentinel and the items, past the end
\* where the counter is too high; and at index 0 the call of unit_list_prepend
\* has counted the item already.
Insert(l, i, idx) ==
  LET ring == <<l>> \o Forward(l) IN
  /\ Free(i) /\ idx < length[l]
  /\ LinkAfter(ring[1 + (idx % Len(ring))], i) /\ Attach(l, i)
  /\ IF idx = 0
     THEN /\ front[l] < MaxFront[l]
          /\ length' = [length EXCEPT ![l] = @ + 2]
          /\ front' = [front EXCEPT ![l] = @ + 1]
     ELSE Grow(l) /\ UNCHANGED front

\* The pointers of i itself stay what they were. An item that is not on the
\* list is reported and left alone.
RemoveItem(l, i) ==
  /\ OnPath(Forward(l), i)
  /\ next' = Unlinked(next, prev, i) /\ prev' = Unlinked(prev, next, i)
  /\ Shrink(l) /\ Detach(i)

RemoveFirst(l) ==
  LET i == next[l] IN
  /\ length[l] # 0 /\ i # l
  /\ next' = [next EXCEPT ![l] = next[i], ![i] = Null]
  /\ prev' = [prev EXCEPT ![next[i]] = prev[i], ![i] = Null]
  /\ Shrink(l) /\ Detach(i)

RemoveLast(l) ==
  LET i == prev[l] IN
  /\ length[l] # 0 /\ i # l
  /\ next' = [next EXCEPT ![prev[i]] = next[i], ![i] = Null]
  /\ prev' = [prev EXCEPT ![l] = prev[i], ![i] = Null]
  /\ Shrink(l) /\ Detach(i)

\* unit_list_transfer: the nodes from begin to the one in front of end go in
\* front of pos.
NextMoved(pos, begin, end) ==
  [next EXCEPT ![prev[end]] = pos, ![prev[begin]] = end, ![prev[pos]] = begin]

\* Mutant: pos->prev is overwritten before begin takes it over.
PrevMovedNoTmp(pos, begin, end) ==
  [prev EXCEPT ![pos] = prev[end], ![end] = prev[begin], ![begin] = prev[end]]
PrevMoved(pos, begin, end) ==
  [prev EXCEPT ![pos] = prev[end], ![end] = prev[begin], ![begin] = prev[pos]]

Transfer(pos, begin, end) ==
  /\ pos # end
  /\ next' = NextMoved(pos, begin, end) /\ prev' = PrevMoved(pos, begin, end)
  /\ owner' = [n \in Nodes |-> IF OnPath(Path(next', begin, pos), n) THEN owner[pos] ELSE owner[n]]
  /\ UNCHANGED on

Join(l, pos, x) ==
  /\ l # x /\ length[x] # 0 /\ length[x] = Len(Forward(x))
  /\ (pos = l \/ OnPath(Forward(l), pos))
  /\ Transfer(pos, next[x], x)
  /\ length' = [length EXCEPT ![l] = @ + length[x], ![x] = 0]

\* The items from the a-th of x to the one in front of the b-th (or of the end).
Splice(l, pos, x, a, b) ==
  LET from == Forward(x)
      end == IF b > Len(from) THEN x ELSE from[b]
  IN
  /\ 0 < a /\ a < b /\ b <= Len(from) + 1
  /\ pos = l \/ OnPath(Forward(l), pos)
  /\ ~OnPath(SubSeq(from, a, b - 1), pos)
  /\ Transfer(pos, from[a], end)
  /\ length' = [m \in Lists |-> length[m] + (IF m = l THEN b - a ELSE 0) - (IF m = x THEN b - a ELSE 0)]

\* Takes all items off, sorts the array, and appends them again; qsort leaves
\* the order of equal items open.
Sort(l) ==
  LET size == Len(Forward(l)) IN
  /\ length[l] # 0 /\ length[l] = size
  /\ \E s \in [1 .. size -> {i \in Items : OnPath(Forward(l), i)}] :
       /\ \A j, k \in 1 .. size : j < k => s[j] # s[k] /\ Rank[s[j]] <= Rank[s[k]]
       /\ next' = [n \in Nodes |-> IF n = l THEN s[1]
                    ELSE IF \E k \in 1 .. size : s[k] = n
                    THEN LET k == CHOOSE k \in 1 .. size : s[k] = n
                         IN  IF k = size THEN l ELSE s[k + 1]
                    ELSE next[n]]
       /\ prev' = [n \in Nodes |-> IF n = l THEN s[size]
                    ELSE IF \E k \in 1 .. size : s[k] = n
                    THEN LET k == CHOOSE k \in 1 .. size : s[k] = n
                         IN  IF k = 1 THEN l ELSE s[k - 1]
                    ELSE prev[n]]
  /\ UNCHANGED <<owner, on, length>>

\* The counter of a list is too high. When the list is empty, remove_first and
\* remove_last, and with them the loop of sort, take the sentinel for an item and
\* leave the list with NULL pointers, which every later call reads through.
SentinelTaken(l) ==
  /\ length[l] > Len(Forward(l))
  /\ lost' = lost \cup {l}
  /\ UNCHANGED <<chain, front>>

\* unit_list_get_size, which join calls, aborts the program.
SizeAborts(l) ==
  /\ length[l] # Len(Forward(l))
  /\ lost' = Lists
  /\ UNCHANGED <<chain, front>>

Calls(l) ==
  \/ \E i \in Items : AppendItem(l, i) \/ Prepend(l, i) \/ RemoveItem(l, i)
  \/ \E i \in Items, pos \in Nodes : InsertPos(l, pos, i)
  \/ RemoveFirst(l) \/ RemoveLast(l) \/ Sort(l)
  \/ \E pos \in Nodes, x \in Lists \ lost : Join(l, pos, x)
  \/ \E pos \in Nodes, x \in Lists \ lost, a, b \in 1 .. Cardinality(Items) + 1 : Splice(l, pos, x, a, b)

----
\* UNIT_LIST_FOREACH_SAFE with the bodies it has in test_fence.c and
\* server_callbacks.c: the current item is taken off, new items are appended.
LoopStarts(l) ==
  /\ loop = Null
  /\ loop' = [list |-> l, item |-> next[l], after |-> next[next[l]], start |-> Forward(l),
              seen |-> IF next[l] = l THEN <<>> ELSE <<next[l]>>]
  /\ UNCHANGED <<chain, front, lost>>

BodyRemoves == RemoveItem(loop.list, loop.item) /\ UNCHANGED <<loop, front, lost>>

BodyAppends ==
  /\ loop.item # loop.list
  /\ \E i \in Items : /\ ~OnPath(loop.start \o loop.seen, i)
                      /\ AppendItem(loop.list, i)
  /\ UNCHANGED <<loop, front, lost>>

\* Mutant: the successor is read from the item that is left.
LoopAdvancesSwapped ==
  LET item == loop.after IN
  /\ loop.item # loop.list
  /\ loop' = [loop EXCEPT !.item = item, !.after = next[loop.item],
                          !.seen = IF item = loop.list THEN @ ELSE Append(@, item)]
  /\ UNCHANGED <<chain, front, lost>>
LoopAdvances ==
  LET item == loop.after IN
  /\ loop.item # loop.list
  /\ loop' = [loop EXCEPT !.item = item, !.after = IF item = Null THEN Null ELSE next[item],
                          !.seen = IF item = loop.list THEN @ ELSE Append(@, item)]
  /\ UNCHANGED <<chain, front, lost>>

LoopEnds ==
  /\ loop.item = loop.list
  /\ loop' = Null
  /\ UNCHANGED <<chain, front, lost>>

LoopSteps == loop # Null /\ (BodyRemoves \/ BodyAppends \/ LoopAdvances \/ LoopEnds)

Called(l) ==
  /\ loop = Null /\ UNCHANGED loop
  /\ \/ Calls(l) /\ UNCHANGED <<front, lost>>
     \/ \E i \in Items, idx \in 0 .. length[l] : Insert(l, i, idx) /\ UNCHANGED lost
     \/ SentinelTaken(l) \/ SizeAborts(l)

Next == \/ \E l \in Lists \ lost : Called(l) \/ LoopStarts(l)
        \/ LoopSteps

Spec == Init /\ [][Next]_vars

----
\* Both chains are closed and mirror each other: next and prev of a node that
\* is on a list lead to nodes on a list, and back (unit_list.h, every call).
DoublyLinked ==
  \A n \in Nodes : on[n] = 1 =>
    /\ next[n] \in Nodes /\ on[next[n]] = 1 /\ prev[next[n]] = n
    /\ prev[n] \in Nodes /\ on[prev[n]] = 1 /\ next[prev[n]] = n

\* The asserts of unit_list.h: an item is on one list or on none, and knows
\* which. unit_list_get_size finds as many items as were counted, less one for
\* each insert at index 0; and without such an insert it never aborts, and no
\* call takes the sentinel off.
SpotChecks ==
  /\ \A l \in Lists : length[l] = Len(Forward(l)) + front[l]
  /\ lost # {} => \E l \in Lists : front[l] # 0
  /\ \A i \in Items : \/ on[i] = 0 /\ owner[i] = Null /\ \A l \in Lists : ~OnPath(Forward(l), i)
                      \/ on[i] = 1 /\ \A l \in Lists : OnPath(Forward(l), i) <=> owner[i] = l

\* What unit_list_get_size holds to be true after any calls (unit_list.h:443):
\* inserts at index 0 violate it.
SizeIsCounted == \A l \in Lists : length[l] = Len(Forward(l))

\* A loop whose body takes the current item off or appends new ones comes to
\* every item that was on the list when it began, in order, before any other.
LoopVisitsAll ==
  loop # Null =>
    LET n == Len(loop.start)  m == Len(loop.seen) IN
    /\ \A k \in 1 .. m : k <= n => loop.seen[k] = loop.start[k]
    /\ loop.item = loop.list => n <= m

----
\* A list stands for the sequence of items that is found along its next
\* pointers.
A == INSTANCE ListSpec WITH contents <- [l \in Lists |-> Forward(l)]

\* Every call of unit_list.h and unit_list.c does to the sequences of items what
\* its name says, and leaves the other lists alone; only an insert behind the end
\* of a list that an insert at index 0 has miscounted goes somewhere else.
Contract ==
  [][\A l \in Lists :
       /\ \A i \in Items :
            /\ AppendItem(l, i) => A!Appended(l, i)
            /\ Prepend(l, i) => A!Prepended(l, i)
            /\ RemoveItem(l, i) => A!Removed(l, i)
       /\ \A i \in Items, pos \in Nodes : InsertPos(l, pos, i) => A!InsertedBefore(l, pos, i)
       /\ \A i \in Items, idx \in 0 .. length[l] :
            Insert(l, i, idx) => A!InsertedAt(l, i, idx) \/ (front[l] # 0 /\ idx >= Len(Forward(l)))
       /\ RemoveFirst(l) => A!FirstRemoved(l)
       /\ RemoveLast(l) => A!LastRemoved(l)
       /\ Sort(l) => A!Sorted(l)
       /\ \A pos \in Nodes, x \in Lists : Join(l, pos, x) => A!Joined(l, pos, x)
       /\ \A pos \in Nodes, x \in Lists, a, b \in 1 .. Cardinality(Items) + 1 :
            Splice(l, pos, x, a, b) => A!Spliced(l, pos, x, a, b)]_vars
====
