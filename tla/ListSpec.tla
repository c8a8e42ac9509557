---- MODULE ListSpec ----
(***************************************************************************)
(* What the callers of unit_list are promised: lists are sequences of      *)
(* items, an item is on one list at most, and each call does to the        *)
(* sequences what its name says.                                           *)
(***************************************************************************)
EXTENDS Naturals, SequencesExt

CONSTANTS Lists, Rank

VARIABLE contents

OnNoList(i) == \A l \in Lists : ~Contains(contents[l], i)

Become(l, s) == contents' = [contents EXCEPT ![l] = s]

\* s with t put in front of pos; pos stands for the end when it is not in s.
PutBefore(s, pos, t) ==
  LET k == IF Contains(s, pos) THEN CHOOSE k \in DOMAIN s : s[k] = pos ELSE Len(s) + 1
  IN  SubSeq(s, 1, k - 1) \o t \o SubSeq(s, k, Len(s))

Appended(l, i) == OnNoList(i) /\ Become(l, Append(contents[l], i))

Prepended(l, i) == OnNoList(i) /\ Become(l, <<i>> \o contents[l])

InsertedBefore(l, pos, i) == OnNoList(i) /\ Become(l, PutBefore(contents[l], pos, <<i>>))

InsertedAt(l, i, idx) ==
  /\ OnNoList(i) /\ idx < Len(contents[l])
  /\ Become(l, PutBefore(contents[l], contents[l][idx + 1], <<i>>))

Removed(l, i) ==
  \E k \in DOMAIN contents[l] : contents[l][k] = i /\ Become(l, RemoveAt(contents[l], k))

FirstRemoved(l) == contents[l] # <<>> /\ Become(l, Tail(contents[l]))

LastRemoved(l) == contents[l] # <<>> /\ Become(l, Front(contents[l]))

Joined(l, pos, x) ==
  contents' = [contents EXCEPT ![x] = <<>>, ![l] = PutBefore(@, pos, contents[x])]

\* The items of x from the a-th to the one in front of the b-th move.
Spliced(l, pos, x, a, b) ==
  LET rest == SubSeq(contents[x], 1, a - 1) \o SubSeq(contents[x], b, Len(contents[x]))
      target == IF l = x THEN rest ELSE contents[l]
  IN  contents' = [m \in Lists |->
                     IF m = l THEN PutBefore(target, pos, SubSeq(contents[x], a, b - 1))
                     ELSE IF m = x THEN rest ELSE contents[m]]

Sorted(l) ==
  \E s \in SetToSeqs(ToSet(contents[l])) :
    /\ \A j, k \in DOMAIN s : j < k => Rank[s[j]] <= Rank[s[k]]
    /\ Become(l, s)
====
