---- MODULE MCUnitList ----
(***************************************************************************)
(* Three items for TLC, two of which compare as equal.                     *)
(***************************************************************************)
EXTENDS UnitList, TLC

CONSTANTS i1, i2, i3, l1, l2

MCRank == (i1 :> 1) @@ (i2 :> 2) @@ (i3 :> 2)
\* The second insert at index 0 makes the walk of a third pass the sentinel.
MCMaxFront == (l1 :> 2) @@ (l2 :> 0)
====
