---------------------------- MODULE MCSimpTest ----------------------------
(***************************************************************************)
(* Exit statuses: the clients with an odd rank fail, each with a status of *)
(* its own.                                                                *)
(***************************************************************************)
EXTENDS SimpTest

OddFail == [c \in Client |-> IF c % 2 = 1 THEN c ELSE 0]
=============================================================================
