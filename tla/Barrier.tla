------------------------------- MODULE Barrier -------------------------------
(***************************************************************************)
(* What server_barrier() of unit/test_server.c promises to the main        *)
(* threads of the N test servers: a reusable barrier.  The callers are     *)
(* counted only; how the servers synchronise is in ServerBarrier.          *)
(***************************************************************************)
EXTENDS Naturals

CONSTANTS
  N,        (* number of test servers, params.nservers                     *)
  Rounds    (* barriers each server calls: one in server_init, one in      *)
            (* server_finalize                                             *)

Servers == 0 .. N - 1

VARIABLES
  entered,  (* entered[s]: calls of server_barrier server s has made       *)
  left      (* left[s]: calls of server_barrier that have returned in s    *)

vars == <<entered, left>>

Init ==
  /\ entered = [s \in Servers |-> 0]
  /\ left = [s \in Servers |-> 0]

Enter(s) ==
  /\ entered[s] = left[s]
  /\ entered[s] < Rounds
  /\ entered' = [entered EXCEPT ![s] = @ + 1]
  /\ UNCHANGED left

(* A call returns only when every server has made the call of that round.  *)
Leave(s) ==
  /\ left[s] < entered[s]
  /\ \A t \in Servers : left[s] < entered[t]
  /\ left' = [left EXCEPT ![s] = @ + 1]
  /\ UNCHANGED entered

Next == \E s \in Servers : Enter(s) \/ Leave(s)

Fairness == \A s \in Servers : WF_vars(Leave(s))

Spec == Init /\ [][Next]_vars /\ Fairness

=============================================================================
