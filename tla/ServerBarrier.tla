---------------------------- MODULE ServerBarrier ----------------------------
(***************************************************************************)
(* The barrier among the test servers of unit/test_server.c.               *)
(*                                                                         *)
(* Server 0 forks the others and is the hub of a star of pipes.  Pipe s    *)
(* (s > 0) is written by server 0 and read by server s, pipe -s is written *)
(* by server s and read by server 0, and pipe 0 is the pipe of server 0 to *)
(* itself, which carries its own request and the response to it.           *)
(*                                                                         *)
(* In each server two threads run: the main thread, which calls            *)
(* server_barrier() and sleeps on the lock of its server_info_t, and the   *)
(* progress thread of the PMIx library, which runs server_read_cb().  A    *)
(* barrier message is a header with size 0, one write() of a few bytes     *)
(* that the pipe keeps whole, so a message here is its command.            *)
(***************************************************************************)
EXTENDS Integers, Sequences, FiniteSets

CONSTANTS
  N,       (* number of test servers, params.nservers                      *)
  Rounds,  (* barriers each server calls                                   *)
  MayFail  (* servers whose initialisation may fail before the first one   *)

ASSUME ServerBarrierAssumption ==
  /\ N \in Nat \ {0}
  /\ Rounds \in Nat
  /\ MayFail \subseteq 1 .. N - 1

Servers == 0 .. N - 1
Pipes == 1 - N .. N - 1
Cmd == {"BARRIER_REQUEST", "BARRIER_RESPONSE"}

VARIABLES
  pc,       (* pc[s]: where the main thread of s is: "run" between calls,  *)
            (* "send" in server_barrier before server_send_msg, "wait" in  *)
            (* PMIX_WAIT_THREAD, "failed" when server_init gave up         *)
  round,    (* round[s]: calls of server_barrier that have returned in s   *)
  active,   (* active[s]: lock.active of the server_info_t s waits on      *)
  pipe,     (* pipe[p]: the commands written to p and not yet read         *)
  cnt,      (* barrier_cnt, the static counter of server 0                 *)
  bcast     (* the next server the loop of server 0 responds to, -1 when   *)
            (* its progress thread is not in that loop                     *)

vars == <<pc, round, active, pipe, cnt, bcast>>

TypeOK ==
  /\ pc \in [Servers -> {"run", "send", "wait", "failed"}]
  /\ round \in [Servers -> 0 .. Rounds]
  /\ active \in [Servers -> BOOLEAN]
  /\ pipe \in [Pipes -> Seq(Cmd)]
  /\ cnt \in 0 .. N - 1
  /\ bcast \in -1 .. N - 1

Init ==
  /\ pc = [s \in Servers |-> "run"]
  /\ round = [s \in Servers |-> 0]
  /\ active = [s \in Servers |-> FALSE]
  /\ pipe = [p \in Pipes |-> <<>>]
  /\ cnt = 0
  /\ bcast = -1

(* server_send_msg from s to server 0, and from server 0 to s.             *)
ToRoot(s) == -s
FromRoot(s) == s

Write(p, cmd) == pipe' = [pipe EXCEPT ![p] = Append(@, cmd)]

(* The progress thread that reads pipe p finds cmd at its head.            *)
Reads(p, cmd) ==
  /\ pipe[p] # <<>>
  /\ Head(pipe[p]) = cmd
  /\ pipe' = [pipe EXCEPT ![p] = Tail(@)]

-----------------------------------------------------------------------------
(* Main thread of server s.                                                *)

(* server_barrier: the lock is armed before the request is written.        *)
BarrierCall(s) ==
  /\ pc[s] = "run"
  /\ round[s] < Rounds
  /\ pc' = [pc EXCEPT ![s] = "send"]
  /\ active' = [active EXCEPT ![s] = TRUE]
  /\ UNCHANGED <<round, pipe, cnt, bcast>>

BarrierSend(s) ==
  /\ pc[s] = "send"
  /\ Write(ToRoot(s), "BARRIER_REQUEST")
  /\ pc' = [pc EXCEPT ![s] = "wait"]
  /\ UNCHANGED <<round, active, cnt, bcast>>

(* PMIX_WAIT_THREAD returns when the lock is no longer active.             *)
BarrierReturn(s) ==
  /\ pc[s] = "wait"
  /\ ~active[s]
  /\ pc' = [pc EXCEPT ![s] = "run"]
  /\ round' = [round EXCEPT ![s] = @ + 1]
  /\ UNCHANGED <<active, pipe, cnt, bcast>>

(* server_init returns an error before its server_barrier and the process  *)
(* leaves main().                                                          *)
InitFails(s) ==
  /\ s \in MayFail
  /\ pc[s] = "run"
  /\ round[s] = 0
  /\ pc' = [pc EXCEPT ![s] = "failed"]
  /\ UNCHANGED <<round, active, pipe, cnt, bcast>>

-----------------------------------------------------------------------------
(* Progress thread: server_read_cb.                                        *)

(* The request that makes barrier_cnt reach the size of server_list.       *)
CompletesEarly(c) == c + 2 >= N
Completes(c) == c + 1 = N

(* barrier_cnt after a request: back to 0 when the round is complete.      *)
CountNoReset(c) == c + 1
Count(c) == IF Completes(c) THEN 0 ELSE c + 1

(* Server 0 reads the request of s; the last one of the round starts the   *)
(* responses.                                                              *)
ReadRequest(s) ==
  /\ bcast = -1
  /\ Reads(ToRoot(s), "BARRIER_REQUEST")
  /\ cnt' = Count(cnt)
  /\ bcast' = IF Completes(cnt) THEN N - 1 ELSE -1
  /\ UNCHANGED <<pc, round, active>>

(* The loop over server_list, which holds N-1, ..., 1, 0 in that order.    *)
NextToAnswerSkips(s) == IF s > 1 THEN s - 2 ELSE -1
NextToAnswer(s) == s - 1

Respond ==
  /\ bcast >= 0
  /\ Write(FromRoot(bcast), "BARRIER_RESPONSE")
  /\ bcast' = NextToAnswer(bcast)
  /\ UNCHANGED <<pc, round, active, cnt>>

(* PMIX_WAKEUP_THREAD on the lock of the server the response came from.    *)
ReadResponse(s) ==
  /\ s = 0 => bcast = -1
  /\ Reads(FromRoot(s), "BARRIER_RESPONSE")
  /\ active' = [active EXCEPT ![s] = FALSE]
  /\ UNCHANGED <<pc, round, cnt, bcast>>

-----------------------------------------------------------------------------
Main(s) == BarrierCall(s) \/ BarrierSend(s) \/ BarrierReturn(s)

(* The one progress thread of server 0 answers, and reads every pipe but   *)
(* those it only writes; that of s > 0 reads one pipe.                     *)
RootProgress ==
  \/ Respond
  \/ ReadResponse(0)
  \/ \E s \in Servers : ReadRequest(s)

Next ==
  \/ \E s \in Servers : Main(s) \/ InitFails(s)
  \/ RootProgress
  \/ \E s \in Servers \ {0} : ReadResponse(s)

(* The kernel schedules every thread, and libevent serves a readable pipe. *)
(* Calling a barrier is up to the main program and is not fair.            *)
Fairness ==
  /\ WF_vars(RootProgress)
  /\ \A s \in Servers \ {0} : WF_vars(ReadResponse(s))
  /\ \A s \in Servers : WF_vars(BarrierSend(s)) /\ WF_vars(BarrierReturn(s))

Spec == Init /\ [][Next]_vars /\ Fairness

-----------------------------------------------------------------------------
(* Calls of server_barrier that server s has made.                         *)
Calls(s) == IF pc[s] \in {"send", "wait"} THEN round[s] + 1 ELSE round[s]

(* No call of server_barrier returns in any server before every server has *)
(* made the call of that round: no server launches clients before the      *)
(* others are up, and none shuts down before the others are finished.      *)
BarrierSafety == \A s, t \in Servers : round[s] <= Calls(t)

(* The request of s is in its pipe; the response to s is still to be       *)
(* written or is in its pipe; s sleeps and the hub has counted its request.*)
Requested(s) == pipe[ToRoot(s)] = <<"BARRIER_REQUEST">>
Answered(s) == bcast >= s \/ pipe[FromRoot(s)] = <<"BARRIER_RESPONSE">>
Counted == {s \in Servers : /\ pc[s] = "wait"
                            /\ active[s]
                            /\ ~Requested(s)
                            /\ ~Answered(s)}

(* barrier_cnt counts exactly the servers that sleep in server_barrier and *)
(* have neither a request nor a response under way: server_read_cb neither *)
(* loses the wakeup of a server nor counts one server for another, from    *)
(* one barrier to the next.                                                *)
CounterIsExact == cnt = Cardinality(Counted)

(* The barrier of test_server.c, seen from its callers, is a barrier.      *)
B == INSTANCE Barrier WITH
       entered <- [s \in Servers |-> Calls(s)],
       left <- round
ImplementsBarrier == B!Spec
=============================================================================
