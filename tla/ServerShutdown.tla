--------------------------- MODULE ServerShutdown ---------------------------
(***************************************************************************)
(* The end of a run with several test servers: server_finalize() of        *)
(* unit/test_server.c in server 0, once the last barrier is passed, with   *)
(* srv_wait_all() in the main thread and the SIGCHLD handler               *)
(* wait_signal_callback() in the progress thread.  Both call waitpid(-1),  *)
(* and each exit status is given to one of them.  The children of server 0 *)
(* are the other servers and the clients of its own that an abort has left *)
(* running (test_terminated() is true as soon as test_abort is set).       *)
(***************************************************************************)
EXTENDS Naturals, FiniteSets

CONSTANTS
  N,        (* number of test servers                                      *)
  Left,     (* number of clients of server 0 that an abort has left        *)
  Failing   (* children whose exit status is 1, the others exit with 0     *)

Server == 1 .. N - 1
Client == N .. N + Left - 1
Children == Server \cup Client

ASSUME ServerShutdownAssumption ==
  /\ N \in Nat \ {0}
  /\ Left \in Nat
  /\ Failing \subseteq Children

VARIABLES
  pc,       (* main thread: "self", "check", "waitpid", "report", "done"   *)
  list,     (* server_list                                                 *)
  total,    (* total_ret, the failures of server 0 itself left out         *)
  ok,       (* "Test finished OK!" has been printed                        *)
  expired,  (* the timeout of srv_wait_all is over                         *)
  handler,  (* the progress thread is in wait_signal_callback              *)
  sigchld,  (* SIGCHLD is pending                                          *)
  os        (* the children: "running", "zombie", "reaped"                 *)

main == <<pc, list, total, ok>>
progress == <<handler, sigchld>>
vars == <<main, expired, progress, os>>

Init ==
  /\ pc = "self" /\ list = 0 .. N - 1 /\ total = 0 /\ ok = FALSE
  /\ expired = FALSE
  /\ handler = FALSE /\ sigchld = FALSE
  /\ os = [s \in Children |-> "running"]

Zombies == {s \in Children : os[s] = "zombie"}
Status(s) == IF s \in Failing THEN 1 ELSE 0
Goto(to) == pc' = to /\ UNCHANGED <<list, total, ok>>
Reaped(s) == os' = [os EXCEPT ![s] = "reaped"]

-----------------------------------------------------------------------------
(* Main thread of server 0.                                                *)

(* Server 0 is removed from the list it waits for; the first check of the  *)
(* loop is made at the start time.                                         *)
RemoveSelf ==
  /\ pc = "self"
  /\ list' = list \ {0}
  /\ pc' = IF list' = {} THEN "report" ELSE "waitpid"
  /\ UNCHANGED <<total, ok, expired, progress, os>>

KeepsWaitingAlways == list # {}
KeepsWaiting == list # {} /\ ~expired

Check ==
  /\ pc = "check"
  /\ IF KeepsWaiting THEN Goto("waitpid") ELSE Goto("report")
  /\ UNCHANGED <<expired, progress, os>>

(* waitpid(-1, &status, 0) returns a child, which need not be a server ... *)
WaitedUnlisted(s) ==
  /\ list' = list \ {s}
  /\ total' = total + Status(s)
WaitedInOrder(s) ==
  /\ list' = list \ {CHOOSE t \in list : \A u \in list : t <= u}
  /\ total' = total + Status(s)
Waited(s) ==
  /\ list' = list \ {s}
  /\ total' = IF s \in list THEN total + Status(s) ELSE total

WaitReturns ==
  \E s \in Zombies :
    /\ pc = "waitpid"
    /\ Waited(s) /\ Reaped(s)
    /\ pc' = "check"
    /\ UNCHANGED <<ok, expired, progress>>

(* ... or fails: there is no child left.  While one runs, it blocks.       *)
WaitFails ==
  /\ pc = "waitpid"
  /\ \A s \in Children : os[s] = "reaped"
  /\ Goto("check")
  /\ UNCHANGED <<expired, progress, os>>

Report ==
  /\ pc = "report"
  /\ pc' = "done" /\ ok' = (total = 0)
  /\ UNCHANGED <<list, total, expired, progress, os>>

Main == RemoveSelf \/ Check \/ WaitReturns \/ WaitFails \/ Report

-----------------------------------------------------------------------------
(* Progress thread: no client has the pid, the status is dropped.          *)
HandlerStarts ==
  /\ sigchld /\ ~handler
  /\ handler' = TRUE /\ sigchld' = FALSE
  /\ UNCHANGED <<main, expired, os>>

HandlerReaps ==
  \E s \in Zombies :
    /\ handler
    /\ Reaped(s)
    /\ UNCHANGED <<main, expired, progress>>

HandlerEnds ==
  /\ handler /\ Zombies = {}
  /\ handler' = FALSE
  /\ UNCHANGED <<main, expired, sigchld, os>>

Progress == HandlerStarts \/ HandlerReaps \/ HandlerEnds

Exits(s) ==
  /\ os[s] = "running"
  /\ os' = [os EXCEPT ![s] = "zombie"]
  /\ sigchld' = TRUE
  /\ UNCHANGED <<main, expired, handler>>

Clock ==
  /\ pc # "self" /\ ~expired
  /\ expired' = TRUE
  /\ UNCHANGED <<main, progress, os>>

Done == pc = "done" /\ UNCHANGED vars

Next ==
  \/ Main \/ Progress \/ Clock
  \/ \E s \in Children : Exits(s)
  \/ Done

(* The threads run, time passes and every server gets to its exit: it has  *)
(* passed the last barrier.  A client that is left may run for ever.       *)
Fairness ==
  /\ WF_vars(Main) /\ WF_vars(Progress) /\ WF_vars(Clock)
  /\ \A s \in Server : WF_vars(Exits(s))

Spec == Init /\ [][Next]_vars /\ Fairness

-----------------------------------------------------------------------------
TypeOK ==
  /\ pc \in {"self", "check", "waitpid", "report", "done"}
  /\ list \in SUBSET (0 .. N - 1)
  /\ total \in Nat
  /\ {ok, expired, handler, sigchld} \subseteq BOOLEAN
  /\ os \in [Children -> {"running", "zombie", "reaped"}]

(* The result of srv_wait_all counts every failed server it has taken off  *)
(* the list once, and nothing else: not the failure of a client whose      *)
(* status it is given, nor one that the handler has taken.                 *)
FailuresCounted == total = Cardinality({s \in Failing \cap Server : s \notin list})

(* A server is taken off the list only when it has exited: server 0 leaves *)
(* before the time is over only when all others are gone.                  *)
LeavesLast ==
  /\ \A s \in Server \ list : os[s] = "reaped"
  /\ pc \in {"report", "done"} /\ ~expired => \A s \in Server : os[s] = "reaped"

(* srv_wait_all returns if the clients that are left end, even when the    *)
(* handler has taken the statuses it waits for.                            *)
WaitEnds == (\A c \in Client : <>(os[c] # "running")) => <>(pc = "done")

(* srv_wait_all(10.0) returns when its timeout is over, whatever runs.     *)
LimitKept == <>(pc = "done")

(* "Test finished OK!" is printed only if every server ended with success. *)
FinishedOK == ok => Failing \cap Server = {}
=============================================================================
