------------------------------ MODULE SimpTest ------------------------------
(***************************************************************************)
(* The driver simple/simptest.c: one PMIx server that registers and forks  *)
(* its clients, counts the ones that have gone and reports the result.     *)
(*                                                                         *)
(* Three threads: main(); the progress thread of the PMIx library, which   *)
(* runs the callbacks of the registrations and of the inventory; and the   *)
(* thread of simple/progress_thread.c, which runs the SIGCHLD handler      *)
(* wait_signal_callback().  wakeup, exit_code and children are shared by   *)
(* main() and the handler without a lock.  A client may end before main()  *)
(* has recorded its pid.                                                   *)
(***************************************************************************)
EXTENDS Naturals, FiniteSets

CONSTANTS
  NProcs,   (* number of clients                                           *)
  Status    (* exit status of each client, 128 + n for a signal n          *)

Client == 0 .. NProcs - 1

ASSUME SimpTestAssumption ==
  /\ NProcs \in Nat \ {0}
  /\ Status \in [Client -> Nat]

(* What main() waits for in turn: a callback and the lock it releases.     *)
Request == {"inventory", "nspace", "client"}

VARIABLES
  pc,          (* main(): where it is                                      *)
  n,           (* loop index of main()                                     *)
  active,      (* the locks that have not been released, as requests       *)
  asked,       (* callbacks the library still has to run                   *)
  registered,  (* clients the library knows                                *)
  pid,         (* clients whose pid stands in children                     *)
  code,        (* children[c].exit_code                                    *)
  wakeup,      (* clients main() still waits for                           *)
  exitcode,    (* exit_code                                                *)
  handler,     (* wait_signal_callback: "idle", or where it is             *)
  found,       (* the client that waitpid() has returned last              *)
  sigchld,     (* SIGCHLD is pending                                       *)
  os,          (* the clients: "unborn", "running", "zombie", "reaped"     *)
  lost         (* history: clients whose end the handler dropped           *)

library == <<active, asked, registered>>
tracker == <<pid, code, wakeup, exitcode>>
signals == <<handler, found, sigchld, lost>>
vars == <<pc, n, library, tracker, signals, os>>

(* The namespace registration is under way when wakeup is set.             *)
Init ==
  /\ pc = "start" /\ n = 0
  /\ active = {"nspace"} /\ asked = {"nspace"} /\ registered = {}
  /\ pid = {} /\ code = [c \in Client |-> 0]
  /\ wakeup = NProcs /\ exitcode = 0
  /\ handler = "idle" /\ found = 0 /\ sigchld = FALSE /\ lost = {}
  /\ os = [c \in Client |-> "unborn"]

Ask(r) == active' = active \cup {r} /\ asked' = asked \cup {r} /\ UNCHANGED registered
At(p) == pc = p /\ UNCHANGED signals
Goto(p) == pc' = p /\ UNCHANGED n

-----------------------------------------------------------------------------
(* main().                                                                 *)
CollectInventory ==
  /\ At("start") /\ Goto("inventory")
  /\ Ask("inventory")
  /\ UNCHANGED <<tracker, os>>

(* PMIx_server_collect_inventory returns an error.                         *)
InventoryFails ==
  /\ At("start") /\ Goto("report")
  /\ UNCHANGED <<library, tracker, os>>

(* DEBUG_WAIT_THREAD on the lock of the inventory, then of the namespace.  *)
InventoryCollected ==
  /\ At("inventory") /\ Goto("nspace")
  /\ "inventory" \notin active
  /\ UNCHANGED <<library, tracker, os>>

(* The callback has brought an error: exit(mylock.status).                 *)
InventoryRefused ==
  /\ At("inventory") /\ Goto("failed")
  /\ "inventory" \notin active
  /\ UNCHANGED <<library, tracker, os>>

NspaceRegistered ==
  /\ At("nspace") /\ Goto("register")
  /\ "nspace" \notin active
  /\ UNCHANGED <<library, tracker, os>>

RegisterClient ==
  /\ At("register") /\ Goto("client")
  /\ Ask("client")
  /\ UNCHANGED <<tracker, os>>

(* setup_fork, register_client or fork fails: main() returns.              *)
LaunchFails ==
  /\ At("register") /\ Goto("failed")
  /\ UNCHANGED <<library, tracker, os>>

Awaited == "client" \notin active

Fork ==
  /\ At("client") /\ Goto("pid")
  /\ Awaited
  /\ os' = [os EXCEPT ![n] = "running"]
  /\ UNCHANGED <<library, tracker>>

RecordPid ==
  /\ At("pid")
  /\ pid' = pid \cup {n}
  /\ IF n + 1 < NProcs THEN pc' = "register" /\ n' = n + 1 ELSE pc' = "wait" /\ n' = 0
  /\ UNCHANGED <<library, code, wakeup, exitcode, os>>

(* The loop on wakeup, then the deregistration and the report.             *)
AllGoneOffByOne == wakeup <= 1
AllGone == wakeup = 0

Awake ==
  /\ At("wait") /\ Goto("report")
  /\ AllGone
  /\ UNCHANGED <<library, tracker, os>>

Report ==
  /\ At("report") /\ Goto("done")
  /\ UNCHANGED <<library, tracker, os>>

Main ==
  \/ CollectInventory \/ InventoryFails \/ InventoryCollected \/ InventoryRefused
  \/ NspaceRegistered \/ RegisterClient \/ LaunchFails \/ Fork \/ RecordPid \/ Awake \/ Report

-----------------------------------------------------------------------------
(* The library runs a callback: infocbfunc or opcbfunc.                    *)
Callback(r) ==
  /\ r \in asked
  /\ asked' = asked \ {r}
  /\ active' = active \ {r}
  /\ registered' = IF r = "client" THEN registered \cup {n} ELSE registered
  /\ UNCHANGED <<pc, n, tracker, signals, os>>

(* wait_signal_callback(): the loop, and its steps for one child.          *)
HandlerStarts ==
  /\ sigchld /\ handler = "idle"
  /\ handler' = "loop" /\ sigchld' = FALSE
  /\ UNCHANGED <<pc, n, library, tracker, found, lost, os>>

Zombies == {c \in Client : os[c] = "zombie"}

HandlerReaps ==
  \E c \in Zombies :
    /\ handler = "loop" /\ handler' = "find"
    /\ os' = [os EXCEPT ![c] = "reaped"]
    /\ found' = c
    /\ UNCHANGED <<pc, n, library, tracker, sigchld, lost>>

(* The pid is looked for in children; one that is not there is dropped.    *)
HandlerFinds ==
  /\ handler = "find"
  /\ handler' = IF found \in pid THEN "store" ELSE "loop"
  /\ lost' = IF found \in pid THEN lost ELSE lost \cup {found}
  /\ UNCHANGED <<pc, n, library, tracker, found, sigchld, os>>

(* The status of the child, and the first failure.                         *)
HandlerStores ==
  /\ handler = "store" /\ handler' = "count"
  /\ code' = [code EXCEPT ![found] = Status[found]]
  /\ exitcode' = IF exitcode = 0 THEN Status[found] ELSE exitcode
  /\ UNCHANGED <<pc, n, library, pid, wakeup, found, sigchld, lost, os>>

CountUnlessFailed == wakeup' = IF Status[found] = 0 THEN wakeup - 1 ELSE wakeup
Count == wakeup' = wakeup - 1
HandlerCounts ==
  /\ handler = "count" /\ handler' = "loop"
  /\ Count
  /\ UNCHANGED <<pc, n, library, pid, code, exitcode, found, sigchld, lost, os>>

HandlerEnds ==
  /\ handler = "loop" /\ Zombies = {}
  /\ handler' = "idle"
  /\ UNCHANGED <<pc, n, library, tracker, found, sigchld, lost, os>>

Handler ==
  \/ HandlerStarts \/ HandlerReaps \/ HandlerFinds \/ HandlerStores \/ HandlerCounts
  \/ HandlerEnds

ClientEnds(c) ==
  /\ os[c] = "running"
  /\ os' = [os EXCEPT ![c] = "zombie"]
  /\ sigchld' = TRUE
  /\ UNCHANGED <<pc, n, library, tracker, handler, found, lost>>

(* main() has returned, or its loop waits for a count that does not come.  *)
Stopped ==
  /\ pc \in {"done", "failed"} \/ (pc = "wait" /\ lost # {})
  /\ UNCHANGED vars

Next ==
  \/ Main \/ Handler
  \/ \E r \in Request : Callback(r)
  \/ \E c \in Client : ClientEnds(c)
  \/ Stopped

(* The threads run, the library calls back, and every client ends.         *)
Fairness ==
  /\ WF_vars(Main) /\ WF_vars(Handler)
  /\ \A r \in Request : WF_vars(Callback(r))
  /\ \A c \in Client : WF_vars(ClientEnds(c))

Spec == Init /\ [][Next]_vars /\ Fairness

-----------------------------------------------------------------------------
(* The child that waitpid() has returned and wakeup still counts.          *)
Held == IF handler \in {"find", "store", "count"} THEN {found} ELSE {}

TypeOK ==
  /\ pc \in {"start", "inventory", "nspace", "register", "client", "pid", "wait",
             "report", "done", "failed"}
  /\ n \in Client
  /\ active \subseteq Request /\ asked \subseteq Request
  /\ registered \subseteq Client /\ pid \subseteq Client
  /\ wakeup \in 0 .. NProcs
  /\ exitcode \in Nat /\ code \in [Client -> Nat]
  /\ handler \in {"idle", "loop", "find", "store", "count"}
  /\ found \in Client /\ lost \subseteq Client
  /\ os \in [Client -> {"unborn", "running", "zombie", "reaped"}]

(* "don't fork/exec the client until we know it is registered".            *)
RegisteredFirst == \A c \in Client : os[c] # "unborn" => c \in registered

(* wakeup counts exactly the clients whose end main() has not been told    *)
(* of, however quick they are: those that have not been reaped, the one    *)
(* the handler holds, and those that it dropped.                           *)
Untold == {c \in Client : os[c] # "reaped"} \cup Held \cup lost
CountExact == wakeup = Cardinality(Untold)

(* After a complete launch main() reports when every client has gone and   *)
(* none has been dropped, and reports success only if every one of them    *)
(* succeeded: the handler stores the status before it counts.              *)
Launched == \A c \in Client : os[c] # "unborn"
ReportIsRight ==
  pc \in {"report", "done"} /\ Launched =>
    /\ \A c \in Client : os[c] = "reaped"
    /\ lost = {}
    /\ exitcode = 0 <=> \A c \in Client : Status[c] = 0

(* Only a client that ended before its pid was recorded can keep main()    *)
(* waiting for ever.                                                       *)
MainEnds == <>(pc \in {"done", "failed"} \/ lost # {})

(* "hang around until the client(s) finalize", without that exception.     *)
MainAlwaysEnds == <>(pc \in {"done", "failed"})
=============================================================================
