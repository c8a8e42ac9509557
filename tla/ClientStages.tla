---------------------------- MODULE ClientStages ----------------------------
(***************************************************************************)
(* The life of the client processes of one test server: the stages of      *)
(* unit/cli_stages.c, the launch loop and the SIGCHLD handler of           *)
(* unit/test_server.c, the upcall finalized() of unit/server_callbacks.c   *)
(* and the main() of unit/pmix_test.c, up to server_finalize.              *)
(*                                                                         *)
(* cli_info is shared without a lock by the main thread and the progress   *)
(* thread of the PMIx library.  Both reap children, both run cli_cleanup() *)
(* on them, and a client may end before the launch loop has recorded it.   *)
(* The steps of the main thread and of cli_cleanup() are at most one read  *)
(* or one group of writes of a shared field.  The cli_info fields alive     *)
(* and exit_code, and test_complete, are written and never used, and are   *)
(* left out.                                                               *)
(***************************************************************************)
EXTENDS Naturals, FiniteSets

CONSTANTS
  Clients,        (* number of clients, cli_info_cnt                       *)
  Rank,           (* rank of each client in its namespace                  *)
  Early,          (* clients that may end without PMIx_Finalize, or abort  *)
  TimeLimit,      (* the run may exceed params.timeout                     *)
  LaunchMayFail   (* register_client, setup_fork or fork may fail, and     *)
                  (* ns_dist may name another number of clients            *)

Client == 1 .. Clients
Thread == {"main", "progress"}

ASSUME ClientStagesAssumption ==
  /\ Clients \in Nat \ {0}
  /\ Rank \in [Client -> Nat]
  /\ Early \subseteq Client
  /\ {TimeLimit, LaunchMayFail} \subseteq BOOLEAN

Stage == {"UNINIT", "FORKED", "FIN", "TERM"}

(* next_state as cli_init fills it in; CONNECTED and DISCONN are not       *)
(* reached.                                                                *)
NextStateConnected == [s \in Stage |-> CASE s = "UNINIT" -> "FORKED"
                                         [] s = "FIN" -> "TERM"
                                         [] OTHER -> "UNDEF"]
NextState == [s \in Stage |-> CASE s = "UNINIT" -> "FORKED"
                                [] s = "FORKED" -> "FIN"
                                [] s = "FIN" -> "TERM"
                                [] s = "TERM" -> "UNDEF"]

VARIABLES
  stage,      (* cli_info[c].state                                         *)
  pid,        (* cli_info[c].pid: "none" is -1                             *)
  ranked,     (* clients whose cli_info[c].rank is not -1                  *)
  ns,         (* cli_info[c].ns: NULL, allocated or freed                  *)
  abort,      (* test_abort                                                *)
  pc,         (* main thread: where it is in main()                        *)
  k,          (* main thread: loop index of the launch and of cli_kill_all *)
  ret,        (* main thread: where cli_kill_all returns to                *)
  fail,       (* test_fail                                                 *)
  frame,      (* cli_cleanup as each thread runs it                        *)
  handler,    (* the progress thread is in wait_signal_callback            *)
  up,         (* the progress thread runs                                  *)
  sigchld,    (* SIGCHLD is pending                                        *)
  os,         (* the processes                                             *)
  ended,      (* clients that ended, or aborted, without PMIx_Finalize     *)
  overtook,   (* history: clients that the server has heard of, by their   *)
              (* PMIx_Finalize or their end, before they were FORKED       *)
  killed,     (* history: clients that cli_kill_all has cleaned up         *)
  faults      (* what has gone wrong, for the properties                   *)

info == <<stage, pid, ranked, ns, abort>>
main == <<pc, k, ret, fail>>
progress == <<handler, up, sigchld>>
history == <<ended, overtook, killed, faults>>
world == <<os, history>>
vars == <<info, main, frame, progress, world>>

NoFrame == [at |-> "none", cli |-> 1, nested |-> FALSE]
Cleanup(c) == [at |-> "switch", cli |-> c, nested |-> FALSE]
InCleanup(t) == frame[t].at # "none"

Init ==
  /\ stage = [c \in Client |-> "UNINIT"]
  /\ pid = [c \in Client |-> "none"]
  /\ ranked = {} /\ ns = [c \in Client |-> "NULL"]
  /\ abort = FALSE
  /\ pc = "fork" /\ k = 1 /\ ret = "none" /\ fail = FALSE
  /\ frame = [t \in Thread |-> NoFrame]
  /\ handler = FALSE /\ up = TRUE /\ sigchld = FALSE
  /\ os = [c \in Client |-> "unborn"]
  /\ ended = {} /\ overtook = {} /\ killed = {} /\ faults = {}

-----------------------------------------------------------------------------
(* cli_cleanup(), by either thread.                                        *)

(* The switch on next_state[state]; nested is the call inside the case     *)
(* CLI_FIN, after which test_abort is set.                                 *)
ReturnSilently(f) == NoFrame
Return(f) == IF f.nested THEN [f EXCEPT !.at = "abort"] ELSE NoFrame

CleanupSwitch(t) ==
  LET f == frame[t]
      next == NextState[stage[f.cli]]
  IN  /\ f.at = "switch"
      /\ frame' = [frame EXCEPT ![t] =
           CASE next = "FIN" -> [f EXCEPT !.at = "finalize"]
             [] next = "TERM" -> [f EXCEPT !.at = "terminate"]
             [] OTHER -> Return(f)]
      /\ abort' = (abort \/ next = "UNDEF")
      /\ UNCHANGED <<stage, pid, ranked, ns, main, progress, world>>

(* cli_finalize().                                                         *)
SetFinTerminates(c) ==
  /\ abort' = (abort \/ NextState[stage[c]] # "FIN")
  /\ stage' = [stage EXCEPT ![c] = "TERM"]
SetFin(c) ==
  /\ abort' = (abort \/ NextState[stage[c]] # "FIN")
  /\ stage' = [stage EXCEPT ![c] = "FIN"]

CleanupFinalize(t) ==
  /\ frame[t].at = "finalize"
  /\ SetFin(frame[t].cli)
  /\ frame' = [frame EXCEPT ![t] = [frame[t] EXCEPT !.at = "switch", !.nested = TRUE]]
  /\ UNCHANGED <<pid, ranked, ns, main, progress, world>>

(* cli_terminate(): the pid is gone before the state says so, and the name *)
(* is freed after that.                                                    *)
CleanupTerminate(t) ==
  LET c == frame[t].cli IN
  /\ frame[t].at = "terminate"
  /\ abort' = (abort \/ NextState[stage[c]] # "TERM")
  /\ pid' = [pid EXCEPT ![c] = "none"]
  /\ frame' = [frame EXCEPT ![t].at = "terminated"]
  /\ UNCHANGED <<stage, ranked, ns, main, progress, world>>

CleanupTerminated(t) ==
  /\ frame[t].at = "terminated"
  /\ stage' = [stage EXCEPT ![frame[t].cli] = "TERM"]
  /\ frame' = [frame EXCEPT ![t].at = "free"]
  /\ UNCHANGED <<pid, ranked, ns, abort, main, progress, world>>

CleanupFrees(t) ==
  LET c == frame[t].cli IN
  /\ frame[t].at = "free"
  /\ ns' = [ns EXCEPT ![c] = IF @ = "NULL" THEN @ ELSE "freed"]
  /\ faults' = faults \cup (IF ns[c] = "freed" THEN {<<"doubleFree", c>>} ELSE {})
  /\ frame' = [frame EXCEPT ![t] = Return(@)]
  /\ UNCHANGED <<stage, pid, ranked, abort, main, progress, os, ended, overtook, killed>>

BreakMissing(f) == [f EXCEPT !.at = "terminate", !.nested = FALSE]
Break(f) == NoFrame

CleanupAborts(t) ==
  /\ frame[t].at = "abort"
  /\ abort' = TRUE
  /\ frame' = [frame EXCEPT ![t] = Break(@)]
  /\ UNCHANGED <<stage, pid, ranked, ns, main, progress, world>>

CleanupStep(t) ==
  \/ CleanupSwitch(t) \/ CleanupFinalize(t)
  \/ CleanupTerminate(t) \/ CleanupTerminated(t) \/ CleanupFrees(t)
  \/ CleanupAborts(t)

-----------------------------------------------------------------------------
(* waitpid(-1, WNOHANG) by thread t, and the search of cli_info for the    *)
(* child it returns.                                                       *)
Zombies == {c \in Client : os[c] = "zombie"}

Overtake(c) == overtook' = IF stage[c] = "UNINIT" THEN overtook \cup {c} ELSE overtook

ReapIgnoredByHandler(t) ==
  \E c \in Zombies :
    /\ os' = [os EXCEPT ![c] = "reaped"]
    /\ frame' = [frame EXCEPT ![t] = IF pid[c] = "set" /\ t = "main" THEN Cleanup(c) ELSE @]
    /\ Overtake(c)
Reap(t) ==
  \E c \in Zombies :
    /\ os' = [os EXCEPT ![c] = "reaped"]
    /\ frame' = [frame EXCEPT ![t] = IF pid[c] = "set" THEN Cleanup(c) ELSE @]
    /\ Overtake(c)

(* test_terminated().                                                      *)
Terminated == abort \/ \A c \in Client : stage[c] = "TERM"

MainAt(at) == pc = at /\ ~InCleanup("main")
Goto(to) == pc' = to /\ UNCHANGED <<k, ret, fail>>

(* The last round of a loop over cli_info.                                 *)
LastClient == k = Clients

(* server_launch_clients: fork, and what the parent records one field      *)
(* after the other.                                                        *)
Fork ==
  /\ MainAt("fork")
  /\ os' = [os EXCEPT ![k] = "running"]
  /\ Goto("pid")
  /\ UNCHANGED <<info, frame, progress, history>>

RecordPid ==
  /\ MainAt("pid")
  /\ pid' = [pid EXCEPT ![k] = "set"]
  /\ Goto("rank")
  /\ UNCHANGED <<stage, ranked, ns, abort, frame, progress, world>>

RecordRank ==
  /\ MainAt("rank")
  /\ ranked' = ranked \cup {k}
  /\ Goto("name")
  /\ UNCHANGED <<stage, pid, ns, abort, frame, progress, world>>

RecordName ==
  /\ MainAt("name")
  /\ ns' = [ns EXCEPT ![k] = "allocated"]
  /\ Goto("stage")
  /\ UNCHANGED <<stage, pid, ranked, abort, frame, progress, world>>

RecordForked ==
  /\ MainAt("stage")
  /\ stage' = [stage EXCEPT ![k] = "FORKED"]
  /\ IF LastClient
       THEN pc' = "launched" /\ k' = 1
       ELSE pc' = "fork" /\ k' = k + 1
  /\ UNCHANGED <<pid, ranked, ns, abort, ret, fail, frame, progress, world>>

Launched ==
  /\ MainAt("launched")
  /\ Goto("loop")
  /\ UNCHANGED <<info, frame, progress, world>>

(* The library is finalized, which ends its progress thread, and the       *)
(* clients are killed twice: where the launch failed and in main().        *)
LaunchFails ==
  /\ LaunchMayFail
  /\ MainAt("fork")
  /\ ~handler /\ ~InCleanup("progress")
  /\ up' = FALSE
  /\ pc' = "kill" /\ k' = 1 /\ ret' = "mismatch"
  /\ UNCHANGED <<info, fail, frame, handler, sigchld, world>>

(* ns_dist names a namespace that is too large, and main() returns; or it  *)
(* names too few clients.                                                  *)
NewNamespace == pc = "launched" \/ (pc = "fork" /\ Rank[k] = 0)

DistTooLarge ==
  /\ LaunchMayFail
  /\ ~InCleanup("main") /\ NewNamespace
  /\ Goto("returned")
  /\ up' = FALSE /\ handler' = FALSE /\ frame' = [t \in Thread |-> NoFrame]
  /\ UNCHANGED <<info, sigchld, world>>

DistTooSmall ==
  /\ LaunchMayFail
  /\ MainAt("fork") /\ NewNamespace
  /\ Goto("mismatch")
  /\ UNCHANGED <<info, frame, progress, world>>

LaunchMismatch ==
  /\ MainAt("mismatch")
  /\ pc' = "kill" /\ k' = 1 /\ ret' = "loop" /\ fail' = TRUE
  /\ UNCHANGED <<info, frame, progress, world>>

(* The loop of main() until the clients have terminated.                   *)
Loop ==
  /\ MainAt("loop")
  /\ IF Terminated THEN Goto("verdict") ELSE Goto("poll")
  /\ UNCHANGED <<info, frame, progress, world>>

(* params.timeout is over: cli_kill_all, if it is not too late.            *)
TimesOut ==
  /\ TimeLimit
  /\ MainAt("loop")
  /\ IF Terminated
       THEN Goto("verdict")
       ELSE pc' = "kill" /\ k' = 1 /\ ret' = "verdict" /\ fail' = TRUE
  /\ UNCHANGED <<info, frame, progress, world>>

(* cli_wait_all(0).                                                        *)
PollReaps ==
  /\ MainAt("poll")
  /\ Reap("main")
  /\ UNCHANGED <<info, main, progress, ended, killed, faults>>

PollEnds ==
  /\ MainAt("poll")
  /\ Zombies = {}
  /\ Goto("loop")
  /\ UNCHANGED <<info, frame, progress, world>>

KillNext == IF LastClient THEN pc' = ret /\ k' = 1 ELSE pc' = "kill" /\ k' = k + 1

KillSkips ==
  /\ MainAt("kill")
  /\ stage[k] \in {"UNINIT", "TERM"}
  /\ KillNext
  /\ UNCHANGED <<info, ret, fail, frame, progress, world>>

KillChooses ==
  /\ MainAt("kill")
  /\ stage[k] \notin {"UNINIT", "TERM"}
  /\ Goto("killPid")
  /\ UNCHANGED <<info, frame, progress, world>>

Alive(c) == os[c] \in {"running", "finalizing", "finalized", "stuck"}

KilledNone == os
Killed == [os EXCEPT ![k] = IF Alive(k) THEN "zombie" ELSE @]

KillSends ==
  /\ MainAt("killPid")
  /\ IF pid[k] = "set"
       THEN /\ os' = Killed
            /\ sigchld' = (sigchld \/ Alive(k))
            /\ UNCHANGED faults
       ELSE faults' = faults \cup {<<"killAll", k>>} /\ UNCHANGED <<os, sigchld>>
  /\ killed' = killed \cup {k}
  /\ frame' = [frame EXCEPT !["main"] = Cleanup(k)]
  /\ KillNext
  /\ UNCHANGED <<info, ret, fail, handler, up, ended, overtook>>

(* test_abort becomes the result; what follows is cli_wait_all(1.0), which *)
(* reaps for a second unless test_terminated(), and server_finalize.       *)
Verdict ==
  /\ MainAt("verdict")
  /\ pc' = "lastWait"
  /\ fail' = (fail \/ abort)
  /\ UNCHANGED <<info, k, ret, frame, progress, world>>

LastWaitReaps ==
  /\ MainAt("lastWait")
  /\ ~Terminated
  /\ Reap("main")
  /\ UNCHANGED <<info, main, progress, ended, killed, faults>>

LastWaitEnds ==
  /\ MainAt("lastWait")
  /\ Goto("done")
  /\ UNCHANGED <<info, frame, progress, world>>

MainStep ==
  \/ Fork \/ RecordPid \/ RecordRank \/ RecordName \/ RecordForked \/ Launched
  \/ LaunchFails \/ DistTooLarge \/ DistTooSmall \/ LaunchMismatch
  \/ Loop \/ TimesOut \/ PollReaps \/ PollEnds
  \/ KillSkips \/ KillChooses \/ KillSends
  \/ Verdict \/ LastWaitReaps \/ LastWaitEnds
  \/ CleanupStep("main")

-----------------------------------------------------------------------------
(* Progress thread.                                                        *)
ProgressFree == up /\ ~handler /\ ~InCleanup("progress")

(* wait_signal_callback().                                                 *)
HandlerStarts ==
  /\ ProgressFree /\ sigchld
  /\ handler' = TRUE /\ sigchld' = FALSE
  /\ UNCHANGED <<info, main, frame, up, world>>

HandlerReaps ==
  /\ handler /\ ~InCleanup("progress")
  /\ Reap("progress")
  /\ UNCHANGED <<info, main, progress, ended, killed, faults>>

HandlerEnds ==
  /\ handler /\ ~InCleanup("progress")
  /\ Zombies = {}
  /\ handler' = FALSE
  /\ UNCHANGED <<info, main, frame, up, sigchld, world>>

(* The entries whose name finalized() compares on its way to that of c.    *)
Compared(c) == {d \in (1 .. c) \cap ranked : Rank[d] = Rank[c]}

(* strcmp() with a name that has not been recorded: the server crashes.    *)
Crash(c) ==
  /\ \E d \in Compared(c) : ns[d] = "NULL"
  /\ pc' = "crashed" /\ up' = FALSE
  /\ UNCHANGED <<stage, abort, os, faults>>

(* A name that has been freed may read as any name, also as that of c.     *)
ReadsFreed(c) == \E d \in Compared(c) : ns[d] = "freed"

Found(c) == c \in ranked /\ stage[c] # "TERM"

Answer(c) ==
  /\ Found(c)
  /\ SetFin(c)
  /\ os' = [os EXCEPT ![c] = "finalized"]

NoAnswer(c) ==
  /\ ~Found(c) \/ ReadsFreed(c)
  /\ os' = [os EXCEPT ![c] = "stuck"]
  /\ UNCHANGED <<stage, abort>>

(* finalized(): a client that is not found, or has terminated, gets no     *)
(* answer.                                                                 *)
Finalized(c) ==
  /\ ProgressFree
  /\ os[c] = "finalizing"
  /\ \/ Crash(c)
     \/ /\ \A d \in Compared(c) : ns[d] # "NULL"
        /\ Answer(c) \/ NoAnswer(c)
        /\ faults' = faults \cup (IF ReadsFreed(c) THEN {<<"freedName", c>>} ELSE {})
        /\ UNCHANGED <<pc, up>>
  /\ Overtake(c)
  /\ UNCHANGED <<pid, ranked, ns, k, ret, fail, frame, handler, sigchld, ended, killed>>

(* abort_fn().                                                             *)
Aborts(c) ==
  /\ ProgressFree
  /\ c \in Early /\ os[c] = "running"
  /\ abort' = TRUE
  /\ ended' = ended \cup {c}
  /\ UNCHANGED <<stage, pid, ranked, ns, main, frame, progress, os, overtook, killed, faults>>

ProgressStep ==
  \/ HandlerStarts \/ HandlerReaps \/ HandlerEnds
  \/ CleanupStep("progress")
  \/ \E c \in Client : Finalized(c)

-----------------------------------------------------------------------------
(* Client processes.                                                       *)
CallsFinalize(c) ==
  /\ os[c] = "running"
  /\ os' = [os EXCEPT ![c] = "finalizing"]
  /\ UNCHANGED <<info, main, frame, progress, history>>

Exits(c) ==
  /\ \/ os[c] = "finalized"
     \/ os[c] = "running" /\ c \in Early
  /\ os' = [os EXCEPT ![c] = "zombie"]
  /\ ended' = IF os[c] = "running" THEN ended \cup {c} ELSE ended
  /\ sigchld' = TRUE
  /\ UNCHANGED <<info, main, frame, handler, up, overtook, killed, faults>>

ClientStep(c) == CallsFinalize(c) \/ Exits(c)

Ended == pc \in {"done", "returned", "crashed"}

(* main() waits without end only where there is no time limit.             *)
Stranded == ~TimeLimit /\ overtook # {}

Done == Ended /\ UNCHANGED vars

Next ==
  \/ MainStep
  \/ ProgressStep
  \/ \E c \in Client : Aborts(c) \/ ClientStep(c)
  \/ Done

(* Both threads and the clients run, and where there is a time limit the   *)
(* loop of main() meets it in the end.  Aborts and failures need not come. *)
Fairness ==
  /\ WF_vars(MainStep) /\ WF_vars(ProgressStep) /\ SF_vars(TimesOut)
  /\ \A c \in Client : WF_vars(ClientStep(c))

Spec == Init /\ [][Next]_vars /\ Fairness
-----------------------------------------------------------------------------
TypeOK ==
  /\ stage \in [Client -> Stage]
  /\ pid \in [Client -> {"none", "set"}]
  /\ ranked \subseteq Client
  /\ ns \in [Client -> {"NULL", "allocated", "freed"}]
  /\ {abort, fail, handler, up, sigchld} \subseteq BOOLEAN
  /\ pc \in {"fork", "pid", "rank", "name", "stage", "launched", "mismatch", "loop", "poll",
             "kill", "killPid", "verdict", "lastWait", "done", "returned", "crashed"}
  /\ ret \in {"none", "mismatch", "loop", "verdict"}
  /\ k \in Client
  /\ frame \in [Thread -> [at : {"none", "switch", "finalize", "terminate", "terminated", "free", "abort"},
                           cli : Client, nested : BOOLEAN]]
  /\ ended \subseteq Client /\ overtook \subseteq Client /\ killed \subseteq Client
  /\ os \in [Client -> {"unborn", "running", "finalizing", "finalized", "stuck", "zombie", "reaped"}]

(* Each client passes the stages one after the other, none is left out and *)
(* none is passed twice, whichever thread notices its end; but a client    *)
(* that overtakes its launch, or that is killed, may skip or repeat some.  *)
Order == {<<"UNINIT", "FORKED">>, <<"FORKED", "FIN">>, <<"FIN", "TERM">>}
StageOrder ==
  [][\A c \in Client \ (overtook \cup killed)' :
       stage'[c] # stage[c] => <<stage[c], stage'[c]>> \in Order]_vars

(* No client counts as terminated while its process is still alive.        *)
TermMeansDead == \A c \in Client : stage[c] = "TERM" => ~Alive(c)

(* A run is aborted only after a client has ended without PMIx_Finalize,   *)
(* has overtaken its launch or has been killed.                            *)
CleanRun == abort => ended \cup overtook \cup killed # {}

(* A run whose clients all call PMIx_Finalize is never aborted.            *)
OnlyFailuresAbort == abort => ended # {}

(* The result of main() is success only if no client failed.               *)
FailureReported == pc = "done" /\ ended # {} /\ overtook = {} => fail

(* A client that ends without PMIx_Finalize is noticed in the end, unless  *)
(* it has overtaken its launch or the server crashes.                      *)
FailureNoticed ==
  \A c \in Client : c \in ended ~> (abort \/ c \in overtook \/ pc = "crashed")

(* cli_kill_all never signals pid -1, every process there is.              *)
NoKillAll == \A c \in Client : <<"killAll", c>> \notin faults

(* The name of a client that cli_kill_all leaves alone is freed once at    *)
(* most, whichever threads reap it.                                        *)
FreedOnce == \A c \in Client : <<"doubleFree", c>> \in faults => c \in killed

(* finalized() compares no name that has been freed.                       *)
NamesValid == \A c \in Client : <<"freedName", c>> \notin faults

(* No client brings the server down.                                       *)
ServerSurvives == pc # "crashed"

(* main() goes on to server_finalize only when all clients have ended.     *)
NoneLeftBehind == pc = "done" => \A c \in Client : ~Alive(c)

(* main() gets to server_finalize, unless it returns or crashes before; it *)
(* waits for a client that has overtaken its launch up to the time limit.  *)
MainEnds == <>(Ended \/ Stranded)
=============================================================================
