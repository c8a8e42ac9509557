------------------------ MODULE ServerShutdownProofs ------------------------
(***************************************************************************)
(* How servers and engines end.  What srv_wait_all counts and when it lets *)
(* server 0 go, for every number of servers and of clients that are left,  *)
(* every set of failures, and the SIGCHLD handler taking any of the exit   *)
(* statuses.  And what stop and pause of a progress thread leave behind,   *)
(* for every set of names, every bound on references and both ways to      *)
(* break a loop.                                                           *)
(***************************************************************************)
EXTENDS ServerShutdown, Trackers, FiniteSetTheorems, TLAPS

Counted == {s \in Failing \cap Server : s \notin list}

(* Before the loop nobody is off the list; a server that is off it has     *)
(* been reaped; and without the time limit the loop ends with an empty     *)
(* list.                                                                   *)
IInv ==
  /\ TypeOK
  /\ FailuresCounted
  /\ pc = "self" => list = 0 .. N - 1
  /\ pc # "self" => 0 \notin list
  /\ \A s \in Server \ list : os[s] = "reaped"
  /\ pc \in {"report", "done"} => list = {} \/ expired

LEMMA CountedFinite == IsFiniteSet(Counted) /\ Cardinality(Counted) \in Nat
  <1>1. IsFiniteSet(Server)
    BY ServerShutdownAssumption, FS_Interval DEF Server
  <1>2. Counted \subseteq Server
    BY DEF Counted
  <1> QED
    BY <1>1, <1>2, FS_Subset, FS_CardinalityType

LEMMA InitIInv == Init => IInv
  <1> SUFFICES ASSUME Init PROVE IInv
    OBVIOUS
  <1>1. Server \subseteq 0 .. N - 1
    BY ServerShutdownAssumption DEF Server
  <1>2. Counted = {}
    BY <1>1, ServerShutdownAssumption DEF Init, Counted
  <1>3. FailuresCounted
    BY <1>2, FS_EmptySet DEF FailuresCounted, Counted, Init
  <1>4. TypeOK
    BY DEF Init, TypeOK
  <1> QED
    BY <1>1, <1>3, <1>4 DEF IInv, Init

(* A status that the main thread gets: its server leaves the list, and is  *)
(* counted if it failed and was on it.                                     *)
LEMMA WaitedIInv == IInv /\ WaitReturns => IInv'
  <1> SUFFICES ASSUME IInv, NEW s \in Zombies, pc = "waitpid", Waited(s), Reaped(s),
                      pc' = "check", UNCHANGED <<ok, expired, progress>>
               PROVE  IInv'
    BY DEF WaitReturns
  <1> USE DEF IInv, TypeOK
  <1>1. s \in Children /\ os[s] = "zombie" /\ (s \in list <=> s \in Server)
    <2>1. s \in Children /\ os[s] = "zombie" /\ (s \in Server => s \in list)
      BY DEF Zombies
    <2>2. ASSUME s \notin Server PROVE s \notin list
      BY <2>1, <2>2, ServerShutdownAssumption DEF Children, Client
    <2> QED
      BY <2>1, <2>2
  <1>2. list' = list \ {s} /\ total' = IF s \in list THEN total + Status(s) ELSE total
    BY <1>1 DEF Waited
  <1>3. os' \in [Children -> {"running", "zombie", "reaped"}]
        /\ \A t \in Children : os'[t] = IF t = s THEN "reaped" ELSE os[t]
    BY <1>1 DEF Reaped
  <1>4. FailuresCounted'
    <2>1. CASE s \in Failing \cap Server
      <3>1. Counted' = Counted \cup {s} /\ s \notin Counted
        BY <1>1, <1>2, <2>1 DEF Counted
      <3>2. Cardinality(Counted') = Cardinality(Counted) + 1
        BY <3>1, CountedFinite, FS_AddElement
      <3>3. total' = total + 1
        BY <1>1, <1>2, <2>1 DEF Status
      <3> QED
        BY <3>2, <3>3 DEF FailuresCounted, Counted
    <2>2. CASE s \notin Failing \cap Server
      <3>1. Counted' = Counted
        BY <1>2, <2>2 DEF Counted
      <3>2. total' = total
        BY <1>1, <1>2, <2>2 DEF Status
      <3> QED
        BY <3>1, <3>2 DEF FailuresCounted, Counted
    <2> QED
      BY <2>1, <2>2
  <1>5. TypeOK'
    <2>1. list' \in SUBSET (0 .. N - 1) /\ total' \in Nat
      <3>1. Status(s) \in Nat
        BY DEF Status
      <3>2. list' \in SUBSET (0 .. N - 1)
        BY <1>2
      <3>3. total' \in Nat
        BY <1>2, <3>1
      <3> QED
        BY <3>2, <3>3
    <2>2. {ok, expired, handler, sigchld}' \subseteq BOOLEAN
      BY DEF progress
    <2> QED
      BY <1>3, <2>1, <2>2
  <1>6. \A t \in Server \ list' : os'[t] = "reaped"
    BY <1>2, <1>3 DEF Children
  <1> QED
    BY <1>2, <1>4, <1>5, <1>6

(* The other steps leave the list alone, but for RemoveSelf.               *)
LEMMA SelfIInv == IInv /\ RemoveSelf => IInv'
  <1> SUFFICES ASSUME IInv, RemoveSelf PROVE IInv'
    OBVIOUS
  <1> USE DEF IInv, RemoveSelf, main, progress
  <1>1. 0 \notin Server
    BY DEF Server
  <1>2. Counted' = Counted
    BY <1>1 DEF Counted
  <1>3. FailuresCounted'
    BY <1>2 DEF FailuresCounted, Counted
  <1>4. TypeOK'
    BY DEF TypeOK
  <1> QED
    BY <1>1, <1>3, <1>4

LEMMA OtherIInv ==
  ASSUME IInv, UNCHANGED <<list, total>>, TypeOK',
         pc' = "self" => pc = "self", pc = "self" => pc' = "self",
         \A s \in Children : os[s] = "reaped" => os'[s] = "reaped",
         expired => expired',
         pc' \in {"report", "done"} => pc \in {"report", "done"} \/ list = {} \/ expired
  PROVE  IInv'
  BY DEF IInv, FailuresCounted, Children

LEMMA StepIInv == IInv /\ [Next]_vars => IInv'
  <1> SUFFICES ASSUME IInv, [Next]_vars PROVE IInv'
    OBVIOUS
  <1> USE DEF main, progress, Goto
  <1>1. CASE Check \/ WaitFails \/ Report \/ Clock
    <2>1. TypeOK'
      BY <1>1 DEF IInv, TypeOK, Check, WaitFails, Report, Clock
    <2> QED
      BY <1>1, <2>1, OtherIInv DEF Check, KeepsWaiting, WaitFails, Report, Clock
  <1>2. CASE HandlerStarts \/ HandlerReaps \/ HandlerEnds \/ \E s \in Children : Exits(s)
    <2>1. TypeOK' /\ \A s \in Children : os[s] = "reaped" => os'[s] = "reaped"
      BY <1>2 DEF IInv, TypeOK, HandlerStarts, HandlerReaps, Reaped, Zombies, HandlerEnds, Exits
    <2>2. UNCHANGED <<main, expired>>
      BY <1>2 DEF HandlerStarts, HandlerReaps, HandlerEnds, Exits
    <2> QED
      BY <2>1, <2>2, OtherIInv
  <1>3. CASE UNCHANGED vars
    <2>1. TypeOK'
      BY <1>3 DEF IInv, TypeOK, vars
    <2> QED
      BY <1>3, <2>1, OtherIInv DEF vars
  <1> QED
    BY <1>1, <1>2, <1>3, SelfIInv, WaitedIInv DEF Next, Main, Progress, Done

(* Every variable keeps its type.                                          *)
THEOREM TypeCorrect == Spec => []TypeOK
  <1>1. IInv => TypeOK
    BY DEF IInv
  <1> QED
    BY <1>1, InitIInv, StepIInv, PTL DEF Spec

(* The sum of srv_wait_all is the number of the servers that failed and    *)
(* that it has taken off the list, each once; what the handler drops is    *)
(* missing from both.                                                      *)
THEOREM CountedOnce == Spec => []FailuresCounted
  <1>1. IInv => FailuresCounted
    BY DEF IInv
  <1> QED
    BY <1>1, InitIInv, StepIInv, PTL DEF Spec

(* Server 0 leaves last, unless the time limit is exceeded.                *)
THEOREM RootLeavesLast == Spec => []LeavesLast
  <1>1. IInv => LeavesLast
    BY DEF IInv, LeavesLast
  <1> QED
    BY <1>1, InitIInv, StepIInv, PTL DEF Spec

-----------------------------------------------------------------------------
(* Progress threads.  ActiveMeansRuns and BaseInUse say nothing of the     *)
(* tracker of a name that is being stopped; CallInv does, and makes them   *)
(* inductive.                                                              *)

P == INSTANCE ProgressThreads

(* Each call and each step of an engine that is not the end of a stop or   *)
(* pause works on one name; for the others nothing changes.                *)
LEMMA EnginesInit ==
  ASSUME P!Init
  PROVE  P!IInv
<1> USE TrackersAssumption DEF P!Init
<1>1. P!TypeOK
  BY DEF P!TypeOK
<1>2. P!ActiveMeansRuns /\ P!Referenced /\ P!CallInv
  BY DEF P!ActiveMeansRuns, P!Referenced, P!CallInv, P!Ending
<1> QED
  BY <1>1, <1>2 DEF P!IInv

(* A stopped or paused engine is not started by anybody else: the caller is*)
(* in its call.                                                            *)
LEMMA CallerKeepsEngines ==
  ASSUME P!IInv, NEW n \in Names, P!Caller(n)
  PROVE  P!IInv'
<1> USE TrackersAssumption DEF P!IInv, P!TypeOK, P!ActiveMeansRuns, P!Referenced, P!CallInv, P!Ending, P!Runs, P!Idle
<1>1. CASE P!InitNew(n)
  BY <1>1 DEF P!InitNew, P!Start
<1>2. CASE P!InitAgain(n)
  BY <1>2 DEF P!InitAgain
<1>3. CASE P!Stop(n)
  <2>1. /\ caller = P!Idle /\ tracked[n] /\ refs' = [refs EXCEPT ![n] = @ - 1]
        /\ refs' \in [Names -> 0 .. MaxRefs]
    BY <1>3 DEF P!Stop
  <2>2. CASE refs'[n] > 0 /\ UNCHANGED <<tracked, active, told, engine, caller>>
    BY <2>1, <2>2
  <2>3. CASE refs'[n] = 0 /\ active[n] /\ P!Deactivate(n, "stop")
    <3>1. caller' # P!Idle /\ caller'.name = n /\ caller'.op = "stop" /\ P!TypeOK'
      BY <2>1, <2>3 DEF P!Deactivate, P!At
    <3>2. tracked' = tracked /\ engine' = engine /\ active' = [active EXCEPT ![n] = FALSE]
      BY <2>3 DEF P!Deactivate
    <3> QED
      BY <2>1, <2>3, <3>1, <3>2
  <2>4. CASE refs'[n] = 0 /\ ~active[n] /\ P!Release(n) /\ UNCHANGED <<active, told, engine, caller>>
    BY <2>1, <2>4 DEF P!Release
  <2> QED
    BY <1>3, <2>2, <2>3, <2>4 DEF P!Stop
<1>4. CASE P!Pause(n)
  BY <1>4 DEF P!Pause, P!Deactivate, P!At
<1>5. CASE P!Resume(n)
  BY <1>5 DEF P!Resume, P!Start
<1> QED
  BY <1>1, <1>2, <1>3, <1>4, <1>5 DEF P!Caller

(* An engine ends only after its call has cleared ev_active.               *)
LEMMA EngineKeepsEngines ==
  ASSUME P!IInv, NEW n \in Names, P!Engine(n)
  PROVE  P!IInv'
<1> USE DEF P!IInv, P!TypeOK, P!ActiveMeansRuns, P!Referenced, P!CallInv, P!Ending, P!Runs, P!Idle
<1>1. CASE P!EngineTests(n)
  BY <1>1 DEF P!EngineTests
<1>2. CASE P!EngineEnters(n)
  BY <1>2 DEF P!EngineEnters, P!OnEntry
<1>3. CASE P!EventHandled(n)
  BY <1>3 DEF P!EventHandled
<1>4. CASE P!LoopLeft(n)
  BY <1>4 DEF P!LoopLeft
<1> QED
  BY <1>1, <1>2, <1>3, <1>4 DEF P!Engine

(* The tracker goes when its thread has been joined.                       *)
LEMMA CallKeepsEngines ==
  ASSUME P!IInv, P!CallerBreaks \/ P!CallerJoins
  PROVE  P!IInv'
<1> USE DEF P!IInv, P!TypeOK, P!ActiveMeansRuns, P!Referenced, P!CallInv, P!Ending, P!Runs, P!Idle
<1>1. CASE P!CallerBreaks
  BY <1>1 DEF P!CallerBreaks
<1>2. CASE P!CallerJoins
  <2> DEFINE n == caller.name
  <2>1. /\ n \in Names /\ caller # P!Idle /\ caller.op \in {"stop", "pause"}
        /\ caller' = P!Idle /\ engine[n] = "ended" /\ engine' = [engine EXCEPT ![n] = "none"]
        /\ refs' = refs /\ active' = active /\ told' = told
    BY <1>2 DEF P!CallerJoins, P!Joinable
  <2>2. tracked' = IF caller.op = "stop" THEN [tracked EXCEPT ![n] = FALSE] ELSE tracked
    BY <1>2 DEF P!CallerJoins, P!Release
  <2>3. P!TypeOK'
    BY <2>1, <2>2
  <2>4. P!ActiveMeansRuns'
    BY <2>1
  <2>5. P!Referenced' /\ P!CallInv'
    BY <2>1, <2>2
  <2> QED
    BY <2>3, <2>4, <2>5
<1> QED
  BY <1>1, <1>2

LEMMA EnginesStep ==
  ASSUME P!IInv, [P!Next]_P!vars
  PROVE  P!IInv'
<1>1. CASE UNCHANGED P!vars
  BY <1>1 DEF P!vars, P!IInv, P!TypeOK, P!ActiveMeansRuns, P!Referenced, P!CallInv, P!Ending, P!Runs
<1>2. CASE P!Next
  BY <1>2, CallerKeepsEngines, EngineKeepsEngines, CallKeepsEngines DEF P!Next
<1> QED
  BY <1>1, <1>2

(* The inductive invariant of the trackers, with the type of each variable *)
(* as its first part, holds in every state.                                *)
THEOREM EnginesInductive == P!Spec => []P!IInv
<1>1. P!Init => P!IInv
  BY EnginesInit
<1>2. P!IInv /\ [P!Next]_P!vars => P!IInv'
  BY EnginesStep
<1> QED
  BY <1>1, <1>2, PTL DEF P!Spec

(* No event base is freed while a thread may use it                        *)
(* (unit_progress_thread_stop).                                            *)
THEOREM BaseOutlivesEngine == P!Spec => []BaseInUse
<1>1. P!IInv => BaseInUse
  BY DEF P!IInv, P!CallInv, BaseInUse
<1> QED
  BY <1>1, EnginesInductive, PTL

(* Between calls ev_active tells whether the engine has a thread: neither  *)
(* stop, pause nor resume joins a thread that is not there or starts a     *)
(* second one.                                                             *)
THEOREM ActiveIsRight == P!Spec => []ActiveMeansRuns
<1>1. P!IInv => ActiveMeansRuns
  BY DEF P!IInv, P!ActiveMeansRuns, P!Ending, P!Idle, P!Runs, ActiveMeansRuns, Ending, Idle, Runs
<1> QED
  BY <1>1, EnginesInductive, PTL

(* A tracker on the list has references: unit_progress_thread_finalize has *)
(* nothing to do.                                                          *)
THEOREM TrackersReferenced == P!Spec => []Referenced
<1>1. P!IInv => Referenced
  BY DEF P!IInv, P!Referenced, P!Ending, P!Idle, Referenced, Ending, Idle
<1> QED
  BY <1>1, EnginesInductive, PTL
=============================================================================
