---- MODULE ProgressThreads ----
(***************************************************************************)
(* The progress threads of unit/unit_progress_threads.c: a thread that     *)
(* calls init, stop, pause, resume and finalize, and the engine of each    *)
(* name. simple/progress_thread.c has the same engine and the same stop    *)
(* for one thread, but with event_base_loopbreak for                       *)
(* event_base_loopexit: Break is which of the two.                         *)
(***************************************************************************)
EXTENDS Trackers

vars == <<refs, tracked, active, told, engine, caller>>

At(stage, op, n) == [at |-> stage, op |-> op, name |-> n]

TypeOK ==
  /\ refs \in [Names -> 0 .. MaxRefs]
  /\ tracked \in [Names -> BOOLEAN] /\ active \in [Names -> BOOLEAN] /\ told \in [Names -> BOOLEAN]
  /\ engine \in [Names -> {"none", "test", "enter", "loop", "ended"}]
  /\ caller \in {Idle} \cup [at : {"break", "join"}, op : {"stop", "pause"}, name : Names]

Init ==
  /\ refs = [n \in Names |-> 0]
  /\ tracked = [n \in Names |-> FALSE] /\ active = tracked /\ told = tracked
  /\ engine = [n \in Names |-> "none"]
  /\ caller = Idle

----
\* start_progress_engine: the engine runs before or after the caller goes on.
Start(n) ==
  /\ active' = [active EXCEPT ![n] = TRUE]
  /\ engine' = [engine EXCEPT ![n] = "test"]

InitNew(n) ==
  /\ caller = Idle /\ ~tracked[n]
  /\ tracked' = [tracked EXCEPT ![n] = TRUE]
  /\ refs' = [refs EXCEPT ![n] = 1]
  /\ told' = [told EXCEPT ![n] = FALSE]
  /\ Start(n)
  /\ UNCHANGED caller

InitAgain(n) ==
  /\ caller = Idle /\ tracked[n] /\ refs[n] < MaxRefs
  /\ refs' = [refs EXCEPT ![n] = @ + 1]
  /\ UNCHANGED <<tracked, active, told, engine, caller>>

\* stop_progress_engine: ev_active is cleared, the loop is told to end, and the
\* caller waits for the thread.
Deactivate(n, op) ==
  /\ active' = [active EXCEPT ![n] = FALSE]
  /\ caller' = At("break", op, n)
  /\ UNCHANGED <<tracked, told, engine>>

Release(n) == tracked' = [tracked EXCEPT ![n] = FALSE]

\* The last reference ends an engine that is not paused.
Stop(n) ==
  /\ caller = Idle /\ tracked[n]
  /\ refs' = [refs EXCEPT ![n] = @ - 1]
  /\ \/ refs'[n] > 0 /\ UNCHANGED <<tracked, active, told, engine, caller>>
     \/ refs'[n] = 0 /\ active[n] /\ Deactivate(n, "stop")
     \/ refs'[n] = 0 /\ ~active[n] /\ Release(n) /\ UNCHANGED <<active, told, engine, caller>>

\* Whoever else has a reference: the engine stops for all.
Pause(n) ==
  /\ caller = Idle /\ tracked[n] /\ active[n]
  /\ Deactivate(n, "pause")
  /\ UNCHANGED refs

Resume(n) ==
  /\ caller = Idle /\ tracked[n] /\ ~active[n]
  /\ Start(n)
  /\ UNCHANGED <<refs, tracked, told, caller>>

\* pthread_create fails: ev_active has been set.
ResumeFails(n) ==
  /\ caller = Idle /\ tracked[n] /\ ~active[n]
  /\ active' = [active EXCEPT ![n] = TRUE]
  /\ UNCHANGED <<refs, tracked, told, engine, caller>>

CallerBreaks ==
  /\ caller.at = "break"
  /\ told' = [told EXCEPT ![caller.name] = TRUE]
  /\ caller' = [caller EXCEPT !.at = "join"]
  /\ UNCHANGED <<refs, tracked, active, engine>>

\* Mutant: the tracker is released without a join.
JoinableAlways(n) == TRUE
Joinable(n) == engine[n] = "ended"

CallerJoins ==
  LET n == caller.name IN
  /\ caller.at = "join" /\ Joinable(n)
  /\ engine' = [engine EXCEPT ![n] = IF @ = "ended" THEN "none" ELSE @]
  /\ IF caller.op = "stop" THEN Release(n) ELSE UNCHANGED tracked
  /\ caller' = Idle
  /\ UNCHANGED <<refs, active, told>>

----
\* Mutant: unit_progress_threads.c with event_base_loopbreak, too.
OnEntryCleared(n) == FALSE
\* event_base_loop clears the flag of event_base_loopbreak when it begins;
\* event_base_loopexit has left an event in the base, which stays.
OnEntry(n) == told[n] /\ Break = "loopexit"

EngineTests(n) ==
  /\ engine[n] = "test"
  /\ engine' = [engine EXCEPT ![n] = IF active[n] THEN "enter" ELSE "ended"]
  /\ UNCHANGED <<refs, tracked, active, told, caller>>

\* ev_active may have been cleared by now.
EngineEnters(n) ==
  /\ engine[n] = "enter"
  /\ engine' = [engine EXCEPT ![n] = "loop"]
  /\ told' = [told EXCEPT ![n] = OnEntry(n)]
  /\ UNCHANGED <<refs, tracked, active, caller>>

\* EVLOOP_ONCE: the loop is left after the events that are ready. The timer that
\* keeps the base from being empty fires once in an hour.
EventHandled(n) ==
  /\ engine[n] = "loop"
  /\ engine' = [engine EXCEPT ![n] = "test"]
  /\ UNCHANGED <<refs, tracked, active, told, caller>>

LoopLeft(n) ==
  /\ engine[n] = "loop" /\ told[n]
  /\ engine' = [engine EXCEPT ![n] = "test"]
  /\ told' = [told EXCEPT ![n] = FALSE]
  /\ UNCHANGED <<refs, tracked, active, caller>>

Caller(n) == InitNew(n) \/ InitAgain(n) \/ Stop(n) \/ Pause(n) \/ Resume(n)
Engine(n) == EngineTests(n) \/ EngineEnters(n) \/ EventHandled(n) \/ LoopLeft(n)

Next == \/ \E n \in Names : Caller(n) \/ Engine(n)
        \/ CallerBreaks \/ CallerJoins

Fairness ==
  /\ WF_vars(CallerBreaks) /\ WF_vars(CallerJoins)
  /\ \A n \in Names : WF_vars(EngineTests(n)) /\ WF_vars(EngineEnters(n)) /\ WF_vars(LoopLeft(n))

Spec == Init /\ [][Next]_vars /\ Fairness

\* With a pthread_create that fails in unit_progress_thread_resume.
SpecFails == Init /\ [][Next \/ \E n \in Names : ResumeFails(n)]_vars /\ Fairness

----
\* The inductive invariant of the proofs.
IInv == TypeOK /\ ActiveMeansRuns /\ Referenced /\ CallInv

\* stop and pause return.
CallsReturn == caller # Idle ~> caller = Idle
====
