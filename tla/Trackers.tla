---- MODULE Trackers ----
(***************************************************************************)
(* The list of trackers of unit/unit_progress_threads.c, the engine that   *)
(* each has, and the caller; and what is right about them. ProgressThreads *)
(* has the calls and the steps of the engines.                             *)
(***************************************************************************)
EXTENDS Naturals

CONSTANTS Names,
          MaxRefs,   \* bound: references to one name
          Break      \* "loopexit" or "loopbreak"

ASSUME TrackersAssumption ==
  MaxRefs \in Nat \ {0} /\ Break \in {"loopexit", "loopbreak"}

VARIABLES refs,      \* refcount of the tracker of a name
          tracked,   \* the tracker is on the list, its event base exists
          active,    \* ev_active
          told,      \* the event base has been told to leave its loop
          engine,    \* the thread: none, test (of ev_active), enter, loop, ended
          caller     \* where the caller is, and with which name

Idle == [at |-> "idle"]

Runs(n) == engine[n] \in {"test", "enter", "loop"}

\* stop or pause of n is under way.
Ending(n) == caller # Idle /\ caller.name = n

\* An event base is not freed while the thread of its engine may use it.
BaseInUse == \A n \in Names : engine[n] # "none" => tracked[n]

\* Between calls an engine runs exactly when ev_active says so: after a pause
\* or the last stop no thread handles events, and none is started twice.
ActiveMeansRuns ==
  \A n \in Names : ~Ending(n) => (active[n] <=> engine[n] # "none") /\ (active[n] => Runs(n))

\* A name that is tracked has a reference, but for the end of the last stop. So
\* unit_progress_thread_finalize never finds anything to remove.
Referenced ==
  \A n \in Names : tracked[n] => refs[n] > 0 \/ (Ending(n) /\ caller.op = "stop")

\* While a call waits for an engine, the engine is told to end and its thread is
\* not joined; without a tracker there is neither.
CallInv ==
  \A n \in Names :
    /\ Ending(n) => tracked[n] /\ ~active[n] /\ engine[n] # "none"
                    /\ (refs[n] = 0 <=> caller.op = "stop")
    /\ ~tracked[n] => refs[n] = 0 /\ ~active[n] /\ engine[n] = "none"
====
