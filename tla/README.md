# A verification of the PMIx test suite

This directory holds TLA+ models of the programs in this repository, the TLC
configurations that check them, and proofs for TLAPS. The repository is a suite
of tests for PMIx and PRRTE; the programs worth modelling are the ones that
test with several processes and threads at once: the test servers of `unit/`,
which stand in for a resource manager, the driver `simple/simptest.c`, and the
protocols the test clients run against them. The PMIx library itself is not
here; it appears in the models as what calls the upcalls and runs the callbacks.

`PROJECT.json` lists components, runs, mutants, theorems, findings and hazards,
and maps every definition to the lines it models.

`unit/` does not build as checked in: `test_server.c` uses the fields `alive`
and `hostname`, `test_complete` and the names `PMIX_LIST_FOREACH`,
`pmix_list_get_first` and `pmix_list_get_last`, which its headers do not
declare. They are read as what they plainly stand for (the `unit_list` names;
fields of `cli_info_t` and `server_info_t`). `alive` is only read to set
`test_complete`, which nothing reads, and both are left out.

## 1. Inventory

| Component | State | Operations | Interacts with |
|---|---|---|---|
| **Server link** `unit/test_server.c` 353-771 | `server_list` (pipes, lock, one modex slot for each server), `barrier_cnt`, `contrib_cnt`, `fence_buf`, task map | `server_barrier`, `server_send_procs`, `server_fence_contrib`, `server_dmdx_get`, `server_read_cb` | messages over pipes in a star around server 0; library upcalls; main thread sleeps on locks |
| **Client stages** `unit/cli_stages.c`, `pmix_test.c`, `test_server.c` 785-837, 999-1121, `server_callbacks.c` 73-119 | `cli_info[]` (state, pid, ns), `test_abort`, `test_fail` | `server_launch_clients`, `cli_cleanup`, `cli_wait_all`, `cli_kill_all`, SIGCHLD handler, `finalized`, `abort_fn` | shared by main thread and progress thread without a lock; `waitpid(-1)` by both |
| **Server shutdown** `test_server.c` 360-400, 959-997 | `server_list`, exit statuses, sum of them | `server_finalize`, `srv_wait_all` | barrier, then exits of the other servers; SIGCHLD handler |
| **Server init, namespaces** `test_server.c` 82-240, 839-957, `utils.c`, `pmix_regex.c` | pipes, processes, namespace info | `server_init`, `set_namespace` | forks the servers |
| **Upcalls** `unit/server_callbacks.c` | list of published data, spawn flag | publish, lookup, unpublish, spawn, connect, direct modex | run by the progress thread |
| **Progress threads** `unit/unit_progress_threads.c` | list of named trackers, reference counts | init, stop, pause, resume, finalize | libevent loop, pthread join |
| **Objects and lists** `unit/pmix_object.*`, `unit/unit_list.*` | reference counts, chains, length | append, prepend, insert, remove, join, splice, sort | used by all of unit/ |
| **Argument vectors** `unit/argv.c` | the array of pointers and the strings it owns | append, prepend, split, join, delete, insert, copy, free | one caller at a time |
| **Client tests** `unit/test_*.c`, `pmix_client.c`, `pmi_client.c`, `pmi2_client.c` | callback flags, `rc`, count of failed items | fence, publish, replace, internal, error, connect, spawn, resolve peers; the PMI-1 and PMI-2 items | the server under test |
| **simptest** `simple/simptest.c` | `wakeup`, `exit_code`, `children[]`, locks, published data | launch, SIGCHLD handler, upcalls | three threads |
| **simple clients** `simple/*.c` | callback flags and counters | puts, gets, fences, events | simptest |
| **multibeat**, **direct modex test** `prrte/` | callback flags | heartbeats, job control, barrier | the library |
| **prrte/**, **crossversion/**, **check-standard/**, **python/** | files, processes, sets of symbols | drivers and comparisons | external programs |

What is hard here:

* *Concurrency without locks.* `cli_info`, `wakeup` and the pipes are written
  by the main thread and by the progress thread of the library. Nearly every
  hazard in `PROJECT.json` is of this kind.
* *Ordering.* A process is forked first and recorded afterwards; a counter
  tells the last message of a collective by counting only; one slot holds the
  callback of whatever operation is under way.
* *Failure.* Clients die or abort, servers fail before their first barrier,
  launches stop half way, and a time limit meets what is still going on.

What makes each correct: a barrier lets nobody through early and everybody
through in the end; every callback is run once, for its operation, with its
data; each client passes its stages in order, its end is noticed by whoever
reaps it, and the verdict tells the truth; the driver waits for every client
and for no ghost; the ranks of a client program meet at the same fences, read
data of the same round, stay until nobody needs theirs, and tell a failure by
their exit status.

## 2. Plan

Order of work, the most important behaviour first.

1. `Barrier` (abstract), `ServerBarrier` (implements it), `ServerBarrierProofs`. *Done.*
2. `ServerLink`: all messages between servers, shown to implement `ServerBarrier`. *Done.*
3. `ClientStages`, `ServerShutdown`: the life and the end of clients and servers. *Done.*
4. `SimpTest`: the driver of `simple/`. *Done.*
5. `ListSpec` (abstract), `UnitList` (pointer by pointer). *Done.*
6. `Trackers`, `ProgressThreads`. *Done.*
7. `ClientProgram`, `SimplePrograms`, `UnitPrograms`, `ClientRuns`: the programs
   that the ranks run, against the library and the upcalls. *Done.*
8. `Argv`: argument vectors, cell by cell. *Done.*
9. `SimpTestProofs`, `ServerShutdownProofs`, `ClientStagesProofs`. *Done.*
10. `ServerLinkProofs`, `ClientRunsProofs`, `UnitListProofs`, `ArgvProofs`. *Done.*
11. `PmixObject`: reference counts and the chain of constructors; `DebugRunner`,
    `OutputFilter`, `DvmDriver`, `CrossVersion`, `StandardCheck`: the scripts and
    tools that have a logic of their own.

Abstract specifications worth stating: the barrier and the list (done); the
exchange (allgather) behind a fence.

Theorems worth proving: type, counter, safety and refinement of the barrier
(done); the safety of progress threads (done); that the count of simptest is
exact and its report right (done); that `ServerShutdown` counts each failure
once (done); that the stages of a client are passed in order for any number of
clients (done); that the messages of `ServerLink` are framed, that its callbacks
match their operations and that it refines `ServerBarrier`, for any number of
servers (done); that a test of `unit/` reports the failures it sees (done); that
the two chains of a list mirror each other, and that each call does to them what
its name says (done); that an argument vector owns its strings, that each call
makes of it what `argv.h` says, and that splitting undoes joining, for strings and
vectors of any length (done).

## 3. Modules

**Barrier** -- what the callers of `server_barrier` are promised: two counters
for each server, calls made and calls returned. A call returns only when all
have made that call; when all have, all return.

**ServerBarrier** -- the protocol. `pc[s]` is the main thread (`BarrierCall`
arms the lock, `BarrierSend` writes the request, `BarrierReturn` is the end of
`PMIX_WAIT_THREAD`); `ReadRequest`, `Respond` and `ReadResponse` are the branches
of `server_read_cb`. The broadcast of the hub is a loop of single writes, and
requests of the next barrier arrive while it lasts. The refinement maps
`Calls(s)` and `round` to the counters of `Barrier`.

**ServerLink** -- the same pipes with all six commands, each message as the
header write and the payload write of `server_send_msg`, in pipes of capacity
`Cap`. A server has two threads that write: the main thread (`mout`) and the
progress thread (`pout`), which also reads (`cur`), forwards, and runs the
upcalls of its clients. `slot[p]` is the `modex_cbfunc`/`cbdata` pair of a
`server_info_t`, `todo[s]` the operations whose callback has not been run.
Requests for the data of remote clients may go wrong in two ways that the code
does not look at: the library may refuse one (`DmdxRequest`: no answer is ever
sent) or have no data (`LibraryFails`: a header without payload, which the caller
gets as a success). `denied` remembers them, and `Denials` bounds them. `Start`
records an operation also over one that is under way, and notes that in `faults`.
The model stops at bytes that are taken for something else and at a callback that
is run a second time. With everything but the barrier messages projected away it implements
`ServerBarrier`.

**ClientStages** -- `cli_info` as two threads see it. The steps of
`cli_cleanup` are separate (`CleanupSwitch`, `CleanupFinalize`,
`CleanupTerminate`, `CleanupTerminated`, `CleanupFrees`, `CleanupAborts`) because
either thread may run it at any moment; the launch loop stores pid, rank, name and
state in separate steps (`RecordPid`, `RecordRank`, `RecordName`, `RecordForked`),
and a client may call `PMIx_Finalize` or end between any two of them. `overtook`
remembers the clients that the server has heard of before `CLI_FORKED` was stored,
`killed` those that `cli_kill_all` has cleaned up after. `Crash` is the `strcmp()`
of `finalized()` with a name that is not there yet. Constants say which environment
is looked at: the rank of each client, which tells one namespace from several
(`Rank`), who may fail (`Early`), whether the time limit can be exceeded and
whether the launch can fail or `ns_dist` not add up.

**ServerShutdown** -- `server_finalize` of server 0 after the last barrier. Its
children are the other servers and `Left` clients that an abort has left running;
`waitpid(-1)` waits for both.

**SimpTest** -- `main()`, the library's callbacks and the SIGCHLD handler of
`simple/simptest.c`. A client may end before its pid is recorded; `lost` remembers
those whose end the handler drops for that.

**ListSpec** -- lists as sequences, and what each call promises to do to them.

**UnitList** -- `unit_list` node by node. `next` and `prev` of a list are the
fields of its sentinel. A call is one step, with the assignments of its code as
one update of `next` and `prev`; `Transfer` is `unit_list_transfer`, from which
`Join` and `Splice` are made. `front` counts the inserts at index 0, each of which
makes the length too high by one, and `lost` has the lists whose sentinel a call
then takes for an item; nothing is called on those any more. `loop` is a `UNIT_LIST_FOREACH_SAFE` under way,
whose body removes its item (`unpublish_fn`) or appends others (`test_fence`).
The refinement maps a list to the sequence along its next pointers (`A`) and
compares each call with `ListSpec` (`Contract`); `MCUnitList` gives the values.

**Trackers**, **ProgressThreads** -- the trackers of `unit_progress_threads.c`, with one
thread that calls (the code has no lock) and an engine for each name. `stop` and
`pause` are three steps for the caller: clear `ev_active`, tell the base to end
its loop, join. The engine tests `ev_active` and enters the loop in two steps.
`told` is what libevent remembers: the event that `event_base_loopexit` leaves
behind stays until a loop handles it; the flag of `event_base_loopbreak` is
cleared when a loop begins. `Break` chooses, and with it between `unit/` and
`simple/progress_thread.c`. `Trackers` has the state and what is right about it,
`ProgressThreads` what happens to it.

**ClientProgram** -- the notation for client programs: a program is a sequence
of blocks, a block a sequence of instructions, and an instruction one call of the
library (or several in a row that differ in their data only) with what the
program does when it fails. `Await` is the wait for a flag that a callback sets,
`Check` an assertion that sets `rc`, and `Note` a comparison that only prints.

**SimplePrograms**, **UnitPrograms** -- the programs themselves, as functions of
the rank: those of `simple/`, `multibeat/` and the direct modex test of `prrte/`,
and the tests of `unit/` with the PMI-1 and PMI-2 clients. A block is an item of
the test, or the part of `main()` up to the label `done`.

**ClientRuns** -- the ranks run one of these programs. `fault` is chosen at the
start: one instruction of one rank that fails, and fails again in every round
of a loop, or none. `Return` is what a result makes of the process: its place,
`rc`, the count of failed items `ret`, its status; `seen` remembers the failures
it has been shown. The library completes a collective operation when every
member that has not left has called one over the same members, and it does not
know which call of the program that is; `PublishFn`, `LookupFn` and
`UnpublishFn` are the upcalls of the two servers. A rank goes on by itself
(`GoOn`) until it waits, or until it does something that others can observe
(`Show`): what it does in between is its own business and is done at once, the
lowest rank first, which takes nothing from the order of what is observed.

**Argv** -- `argv.c` on an array of cells, each of which is `NULL`, holds a
string, or is past the terminating `NULL` and holds what was there before.
A loop of the code is a function of the number of its rounds (`after`): what is in
memory, or what has been split, after so many of them. `MCArgv` chooses the
strings. `Contract` compares every call with the sequence of arguments that
`argv.h` promises.

`MCClientStages` and `MCSimpTest` define values for constants that a
configuration file cannot write down.

## 4. Runs

| Run | Instance | Shows |
|---|---|---|
| `barrier` | 4 servers, 2 rounds, 2 may fail | nobody leaves early, `barrier_cnt` is exact, `Barrier` is implemented, liveness included; the barrier stays closed when a server is missing; the inductive invariant of the proofs |
| `link_fence` | 3 servers of 2 clients, 2 fences, shutdown | framing, fence safety, termination, implements `ServerBarrier` |
| `link_modex` | 3 servers of 2 clients, 1 fence, both clients of one server get from all others, 1 request refused or failed | every callback is run for its operation and with its data unless one has been recorded over another, all ranks known, all ends but for the refused |
| `link_framing` | 2 servers, gets and shutdown | *violated*: a barrier header between header and payload |
| `clients` | 3 clients of any speed, 2 may fail | stage order, no false alarm, names freed once, failures noticed, `main()` ends without a time limit, each but for clients that overtake their launch |
| `clients_timeout` | 2 clients in 2 namespaces, everything may go wrong | what counts as terminated is dead, `main()` ends |
| `shutdown` | 4 servers and 2 clients that are left, 3 of the children fail | statuses of servers counted once and of clients never, nobody taken off the list early, the wait ends when the clients do |
| `simptest` | 4 clients of any speed, 2 fail | count exact, report last and of the first failure, ends unless a client was dropped |
| `unit_list` | 3 items, 2 of them equal, 2 lists, 2 inserts at index 0 | the chain mirrors itself, owner and length agree with it but for the inserts at index 0, a safe loop misses nothing, each call keeps its promise |
| `progress_threads` | 2 names of 2 references | no base freed in use, `ev_active` tells the truth, calls return |
| `client_programs` | 3 ranks, 24 programs, loops of 2 rounds, at most one failure anywhere | no rank sees a failure that is none, owners of data stay, failures reach the exit status, fences pair up, all leave |
| `argv` | up to 3 arguments, strings of up to 3 characters | each cell owns its string and the last is `NULL`, splitting undoes joining, each call keeps its promise |

The run marked *violated* is a disagreement between the code and what it says
of itself; `findings` in `PROJECT.json` quotes both sides. More of them are
shown by configurations that are kept beside the runs:

| Configuration, of module | Violates | Because |
|---|---|---|
| `ServerLinkTracker`, `ServerLink` | `CallbacksReachable` | the second request of a server overwrites the callback of the first |
| `ClientStagesLaunch`, `MCClientStages` | `OnlyFailuresAbort` | a client faster than `state = CLI_FORKED` aborts a clean run |
| `ClientStagesCrash`, `MCClientStages` | `ServerSurvives` | `finalized()` compares a name that is not stored yet |
| `ClientStagesNames`, `MCClientStages` | `NamesValid` | with two namespaces a freed name is compared |
| `ClientStagesLeft`, `MCClientStages` | `NoneLeftBehind` | after an abort clients run while the server finalizes |
| `ClientStagesKill`, `MCClientStages` | `NoKillAll` | state and pid are read apart: `kill(-1)` |
| `ClientStagesVerdict`, `MCClientStages` | `FailureReported` | `main()` reads the verdict between `CLI_TERM` and `test_abort` |
| `SimpTestWakeup`, `MCSimpTest` | `MainAlwaysEnds` | a client that is reaped before its pid is recorded is never counted |
| `ServerShutdownStatus`, `ServerShutdown` | `FinishedOK` | the SIGCHLD handler drops the status of a server |
| `ServerShutdownLimit`, `ServerShutdown` | `LimitKept` | `waitpid(-1)` waits for a client that an abort has left |
| `UnitListInsert`, `MCUnitList` | `SizeIsCounted` | `unit_list_insert` at index 0 counts twice |
| `ArgvDelete`, `MCArgv` | `ArgcRight` | `pmix_argv_delete` subtracts more than it deletes |
| `ProgressThreadsBreak`, `ProgressThreads` | `CallsReturn` | a loopbreak is forgotten when the loop begins (`simple/`) |
| `ProgressThreadsResume`, `ProgressThreads` | `ActiveMeansRuns` | `ev_active` stays set when the thread cannot be created |

The inductive invariants of two proofs are checked with configurations of the
same kind, which pass: `ServerLinkInvariantFence` and `ServerLinkInvariantModex`
(`LinkInv`, for the instance of `link_fence` and for one client each of three
servers that ask one another, with `AllComplete`), of module `ServerLinkProofs`,
and `ClientRunsInvariant` (`FailureInv`, the instance of `client_programs`). `IInv`
of `ServerBarrierProofs` is checked by `barrier` itself. `ServerLinkShared` passes
too: `CallbacksMatch` when all clients of two servers ask, the hub among them.

The code breaks the plain form of some properties of the passing runs, as the
configurations above show; the properties then name what may break them and say
that nothing else does. `CallbacksMatch` and `AllComplete` except a server that
has recorded one callback over another, and `AllComplete` those who wait for a
request that a library has refused (`Settled`); `CleanRun`, `StageOrder` and
`FailureNoticed` except clients that overtake their launch, and the first two
those that `cli_kill_all` has cleaned up after; `MainEnds` of `SimpTest` a client
that the handler dropped; `SpotChecks` counts the inserts at index 0.

The properties of `client_programs` hold except where the source says otherwise,
and the exceptions are part of them:

| Property | Leaves out | Because |
|---|---|---|
| `NoFalseAlarm` | `simppub` | the server of `simple/` finds nothing that was published |
| | `simptimeout` | the test of the last time limit is the wrong way round |
| | `simpdyn` | its ranks connect to different namespaces |
| `OwnersStay` | the other programs of `simple/`, the PMI clients | they have no fence before `PMIx_Finalize`, or use what needs none |
| `FencesPair` | `pmi2_client`, `simpdyn` | a failed item skips one fence and not the next |
| | `test_fence`, `FenceIgnored` | it ignores the result of the barrier behind an exchange |
| `FailureReported` | the programs of `simple/` | most return 0 whatever has happened |
| | `Overwritten` | the next call of the item, or the return of 0, replaces the `rc` of an assertion |
| | `Ignored` | fences whose result nobody looks at, and comparisons that only print (`Note`: `pmi_client.c` 322-327, `pmi2_client.c` 550-560) |
| `AllLeave` | `simpdie`, `simpft`, `simpclient -abort` when the rank that is to die fails first | the others wait for an event that nobody raises |
| | a callback with status -1 | `multibeat/hb.c` takes it for "not called back yet" |
| | `simpdyn`, `FenceIgnored` | as above |

**Bounds.** Two rounds of a barrier or of a fence are the least in which the
answers of one meet the requests of the next, and nothing is kept from one
round to the one after; `N = 4` servers give the broadcast of the hub a first, a
last and two middle steps; three servers of two clients are the least with a
forwarded message and a local client that waits for another. `Cap = N + 1` is
the least capacity without a deadlock of the message layer itself: the hub has
a pipe to itself, its progress thread is the only reader, and it blocks for
ever on a payload that does not fit. Real pipes hold 64 KiB, and the contents
of a fence in these tests stay far below. A header or one contribution counts 1,
and a concatenation as many as it holds, so that the bound is met in the runs.
In `link_modex` two clients of one server are the least whose requests meet in one
slot, and a third server the least for a request that the hub passes on; one
`Denials` is enough, since each request is answered for itself. Where the servers
do not go on to `server_finalize` clients are not followed to their exit.
Two clients are enough for each race on `cli_info`, which has two threads and
one entry; three let the two threads clean up different entries at a time while
a third still runs. Three items are the least for a splice whose six pointers
belong to different nodes, two lists for a join; `Splice` within one list, and
pieces that touch, are among the calls. `MaxFront` allows two inserts at index 0 on
one list: with the second, the walk of `unit_list_insert` goes past the sentinel. In `ProgressThreads` one caller is what
the code allows; a second name shows that the calls of one leave the other
alone, and nothing depends on how many references there are beyond one.
Three ranks are the least with one that fails, one that has passed the fence and
one that has not reached it; two rounds of a loop let data of one round be read
in the other; one failure is what the programs were written to notice, and a
second would only hide the first. In `Argv` three cells give a first, a middle and a last
argument, and three characters a delimiter in each place.

**Fairness.** Weak fairness of each thread and process: the kernel schedules
them, and libevent serves every descriptor that is ready. In `ServerLink` the
clients are strongly fair, because the progress thread that serves their calls
is disabled for them whenever it is in the middle of another message, and in
`ClientStages` `TimesOut` is, because time goes on whatever the loop of
`main()` does. In `ProgressThreads` the caller finishes a call it has begun, and a
loop that has been told to end ends; that an event is handled is not fair,
since none need come for an hour. Failures, aborts and launch errors are never fair: they need not
happen. Calling a barrier is up to the caller and not fair in `ServerBarrier`. In `ClientRuns`
`Next` as a whole is weakly fair: ranks run until they wait, and the library
answers what can be answered. No more is needed, because a run has no cycle: every step
takes a rank further in its program or a request nearer to its answer.

**Deadlock** is checked in all runs but four: `barrier`, which stops when all
rounds are over or a server is missing (there is no time limit on
`server_barrier`); `link_modex`, where a client whose callback has been overwritten
waits, and `AllComplete` says that nobody does otherwise; `unit_list`, where nothing
is called once all lists are lost; and `client_programs`, where ranks wait for one
that has failed, and `AllLeave` says in which cases.

## 5. Proofs

`ServerBarrierProofs` proves for every number of servers and rounds, under
`ServerBarrierAssumption` only:

* `Inductive`: `Spec => []IInv`.
* `TypeCorrect`: `Spec => []TypeOK`.
* `CounterExact`: `Spec => []CounterIsExact`.
* `BarrierIsSafe`: `Spec => []BarrierSafety`.
* `RefinesBarrier`: the initial states are initial states of `Barrier`, and each
  step is one of its steps or leaves its variables alone.

`TypeOK`, `CounterIsExact` and `BarrierSafety` are not inductive. `IInv` adds what the protocol keeps at each moment:

* `PipeInv`: a pipe holds at most one message, of the kind its writer sends. A
  server sends its next request after the response only, so nothing queues up.
* `StageInv`: a request or response is under way for a server only while its
  main thread sleeps with its lock armed, and never both.
* `bcast >= 0 => cnt = 0`: while the hub answers, no request has been counted.
* `RoundInv`: with a server whose response is already decided counted as one
  round further (`Passed`), all servers are in the same round. This is what
  makes a premature return impossible: the response of round *r* is decided for
  all servers in one step.

`CounterIsExact` is what ties the counter to the set of sleeping servers; when
it reaches the size of the list that set is all servers (`CountedFinite`), and
`RoundInv` carries over. There is one lemma for each action (`...IInv`), and one
for each step of the refinement that is not a stutter.

`SimpTestProofs` proves for every number of clients and all their exit statuses,
under `SimpTestAssumption` only:

* `TypeCorrect`: `wakeup` never falls below zero, also when a client is not found.
* `ForkedWhenRegistered`: a client is forked only when its name is registered.
* `ReportsLast`: after a complete launch `main()` reports when every client has
  been reaped.
* `CountIsExact`: `wakeup` is the number of clients whose end `main()` has not been
  told of (`Untold`): not reaped, in the hands of the handler, or dropped by it.
* `ReportIsTrue`: after a complete launch the report comes when every client has
  been reaped and none dropped, and says success exactly if all ended with it.

No speed of the clients is assumed. `LInv` says that the library calls back for the
client that `main()` waits for; `CInv` that the loop forks each client once and the
handler handles each once, so that the count is exact; `EInv` ties `exit_code` to
the statuses that have been stored. A client that is quicker than `RecordPid` stays
in `Untold` for ever: it makes the driver wait, as `SimpTestWakeup` shows, but
never report too early or wrongly.

`ServerShutdownProofs` proves for every number of servers and of clients that are
left, and every set of failures, whether or not the time limit is exceeded:
`TypeCorrect`; `CountedOnce`, that the sum is the number of failed servers that were
taken off the list, and no failure of a client is in it; `RootLeavesLast`, that a server is
off the list only when it is gone. `IInv` adds that the root is on the list only
until it removes itself, and that the report comes with an empty list or after
the time limit.

Its second half is about `ProgressThreads` (as `P`), for every set of names, every
bound on references and both values of `Break`, under `TrackersAssumption` only:

* `EnginesInductive`: `P!Spec => []P!IInv`, which has the types as a conjunct.
* `BaseOutlivesEngine`: `P!Spec => []BaseInUse`.
* `ActiveIsRight`: `P!Spec => []ActiveMeansRuns`.
* `TrackersReferenced`: `P!Spec => []Referenced`, so that
  `unit_progress_thread_finalize` finds nothing to destroy.

`ActiveMeansRuns` says nothing of a name whose stop or pause is under way, and
is not inductive for that reason; `CallInv` adds that such a name is tracked, is
not active, and has a thread that has not been joined, and that a stop is under
way exactly when there is no reference. There is one lemma for the calls, one
for the engine and one for the rest of a call. That the proofs do not depend on
`Break` shows that the lost loopbreak costs liveness only.

`ClientStagesProofs` proves for any number of clients in any namespaces, as quick as
they like, any of which may end or abort early, with launches that fail and with
the time limit and `cli_kill_all`, under `ClientStagesAssumption` only:

* `NoFalseAbort`: `[]CleanRun`. `NamesFreedOnce`: `[]FreedOnce`.
  `TerminatedIsDead`: `[]TermMeansDead`. `StagesInOrder`: the action property
  `StageOrder`.

`LaunchInv` says which fields of `cli_info` are filled in at each step of the
launch loop, `ClientOK` ties the stage of a client that is `Fine` (it has not
overtaken its launch and was not killed) to the state of its process, and keeps for
all others that `CLI_TERM` means dead; `FrameOK` says where a thread in `cli_cleanup`
can stand, and `OneReaper` that the two threads never clean up after the same client
unless it was killed. The last one is why no lock is needed: a process is reaped
once, and only who reaps it cleans up after it. `cli_kill_all`, which cleans up after
a client that the other thread will reap, is the only call that breaks this, and the
properties name it. `NamesValid`, that no freed name is read, is not among the
theorems: it is false with several namespaces (`ClientStagesNames`).

`ServerLinkProofs` proves for every number of servers, clients and fences and
every capacity of the pipes, under `ServerLinkAssumption` and `Undisturbed`
(which is a hypothesis of each theorem):

* `LinkInvariant`: `[]LinkInv`. `HeadersArePaired`: `[]NoMisframing`.
  `CallbacksAreRight`: `[]CallbacksMatch`. `RanksAreKnown`: `[]RanksKnown`.
  `FencesAreSafe`: `[]FenceSafety`.

`Undisturbed` says that no client asks for data of another server, or that each
server has one client and does not go on into `server_finalize`. What it leaves
out is false: with gets and a shutdown the main thread writes a barrier header
into a message of the progress thread (`link_framing`), and with two clients
that get, the second overwrites the callback of the first (`ServerLinkTracker`).
The runs without a get have any number of clients and the shutdown, and those
with gets have fences too, and any number of requests that a library refuses or
fails. In `CallbacksMatch` such a request is told apart: a caller gets no data only
if the library of the rank it asked for had none.

The code keeps bytes in pipes, and the properties speak of callbacks. `Stream(p)`
is the link between them: what the reader of pipe `p` has of a message, then what
is in the pipe, then what the writer of `p` has still to write. A `write()` moves
nothing in it and a read takes its first chunk, so most steps leave the stream, or
the set `Messages(p)` of the messages found in it, as they were. `LinkInv` says:

* `StreamsOK`: in each stream, a payload follows its header at once and belongs to
  it, and a server has one header there at most. Of the two threads of a server one
  only has something to write. This is `NoMisframing`, made inductive.
* `MessagesOK`, `OneMessage`: each message is on its route, carries what its owner
  waits for, and is the only one of its owner in all pipes. The owner is the server
  on whose behalf the message travels, so this is what ties a callback to its data.
* `RequestsOK`, `ServersOK`: the same for a get that waits in a server for its
  library, and what a server waits for in its threads, slots and clients.
* `CountersOK`: `barrier_cnt` and `contrib_cnt` count the servers whose message the
  hub has taken, each once.
* `InStep`: with an exchange whose result is on its way counted as over, all
  servers have been through the same number of exchanges. A premature fence is
  impossible for this reason, and the count of the hub suffices to tell that
  a fence is complete.

There is a lemma for each branch of `server_read_cb` and for each step of the
other threads, and underneath them lemmas on what sending, forwarding, taking and
broadcasting do to streams and to messages (`Concatenated` and what follows it).

The last part proves under the same hypothesis `RefinesServerBarrier`: the
initial states are initial states of `ServerBarrier`, and each step is one of its
steps or leaves its variables alone, with the mapping that `link_fence` checks.
`AnswersOK` is added to `LinkInv`: the progress thread of the hub is either in the
broadcast of a barrier, from some server down to 0, or about to write nothing that
concerns barriers. That a pipe holds one barrier header at most follows
from `LinkInv`, so that what `Commands` filters out of a pipe changes only in the
steps of the barrier.

`ClientRunsProofs` proves for every number of ranks and rounds and every choice of
programs `FailureIsReported`: `Spec => []FailureReported`. It has two parts. The
first is about the texts: a test of `pmix_client.c` is one block whose
instructions end the process, or are resolved by a `passed` that does
(`Body("pmix", ...)`), and a PMI client a sequence of items whose failures count
(`Item`); `UnitTextOK` draws from that what the second part needs of a program.
The second part is the invariant `FailureInv`: a failure that a rank has seen is
`Followed`, which means that it is counted in `ret`, or in `rc` and the item is not over, or
will be found by the `passed` to come. `FailureReported` looks at ranks
that have ended and is not inductive by itself. What the code does not report is
in the texts, as the exceptions of the table above: a failed assertion that is
overwritten, and comparisons that only print.

The loops of the texts are concatenations of any number of blocks (`FlattenSeq`).
That these have the shape of their blocks is proved by induction with a set in
the place of the predicate (`InductionOnSets`, `FlattenSeqClosed`).

`UnitListProofs` proves for every number of lists and items
`ListsStayLinked` (`DoublyLinked`: the two chains mirror each other),
`AssertsHold` (`SpotChecks`: the asserts of `unit_list.h` hold, each counter is the
number of items found by following the pointers and of the inserts at index 0, and
without such inserts no call takes a sentinel for an item), `LoopsMissNothing`
(`LoopVisitsAll`) and `CallsDoAsNamed` (`Contract`: each call does to the sequences
what `ListSpec` says). The invariant is `ListInv`: there is a sequence of items for
each list (`Contents`), no item in two places, such that

* `Holds`: the chains of the list are the edges of its sequence, closed by the
  sentinel (`Edge`, `Closed`); an item in no sequence has no owner, and
  the counter is the length and `front`. This makes a call that relinks four pointers
  a change of the sequences, with no walk along pointers.
* `LoopOK`: what was on the list when the loop began is what the loop has seen,
  followed by the start of what is still to come (`Agrees`); the successor it has
  read in advance is the head of that, or the end, read when all that was there
  had been seen (`InLoop`).

`Transfer` and what is made from it (`Join`, `Splice`, within one list or across two)
have lemmas that say which sequences result. `SpotChecks` and `Contract` follow the
pointers with a recursive function; that it is defined, and
yields the sequence of `Holds`, is an induction with a set in the place of the
predicate as above (`WalkIs`, `PathIs`).

`ArgvProofs` proves for all strings, every number of elements and calls in any
order, under `ArgvAssumption` (what is added to a vector has no delimiter in it):

* `Inductive`: `Spec => []ArgvInv`. `MemoryIsOwned`: `Spec => []MemorySafe`.
* `CallsKeepContract`: `Spec => Contract`.
* `SplitInvertsJoin`: `Spec => []SplitUndoesJoin`.

`ArgvInv` says that there is a sequence `s` of strings for which the array and the
heap stand (`Stands`): the array is as long as `s` and its `NULL`, cell `i` points
to a string equal to `s[i]`, no two cells to the same one, and nothing else is
allocated. `MemorySafe` follows from it, and so does what the elements are.
Within a call this holds of some cells only, and of the heap but for what was there
before; `Partly(m, t, A, h)` says so of the cells in `A`, and the calls go from
one `Partly` to another:

* `StrdupAllFills`, `AppendAllStands`: each round of a loop that copies strings adds
  one cell to `A`, with an address that was not in use.
* `MovesUp`, `MovesDown`: what the shifting loops of `pmix_argv_delete`,
  `pmix_argv_insert` and `pmix_argv_prepend_nosize` leave in each cell. The order
  of the rounds matters, as source and target overlap.
* `Rearranged`: cells that were traced back to distinct cells of the old array
  (`Traced`) still own their strings, whatever was freed besides.

`SplitInvertsJoin` needs that the pieces of a joined string are its elements. The
splitting loop is followed over a string with one more element and a delimiter at
its end (`PiecesOfElement`), and from there over all elements (`PiecesOfJoin`);
the elements have no delimiter in them because the strings that are added have
none, and because splitting leaves none (`ArgvInv` has `s \in Seq(Plain)`). Inductions
over the rounds of a loop use `InductionOnSets` again.

TLC cannot enumerate the sequences of `ArgvInv`; it checks the three properties that
follow from it.

A convention of all modules with proofs: an `EXCEPT` changes an index once. tlapm
1.4.5 takes each update, and each `@`, against the original function, where TLA+
takes it against the result of the updates before it.

Model-checked only:

* Liveness everywhere, and the fairness part of the two refinements.
* `ServerLink` when it is disturbed, for the instances of section 4: `CallbacksMatch`
  with several requests over one slot.
* `NoFalseAlarm`, `OwnersStay` and `FencesPair` of `ClientRuns`. They depend on how the
  texts of all ranks of a program fit together call by call, which is
  a fact about each of the 24 programs and not about their shape.
* `ArgcRight` of `Argv`, which is false (`ArgvDelete`); what is true of `*argc` is
  part of `Contract`.

## 6. Not modelled

* The contents of namespaces and regular expressions, the values and fields
  that the clients compare, logging, and the wording of messages. A value is
  told from another by its key, its owner and its round.
* The library: `ClientRuns` assumes of it what its head says. Heartbeats
  (`multibeat/hb.c`) are calls with a callback; whether the monitor
  misses one is up to the library.
* Two failures in one run of a client program.
* The order of the assignments in the callbacks of the tests (`get_cb` of
  `test_replace.c` clears the flag before it stores the status).
* Some assignments that follow each other are one step: `exit_code` and the status
  of the child in `SimpTest`, a callback and its `cbdata` in a slot, which no other
  thread reads in between; and the search of `finalized()` with the `cli_finalize`
  behind it, between which `cli_kill_all` could clean up after the client.
* `FENCE_CONTRIB` without data: each server contributes something, and a
  contribution counts whether or not it has bytes.
* `server_send_procs` once for each namespace: the exchange of the process maps
  happens once, before the clients are forked. With `ns_dist` the second exchange
  runs beside the clients of the first namespace and shares the slot of their fences.
* `simple/xnspace.c`, `pmix_argv_len`, and `pmix_argv_join_range` of an empty
  range, which writes before its buffer (see `findings`).
* Short reads: a reader that gets fewer bytes than a payload has goes on with
  them (`test_server.c` 556). In the model, a read gets what one write wrote; what can go wrong with
  that is `NoMisframing`.
* Failures of `pipe` and `fork` in server 0 itself, signals other than SIGCHLD and SIGKILL.
* `execve` that fails in the child of `server_launch_clients`, and allocation that fails.
* Build, CI and packaging scripts: they have no state of their own.
* What section 2 lists as item 11, until it is done: tools and scripts around
  external programs.
