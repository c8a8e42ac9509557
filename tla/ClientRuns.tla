----------------------------- MODULE ClientRuns -----------------------------
(***************************************************************************)
(* The ranks of a job run one of the client programs, and the PMIx library *)
(* with the upcalls of the test server answers them.  At most one call or  *)
(* assertion of one rank fails, and it fails again whenever it is repeated.*)
(*                                                                         *)
(* The library, which is not part of the repository, is taken to do this:  *)
(* a collective operation completes when every member that has not left    *)
(* has called one of the same kind over the same members, and may report   *)
(* an error when a member has left; what a rank has committed is found     *)
(* from then on; the requests of a rank are served in the order it makes   *)
(* them; and an event reaches the handlers that are registered when it is  *)
(* raised, and no later one.                                               *)
(***************************************************************************)
EXTENDS SimplePrograms, UnitPrograms, TLC

CONSTANT Programs     (* the programs that are run, one in each behaviour  *)

ASSUME ProgramsAssumption == Programs \subseteq SimpleProgram \cup UnitProgram

VARIABLES
  prog,         (* the program                                             *)
  text,         (* of each rank: its instructions                          *)
  fault,        (* the one instruction that fails: its rank and place      *)
  pc,           (* of each rank: its block, and the instruction in it      *)
  status,       (* "runs", or how it has left: "ok" or "failed"            *)
  rc,           (* whether rc holds an error                               *)
  ret,          (* whether a test item has failed                          *)
  seen,         (* the instructions that it has seen fail                  *)
  waiting,      (* the collective operation that it is in, if any          *)
  broken,       (* its last collective operation has reported an error     *)
  asked,        (* its outstanding gets                                    *)
  bad,          (* a get has brought an error or an unexpected value       *)
  calling,      (* "no", "asked" (for a callback) or "lost" (for ever)     *)
  registering,  (* its request to register an event handler is on its way  *)
  registered,   (* it has an event handler                                 *)
  notified,     (* the handler has been called                             *)
  committed,    (* what it has committed: from keys to values              *)
  store         (* what is published: from keys to the ranks               *)

program == <<prog, text, fault>>
process == <<pc, status, rc, ret, seen>>
library == <<waiting, broken, asked, bad, calling, registering, registered, notified, committed, store>>
vars == <<program, process, library>>

Text(p, r) == IF p \in SimpleProgram THEN SimpleText(p, r) ELSE UnitText(p, r)
Places(r) == UNION {{b} \X DOMAIN text[r][b] : b \in DOMAIN text[r]}
At(r, at) == text[r][at[1]][at[2]]
Now(r) == At(r, pc[r])
Doing(r, op) == Now(r).op = op
Left(r) == status[r] # "runs"
Nobody == [rank |-> Size, at |-> <<1, 1>>]
Fails(r) == fault = [rank |-> r, at |-> pc[r]]

-----------------------------------------------------------------------------
(* Init.                                                                   *)

CanFail(r) == {at \in Places(r) : At(r, at).fail # "none" /\ At(r, at).op # "passed"}
Faults == {Nobody} \cup UNION {{[rank |-> r, at |-> at] : at \in CanFail(r)} : r \in Rank}

Init ==
  /\ prog \in Programs
  /\ text = [r \in Rank |-> Text(prog, r)]
  /\ fault \in Faults
  /\ pc = [r \in Rank |-> <<1, 1>>]
  /\ status = [r \in Rank |-> "runs"]
  /\ rc = [r \in Rank |-> FALSE]
  /\ ret = [r \in Rank |-> FALSE]
  /\ seen = [r \in Rank |-> {}]
  /\ waiting = [r \in Rank |-> {}]
  /\ broken = [r \in Rank |-> FALSE]
  /\ asked = [r \in Rank |-> {}]
  /\ bad = [r \in Rank |-> FALSE]
  /\ calling = [r \in Rank |-> "no"]
  /\ registering = [r \in Rank |-> FALSE]
  /\ registered = [r \in Rank |-> FALSE]
  /\ notified = [r \in Rank |-> FALSE]
  /\ committed = [r \in Rank |-> <<>>]
  /\ store = <<>>

-----------------------------------------------------------------------------
(* What a call that has returned, or an assertion, makes of the process.   *)

(* ret += (rc ? 1 : 0)                                                     *)
ItemDoneLast(failures, error) == error
ItemDone(failures, error) == failures \/ error

Return(r, failed) ==
  LET is == Now(r)
      to == IF failed THEN is.fail ELSE "none"
      sees == to # "none"
      error == CASE is.op = "note" -> rc[r]
                 [] is.op = "check" -> sees \/ rc[r]
                 [] OTHER -> sees
      exits == to \in {"exit", "exit0", "status"}
      ends == to = "next" \/ (to \in {"skip", "none"} /\ pc[r][2] = Len(text[r][pc[r][1]]))
  IN
  /\ status' = [status EXCEPT ![r] = IF exits THEN (IF to = "exit0" THEN "ok" ELSE "failed") ELSE @]
  /\ pc' = [pc EXCEPT ![r] = CASE exits -> @
                              [] to = "done" -> <<Len(text[r]), 1>>
                              [] ends -> <<@[1] + 1, 1>>
                              [] OTHER -> <<@[1], @[2] + 1>>]
  /\ rc' = [rc EXCEPT ![r] = error /\ ~ends]
  /\ ret' = [ret EXCEPT ![r] = IF ends THEN ItemDone(@, error) ELSE @]
  /\ seen' = [seen EXCEPT ![r] = IF sees THEN @ \cup {pc[r]} ELSE @]

-----------------------------------------------------------------------------
(* What the ranks do.                                                      *)

(* A call that concerns no other rank, or an assertion.                    *)
CallReturns(r) ==
  /\ Now(r).op \in {"call", "check", "note", "passed", "sleep"}
  /\ Return(r, Fails(r) \/ (Doing(r, "passed") /\ seen[r] # {}))
  /\ UNCHANGED library

Put(r) ==
  /\ Doing(r, "commit")
  /\ Return(r, Fails(r))
  /\ committed' = IF Fails(r) THEN committed
                  ELSE [committed EXCEPT ![r] = (Now(r).arg.key :> Now(r).arg.val) @@ @]
  /\ UNCHANGED <<waiting, broken, asked, bad, calling, registering, registered, notified, store>>

EnterCollective(r) ==
  /\ Doing(r, "fence")
  /\ Return(r, Fails(r))
  /\ waiting' = IF Fails(r) THEN waiting ELSE [waiting EXCEPT ![r] = {Now(r).arg}]
  /\ UNCHANGED <<broken, asked, bad, calling, registering, registered, notified, committed, store>>

LeaveCollective(r) ==
  /\ Doing(r, "await") /\ Now(r).arg = "fence"
  /\ Return(r, Fails(r) \/ broken[r])
  /\ broken' = [broken EXCEPT ![r] = FALSE]
  /\ UNCHANGED <<waiting, asked, bad, calling, registering, registered, notified, committed, store>>

StartGets(r) ==
  /\ Doing(r, "get")
  /\ Return(r, Fails(r))
  /\ LET get == Now(r).arg
     IN  asked' = IF Fails(r) THEN asked
                  ELSE [asked EXCEPT ![r] = {<<owner, get.key, get.val>> : owner \in get.owners}]
  /\ UNCHANGED <<waiting, broken, bad, calling, registering, registered, notified, committed, store>>

FinishGets(r) ==
  /\ Doing(r, "await") /\ Now(r).arg \in {"gets", "timed gets"}
  /\ Return(r, Fails(r) \/ bad[r])
  /\ bad' = [bad EXCEPT ![r] = FALSE]
  /\ UNCHANGED <<waiting, broken, asked, calling, registering, registered, notified, committed, store>>

StartCall(r) ==
  /\ Doing(r, "ask")
  /\ Return(r, Fails(r))
  /\ calling' = IF Fails(r) THEN calling ELSE [calling EXCEPT ![r] = "asked"]
  /\ UNCHANGED <<waiting, broken, asked, bad, registering, registered, notified, committed, store>>

FinishCall(r) ==
  /\ Doing(r, "await") /\ Now(r).arg = "callback"
  /\ Return(r, Fails(r) /\ Now(r).fail = "status")
  /\ UNCHANGED library

RegisterHandler(r) ==
  /\ Doing(r, "register")
  /\ Return(r, FALSE)
  /\ registering' = [registering EXCEPT ![r] = TRUE]
  /\ UNCHANGED <<waiting, broken, asked, bad, calling, registered, notified, committed, store>>

WaitUntilNotified(r) ==
  /\ Doing(r, "completed")
  /\ Return(r, FALSE)
  /\ UNCHANGED library

(* An event, to every rank with a handler.                                 *)
Raise == notified' = [q \in Rank |-> notified[q] \/ registered[q]]

Exit(r) ==
  /\ Doing(r, "die")
  /\ status' = [status EXCEPT ![r] = "failed"]
  /\ Raise
  /\ UNCHANGED <<pc, rc, ret, seen, waiting, broken, asked, bad, calling, registering, registered, committed, store>>

(* abort_fn of simptest.c notifies the ranks instead of aborting them.     *)
CallAbort(r) ==
  /\ Doing(r, "abort")
  /\ Return(r, Fails(r))
  /\ IF Fails(r) THEN UNCHANGED notified ELSE Raise
  /\ UNCHANGED <<waiting, broken, asked, bad, calling, registering, registered, committed, store>>

(* The time limit is up, or the operation has completed before it.         *)
WaitUntilTimeout(r) ==
  /\ Doing(r, "expire")
  /\ LET timedout == (waiting[r] # {} \/ asked[r] # {}) /\ ~Fails(r)
     IN  Return(r, timedout = (Now(r).arg = "inverted"))
  /\ waiting' = [waiting EXCEPT ![r] = {}]
  /\ asked' = [asked EXCEPT ![r] = {}]
  /\ broken' = [broken EXCEPT ![r] = FALSE]
  /\ bad' = [bad EXCEPT ![r] = FALSE]
  /\ UNCHANGED <<calling, registering, registered, notified, committed, store>>

(* PMIx_Finalize, and the exit status.                                     *)
Finish(r) ==
  /\ Doing(r, "finalize")
  /\ LET failed == CASE Now(r).arg = "zero" -> FALSE
                      [] Now(r).arg = "rc" -> Fails(r)
                      [] Now(r).arg = "ret" -> Fails(r) \/ ret[r]
     IN  status' = [status EXCEPT ![r] = IF failed THEN "failed" ELSE "ok"]
  /\ seen' = [seen EXCEPT ![r] = IF Fails(r) THEN @ \cup {pc[r]} ELSE @]
  /\ UNCHANGED <<pc, rc, ret, library>>

-----------------------------------------------------------------------------
(* publish_fn, lookup_fn and unpublish_fn of the two test servers.  The    *)
(* one of simptest.c forgets what has been published before, answers a     *)
(* lookup with PMIX_ERR_NOT_FOUND whatever it finds, and unpublishes       *)
(* nothing; the one of server_callbacks.c keeps the first to publish a key.*)

OfSimptest == prog \in SimpleProgram

SimptestPublishFn(keys, r) == [k \in keys |-> r]
SimptestLookupFn(key) == {}
SimptestUnpublishFn(keys) == store
UnitPublishFn(keys, r) == store @@ [k \in keys |-> r]
UnitLookupFn(key) == IF key \in DOMAIN store THEN {store[key]} ELSE {}
UnitUnpublishFn(keys) == [k \in DOMAIN store \ keys |-> store[k]]

PublishFn(keys, r) == IF OfSimptest THEN SimptestPublishFn(keys, r) ELSE UnitPublishFn(keys, r)
LookupFn(key) == IF OfSimptest THEN SimptestLookupFn(key) ELSE UnitLookupFn(key)
UnpublishFn(keys) == IF OfSimptest THEN SimptestUnpublishFn(keys) ELSE UnitUnpublishFn(keys)

PublishKeys(r) ==
  /\ Doing(r, "publish")
  /\ Return(r, Fails(r))
  /\ store' = IF Fails(r) THEN store ELSE PublishFn(Now(r).arg, r)
  /\ UNCHANGED <<waiting, broken, asked, bad, calling, registering, registered, notified, committed>>

LookupKey(r) ==
  /\ Doing(r, "lookup")
  /\ Return(r, Fails(r) \/ LookupFn(Now(r).arg.key) # Now(r).arg.owners)
  /\ UNCHANGED library

UnpublishKeys(r) ==
  /\ Doing(r, "unpublish")
  /\ Return(r, Fails(r))
  /\ store' = IF Fails(r) THEN store ELSE UnpublishFn(Now(r).arg)
  /\ UNCHANGED <<waiting, broken, asked, bad, calling, registering, registered, notified, committed>>

(* A rank goes on by itself until it waits for something that it has not   *)
(* got yet, or shows the others something: they cannot tell when it does   *)
(* what it does in between.  So that is done at once, the lowest rank      *)
(* first.                                                                  *)
Arrived(r, what) == CASE what = "fence" -> waiting[r] = {}
                      [] what \in {"gets", "timed gets"} -> asked[r] = {}
                      [] what = "callback" -> calling[r] = "no"
GoesOn(r) ==
  /\ status[r] = "runs"
  /\ \/ Now(r).op \in {"call", "check", "note", "passed", "sleep", "fence", "get", "ask", "register"}
     \/ Now(r).op = "await" /\ Arrived(r, Now(r).arg)
     \/ Now(r).op = "completed" /\ notified[r]

GoOn(r) ==
  /\ GoesOn(r) /\ \A q \in 0 .. r - 1 : ~GoesOn(q)
  /\ \/ CallReturns(r)
     \/ EnterCollective(r) \/ LeaveCollective(r) \/ StartGets(r) \/ FinishGets(r)
     \/ StartCall(r) \/ FinishCall(r) \/ RegisterHandler(r) \/ WaitUntilNotified(r)
  /\ UNCHANGED program

Show(r) ==
  /\ status[r] = "runs"
  /\ \/ Put(r) \/ Exit(r) \/ CallAbort(r) \/ WaitUntilTimeout(r) \/ Finish(r)
     \/ PublishKeys(r) \/ LookupKey(r) \/ UnpublishKeys(r)
  /\ UNCHANGED program

-----------------------------------------------------------------------------
(* What the library does.                                                  *)

Same(c, d) == c.kind = d.kind /\ c.members = d.members
Inside(r, c) == ~Left(r) /\ \E d \in waiting[r] : Same(c, d)

CollectiveCompletes ==
  \E q \in Rank : \E c \in waiting[q] : \E ok \in BOOLEAN :
    /\ q \in c.members /\ ~Left(q)
    /\ \A r \in c.members : Left(r) \/ (Inside(r, c) /\ ~registering[r])
    /\ ok \/ \E r \in c.members : Left(r)
    /\ waiting' = [r \in Rank |-> IF Inside(r, c) THEN {} ELSE waiting[r]]
    /\ broken' = [r \in Rank |-> IF Inside(r, c) THEN ~ok ELSE broken[r]]
    /\ UNCHANGED <<program, process, asked, bad, calling, registering, registered, notified, committed, store>>

(* The answers to the gets of a rank are taken together, when each can be  *)
(* given.                                                                  *)
Found(get) == get[2] \in DOMAIN committed[get[1]] /\ committed[get[1]][get[2]] = get[3]
Reply(r) ==
  /\ asked[r] # {}
  /\ \A get \in asked[r] : DOMAIN committed[get[1]] # {} \/ Left(get[1])
  /\ asked' = [asked EXCEPT ![r] = {}]
  /\ bad' = [bad EXCEPT ![r] = \E get \in asked[r] : ~Found(get)]
  /\ UNCHANGED <<program, process, waiting, broken, calling, registering, registered, notified, committed, store>>

(* The time limit of 240 s is longer than anything but waiting for a rank  *)
(* that has failed.                                                        *)
GetsTimeOut(r) ==
  /\ fault # Nobody
  /\ asked[r] # {} /\ Now(r).arg = "timed gets"
  /\ asked' = [asked EXCEPT ![r] = {}]
  /\ bad' = [bad EXCEPT ![r] = TRUE]
  /\ UNCHANGED <<program, process, waiting, broken, calling, registering, registered, notified, committed, store>>

HandlerRegistered(r) ==
  /\ registering[r]
  /\ registering' = [registering EXCEPT ![r] = FALSE]
  /\ registered' = [registered EXCEPT ![r] = TRUE]
  /\ UNCHANGED <<program, process, waiting, broken, asked, bad, calling, notified, committed, store>>

(* The callback, with the status -1 (PMIX_ERROR) when it is "lost".        *)
Callback(r) ==
  /\ calling[r] = "asked" /\ ~registering[r]
  /\ \E to \in {"no", "lost"} :
       /\ to = "lost" => Fails(r) /\ Now(r).fail \in {"status", "wait"}
       /\ calling' = [calling EXCEPT ![r] = to]
  /\ UNCHANGED <<program, process, waiting, broken, asked, bad, registering, registered, notified, committed, store>>

Next ==
  \/ \E r \in Rank : GoOn(r)
  \/ /\ \A r \in Rank : ~GoesOn(r)
     /\ \/ \E r \in Rank : Show(r) \/ Reply(r) \/ GetsTimeOut(r) \/ HandlerRegistered(r) \/ Callback(r)
        \/ CollectiveCompletes

(* A rank that can go on does, and the library answers what it can.        *)
Fairness == WF_vars(Next)

Spec == Init /\ [][Next]_vars /\ Fairness

-----------------------------------------------------------------------------
(* FencesPair: the ranks that a collective operation releases together are *)
(* in the same call of the source file, also when one of them has failed;  *)
(* except where a failure skips one fence and not the next, which          *)
(* pmi2_client.c and simpdyn.c do, and test_fence.c when the result that   *)
(* it ignores is the failure.                                              *)
FaultIn(ops, fails) ==
  fault # Nobody /\ At(fault.rank, fault.at).op \in ops /\ At(fault.rank, fault.at).fail \in fails
FenceIgnored == prog = "test_fence" /\ FaultIn({"fence"}, {"skip"})
InStep == prog \notin {"pmi2_client", "simpdyn"} /\ ~FenceIgnored
Released(r) == waiting[r] # {} /\ waiting'[r] = {} /\ pc'[r] = pc[r]
FencesPair ==
  [][InStep => \A r, s \in Rank : Released(r) /\ Released(s) => waiting[r] = waiting[s]]_vars

(* NoFalseAlarm: when nothing fails no rank sees a failure, not even in    *)
(* the values that it gets: those of an earlier or a later round would be  *)
(* one.  (simppub.c, simptimeout.c and simpdyn.c do see one: see README.)  *)
NoFalseAlarm ==
  fault = Nobody /\ prog \notin {"simppub", "simptimeout", "simpdyn"} => \A r \in Rank : seen[r] = {}

(* OwnersStay: a rank does not leave while another still waits for its     *)
(* data (simpdmodex.c:210, pmix_client.c:249-251, dmodex.c:235), when      *)
(* nothing fails.                                                          *)
Lingers == {"simpdmodex", "simpdmodex async", "dmodex"} \cup (UnitProgram \ {"pmi_client", "pmi2_client"})
OwnersStay ==
  fault = Nobody /\ prog \in Lingers => \A r \in Rank : \A get \in asked[r] : ~Left(get[1])

(* FailureReported: in unit/ a rank that has seen a call fail exits with   *)
(* an error, and so does one with a failed assertion unless a call or the  *)
(* return of 0 follows it in the item, whose result takes the place of the *)
(* assertion's.  Only the fences whose result nobody looks at may fail,    *)
(* and the comparisons that only print what is wrong.                      *)
Overwritten(r, at) ==
  At(r, at).op = "check" /\ \E i \in at[2] + 1 .. Len(text[r][at[1]]) : text[r][at[1]][i].op \notin {"check", "note"}
Ignored(r, at) ==
  \/ At(r, at).op \in {"fence", "await"} /\ At(r, at).fail = "skip"
  \/ At(r, at).op = "note"
FailureReported ==
  prog \in UnitProgram =>
    \A r \in Rank : status[r] = "ok" => \A at \in seen[r] : Overwritten(r, at) \/ Ignored(r, at)

(* AllLeave: every rank leaves in the end, also when one of them has       *)
(* failed; except that nobody tells the others when the rank that is to    *)
(* die or to abort fails before, that multibeat/hb.c takes an error for    *)
(* no answer, that rank 0 of simpdyn.c is alone in its connect, and that   *)
(* test_fence.c goes on when the fence that it ignores fails.              *)
Survivable ==
  /\ prog # "simpdyn"
  /\ ~(prog \in {"simpdie", "simpft", "simpclient -abort"} /\ fault.rank \in Dying)
  /\ ~FaultIn({"await"}, {"status", "wait"})
  /\ ~FenceIgnored
AllLeave == Survivable => <>(\A r \in Rank : Left(r))
=============================================================================
