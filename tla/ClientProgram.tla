---------------------------- MODULE ClientProgram ----------------------------
(***************************************************************************)
(* How the client programs of the repository are written down: a program   *)
(* is a sequence of blocks and a block a sequence of instructions.         *)
(*                                                                         *)
(* An instruction is one call of the PMIx library, or several in a row     *)
(* that only differ in their data, together with what the program does     *)
(* when it fails:                                                          *)
(*   "exit", "exit0"  the process ends at once, with an error or with 0    *)
(*   "done"           goto done: on to the last block                      *)
(*   "next"           return rc: the test item has failed, on to the next  *)
(*   "skip"           a message at most, on to the next instruction        *)
(*   "status", "wait" see Await                                            *)
(*   "none"           the program does not see a failure                   *)
(* A call that waits is an instruction that asks and one that awaits.      *)
(***************************************************************************)
EXTENDS Naturals, Sequences

CONSTANTS
  Size,      (* number of ranks in the job                                 *)
  Rounds     (* the loops of pmi2_client (5) and test_fence are this long  *)

ASSUME ClientProgramAssumption == Size \in Nat \ {0} /\ Rounds \in Nat \ {0}

Rank == 0 .. Size - 1
Failure == {"exit", "exit0", "done", "next", "skip", "status", "wait", "none"}

Instruction(op, fail, arg) == [op |-> op, fail |-> fail, arg |-> arg]
One(op, fail, arg) == <<Instruction(op, fail, arg)>>

(* Only rank set S runs the instructions is.                               *)
Only(r, S, is) == IF r \in S THEN is ELSE <<>>

(* Calls that concern no other rank, and assertions on what they returned, *)
(* which leave an error in rc; and comparisons that do not, and only print *)
(* what is wrong.                                                          *)
Call(fail) == One("call", fail, 0)
Check == One("check", "skip", 0)
Note(fail) == One("note", fail, 0)

(* Give up when a call before has failed.                                  *)
Passed == One("passed", "exit", 0)

(* Wait for what has been asked: "fence", "gets" or "callback".  With      *)
(* "status" a callback that reports an error ends the process, and with    *)
(* "wait" its status is not looked at; in both the flag waited for is the  *)
(* status itself, and -1 means that there has been no callback.            *)
Await(what, fail) == One("await", fail, what)

(* PMIx_Put and PMIx_Commit of key with value val.                         *)
Commit(key, val, fail) == One("commit", fail, [key |-> key, val |-> val])

(* PMIx_Fence over the ranks in members.  The name, with the round of a    *)
(* loop, tells the calls in a source file apart: the library does not see  *)
(* it.  PMIx_Connect is a collective operation of its own kind.            *)
Collective(kind, name, members, fail) ==
  One("fence", fail, [kind |-> kind, name |-> name, members |-> members])
FenceOf(members, name, fail) == Collective("fence", name, members, fail) \o Await("fence", fail)
FenceNb(name, fail) == Collective("fence", <<name, 0>>, Rank, fail)
Fence(name, fail) == FenceOf(Rank, <<name, 0>>, fail)
ConnectNb(name, members, fail) == Collective("connect", <<name, 0>>, members, fail)
Connect(name, members, fail) == ConnectNb(name, members, fail) \o Await("fence", fail)
ConnectTo(members, name, fail) ==
  Collective("connect", <<name, members>>, members, fail) \o Await("fence", fail)

(* PMIx_Get of key from every rank in owners, expecting val; "within" a    *)
(* PMIX_TIMEOUT that is reached only when something has failed.            *)
GetNb(owners, key, val, fail) == One("get", fail, [owners |-> owners, key |-> key, val |-> val])
Get(owners, key, val, fail) == GetNb(owners, key, val, fail) \o Await("gets", fail)
GetWithin(owners, key, val, fail) == GetNb(owners, key, val, fail) \o Await("timed gets", fail)

(* A call with a callback, and the wait for its flag.                      *)
Ask(fail) == One("ask", fail, 0)
AskAndWait(fail) == Ask(fail) \o Await("callback", "none")

(* PMIx_Register_event_handler returns nothing the programs look at.       *)
Register == One("register", "none", 0)
RegisterAndWait == Register \o AskAndWait("none")

(* A lookup is expected to find key as published by the rank in owners, or *)
(* by nobody when owners is empty.                                         *)
Publish(keys, fail) == One("publish", fail, keys)
Lookup(key, owners, fail) == One("lookup", fail, [key |-> key, owners |-> owners])
Unpublish(keys, fail) == One("unpublish", fail, keys)

(* A call that is to run into its PMIX_TIMEOUT.  One that times out is     *)
(* "expected"; in simptimeout the test of the last one is "inverted".      *)
Expire(test, fail) == One("expire", fail, test)
Sleep == One("sleep", "none", 0)

(* exit(1) without PMIx_Finalize; PMIx_Abort; wait to be told of either.   *)
Die == One("die", "none", 0)
Abort == One("abort", "skip", 0)
Completed == One("completed", "none", 0)

(* PMIx_Finalize and the exit status: the "rc" of PMIx_Finalize, "zero",   *)
(* or the number of failed items unless PMIx_Finalize fails ("ret").       *)
Finalize(status) == One("finalize", "exit", status)
=============================================================================
