---------------------------- MODULE UnitPrograms ----------------------------
(***************************************************************************)
(* The clients in unit/: pmix_client.c with one of its tests, pmi_client.c *)
(* and pmi2_client.c, each as rank r runs it.                              *)
(***************************************************************************)
EXTENDS ClientProgram, SequencesExt

(* The loops: body(1) \o ... \o body(Rounds).                              *)
Repeat(body(_)) == FlattenSeq([n \in 1 .. Rounds |-> body(n)])

(* test_fence.c.  The participants of the n-th descriptor of --test-fence: *)
(* all ranks, all but the last, all but the first, and so on.              *)
Participants(n) == CASE n % 3 = 1 -> Rank
                     [] n % 3 = 2 -> Rank \ {Size - 1}
                     [] n % 3 = 0 -> Rank \ {0}
ExchangedLate(members, n) == <<>>
Exchanged(members, n) == FenceOf(members, <<"exchanged", n>>, "skip")
TestFence(r) ==
  Repeat(LAMBDA n : LET members == Participants(n) IN
    Only(r, members,
      Commit("same key", n, "exit") \o FenceOf(members, <<"data", n>>, "exit")
        \o Get(members, "same key", n, "exit") \o Exchanged(members, n)))

TestJobFence == Commit("key", 1, "exit") \o Fence("job", "exit") \o Call("exit") \o Get(Rank, "key", 1, "exit")

(* test_publish.c: the same with the blocking and the nonblocking calls.   *)
PublishLookup(r) ==
  Publish({r}, "exit") \o Lookup(r, {r}, "exit") \o Unpublish({r}, "exit") \o Lookup(r, {}, "exit")
TestPublish(r) == PublishLookup(r) \o PublishLookup(r)

(* test_cd.c.                                                              *)
TestConnect ==
  Connect("blocking", Rank, "exit") \o Connect("end blocking", Rank, "exit")
    \o Connect("nonblocking", Rank, "exit") \o Connect("end nonblocking", Rank, "exit")

(* test_replace.c: a rank reads its own keys after it has replaced them.   *)
TestReplace(r) ==
  Commit("key", 1, "exit") \o Fence("put", "exit")
    \o Commit("key", 2, "exit") \o Fence("replaced", "exit") \o Get({r}, "key", 2, "exit")

(* test_internal.c.                                                        *)
TestInternal(r) == Commit("key", 1, "exit") \o Fence("internal", "exit") \o Get({r}, "key", 1, "exit")

(* test_error.c: nothing is checked.                                       *)
TestError == Register \o Register \o AskAndWait("none") \o AskAndWait("none") \o AskAndWait("none")

(* test_spawn.c.                                                           *)
TestSpawn == Call("exit") \o AskAndWait("exit") \o Call("exit")

(* test_resolve_peers.c, with each rank in a namespace of its own: connect *)
(* to one other namespace after the other.  When its peers cannot be       *)
(* resolved the rank disconnects before it gives up.                       *)
WithNamespace(n, r) ==
  LET members == {n, r}
  IN  ConnectTo(members, "connect", "exit") \o Call("skip")
        \o ConnectTo(members, "disconnect", "exit") \o Passed
OthersRoundRobin(r) == [i \in 1 .. Size - 1 |-> (r + i) % Size]
Others(r) == [i \in 1 .. Size - 1 |-> IF i - 1 < r THEN i - 1 ELSE i]
TestResolvePeers(r) ==
  Call("exit") \o FlattenSeq([i \in DOMAIN Others(r) |-> WithNamespace(Others(r)[i], r)])

(* pmix_client.c: the checks of the job, one test, and a fence of the      *)
(* namespace before PMIx_Finalize whose result is not looked at.           *)
LeaveTogether(nspace) == FenceOf(nspace, <<"leave", 0>>, "skip")
JobChecks == Call("exit")
PmixClient(nspace, test) == <<JobChecks \o test \o LeaveTogether(nspace) \o Finalize("rc")>>

-----------------------------------------------------------------------------
(* pmi_client.c: the items one after the other; an item that fails returns *)
(* early, and the number of the failed ones is the exit status.  Item 4    *)
(* returns at the first rank out of range, with rc as the call before it   *)
(* has left it, and item 5 does nothing under PMIx.                        *)
GetEach(key) == FlattenSeq([n \in 1 .. Size |-> Get({n - 1}, key, 1, "next") \o Check])
PmiItem1 == Check \o Call("next") \o Check \o Call("next") \o Check
PmiItem2 == Call("next") \o Check
PmiItem3 == Call("next") \o Check \o Call("next") \o Check
PmiItem4 == Call("next") \o Check \o Call("next") \o Note("next")
PmiItem6 == Call("next") \o Call("next") \o Check
PmiItem7 == Commit("KEY", 1, "next") \o Fence("TI7", "next") \o GetEach("KEY")
PmiClient ==
  <<Call("exit"), PmiItem1, PmiItem2, PmiItem3, PmiItem4, PmiItem6, PmiItem7, Finalize("ret")>>

(* pmi2_client.c: PMI2_KVS_Fence commits what has been put.  Items 3 and 4 *)
(* do nothing under PMIx, item 6 fails when it finds what it has not yet   *)
(* committed, item 7 returns 0 whatever it has asserted, and item 10 only  *)
(* prints that a value or its length is not as expected.                   *)
Pmi2Item1 == Check \o Call("next") \o Check
Pmi2Item2 == Check \o Call("next") \o Check \o Call("next") \o Check
Pmi2Item5 == Call("next") \o Call("next") \o Check
Pmi2Item6 == Call("next") \o Call("next")
Pmi2Fence(name, key) == Commit(key, 1, "next") \o FenceOf(Rank, name, "next")
ReturnZero == Call("none")
Pmi2Item7(r) ==
  Pmi2Fence(<<"TI7", 0>>, <<"KEY", 0>>) \o Get({r}, <<"KEY", 0>>, 1, "next") \o Check \o ReturnZero
Pmi2Item8 == Pmi2Fence(<<"TI8", 0>>, <<"KEY", 0>>) \o GetEach(<<"KEY", 0>>)
Pmi2Item9 == Pmi2Fence(<<"TI9", 0>>, <<"KEY", 0>>) \o GetEach(<<"KEY", 0>>)
Pmi2Item10 ==
  Repeat(LAMBDA n : Pmi2Fence(<<"TI10", n>>, <<"RANK-key", n>>)
    \o FlattenSeq([i \in 1 .. n |-> Get(Rank, <<"RANK-key", i>>, 1, "next") \o Note("skip")]))
Pmi2Client(r) ==
  <<Call("exit"), Pmi2Item1, Pmi2Item2, Pmi2Item5, Pmi2Item6, Pmi2Item7(r), Pmi2Item8, Pmi2Item9,
    Pmi2Item10, Finalize("ret")>>

UnitProgram ==
  {"test_fence", "test_job_fence", "test_publish", "test_cd", "test_replace", "test_internal",
   "test_spawn", "test_resolve_peers", "test_error", "pmi_client", "pmi2_client"}

UnitText(p, r) ==
  CASE p = "test_fence" -> PmixClient(Rank, TestFence(r))
    [] p = "test_job_fence" -> PmixClient(Rank, TestJobFence)
    [] p = "test_publish" -> PmixClient(Rank, TestPublish(r))
    [] p = "test_cd" -> PmixClient(Rank, TestConnect)
    [] p = "test_replace" -> PmixClient(Rank, TestReplace(r))
    [] p = "test_internal" -> PmixClient(Rank, TestInternal(r))
    [] p = "test_spawn" -> PmixClient(Rank, TestSpawn)
    [] p = "test_resolve_peers" -> PmixClient({r}, TestResolvePeers(r))
    [] p = "test_error" -> PmixClient(Rank, TestError)
    [] p = "pmi_client" -> PmiClient
    [] p = "pmi2_client" -> Pmi2Client(r)
=============================================================================
