--------------------------- MODULE SimplePrograms ---------------------------
(***************************************************************************)
(* The clients in simple/ and multibeat/ and prrte/dmodex/dmodex.c, each   *)
(* as rank r runs it.                                                      *)
(***************************************************************************)
EXTENDS ClientProgram

(* simpclient.c.  The gets after the fence only print what is wrong.       *)
SimpclientStart == Call("exit") \o RegisterAndWait \o RegisterAndWait \o Call("done")
SimpclientExchange == Commit("local", 1, "done") \o Fence("data", "done") \o Get(Rank, "local", 1, "skip")
SimpclientAborts(r) == Only(r, {0}, Abort) \o Only(r, Rank \ {0}, Completed)
Simpclient(r, doabort) ==
  <<SimpclientStart \o SimpclientExchange \o AskAndWait("skip") \o (IF doabort THEN SimpclientAborts(r) ELSE <<>>),
    Finalize("rc")>>

(* simpdmodex.c, without the fence_nb when PMIX_SIMPDMODEX_ASYNC is set.   *)
SimpdmodexLeavesEarly == <<>>
SimpdmodexLeaves == Fence("leave", "done")
Simpdmodex(r, dofence) ==
  <<Call("exit0") \o Call("done") \o Commit("data", 1, "done")
      \o (IF dofence THEN FenceNb("data", "done") ELSE <<>>)
      \o GetNb(Rank, "data", 1, "done")
      \o (IF dofence THEN Await("fence", "none") ELSE <<>>)
      \o Await("gets", "skip") \o SimpdmodexLeaves,
    Finalize("zero")>>

(* simppub.c.                                                              *)
Simppub(r) ==
  <<Call("exit0") \o Call("done") \o Fence("start", "done")
      \o Only(r, {0}, Publish({"FOOBAR", "PANDA"}, "done"))
      \o Fence("published", "done")
      \o Only(r, Rank \ {0}, Lookup("FOOBAR", {0}, "done"))
      \o Fence("looked up", "done")
      \o Only(r, {0}, Unpublish({"FOOBAR", "PANDA"}, "done"))
      \o Fence("unpublished", "done"),
    Finalize("zero")>>

(* simptimeout.c: rank 0 calls alone, with a time limit of one second.     *)
Simptimeout(r) ==
  <<Call("exit") \o RegisterAndWait \o Call("done")
      \o Only(r, {0}, FenceNb("timeout", "done") \o Expire("expected", "done")
                   \o ConnectNb("timeout", Rank, "done") \o Expire("expected", "done")
                   \o GetNb({1}, "1234", 1, "done") \o Expire("inverted", "done"))
      \o Only(r, Rank \ {0}, Sleep),
    Finalize("rc")>>

(* simpdyn.c: rank 0 connects to the namespace it has spawned, which has   *)
(* no process; the others name the namespace of the job.  A fence that     *)
(* fails after done: is called again.                                      *)
Simpdyn(r) ==
  <<Call("exit0") \o Call("done") \o Fence("start", "done")
      \o Only(r, {0}, Call("done"))
      \o LET proc == IF r = 0 THEN {} ELSE Rank
         IN  Connect("connect", proc, "done") \o Connect("disconnect", proc, "done")
      \o Call("done"),
    Fence("leave", "done") \o Finalize("zero")>>

(* simpdie.c and simpft.c: some ranks die, or rank 0 aborts, and the       *)
(* others wait for their handler to be told.                               *)
Dying == IF 4 < Size THEN {0, 1} ELSE {0}
Simpdie(r) ==
  <<Call("exit0") \o Call("done") \o Register \o Fence("start", "done")
      \o Only(r, Dying, Die) \o Completed,
    Finalize("zero")>>

Simpft(r) ==
  <<Call("exit0") \o Call("done") \o Register \o Fence("start", "done")
      \o Only(r, {0}, Abort) \o Only(r, Rank \ {0}, Completed),
    Finalize("zero")>>

(* simplegacy.c: MAXCNT rounds of ten keys each; when a call fails the     *)
(* loop is left for good.                                                  *)
SimplegacyRound(c, fail) ==
  Commit(c, 1, fail) \o FenceOf(Rank, <<"round", c>>, fail) \o Get(Rank, c, 1, "skip")
SimplegacyRounds(fail) == [c \in 1 .. 3 |-> SimplegacyRound(c, fail)]
SimplegacyContinues(r) ==
  <<Call("exit") \o RegisterAndWait \o RegisterAndWait>> \o SimplegacyRounds("next") \o <<Finalize("rc")>>
Simplegacy(r) ==
  <<Call("exit") \o RegisterAndWait \o RegisterAndWait>> \o SimplegacyRounds("done") \o <<Finalize("rc")>>

(* simptool.c: every rank is a tool of its own.                            *)
Simptool(r) == <<Call("exit") \o AskAndWait("done"), Finalize("rc")>>

(* multibeat/jctrl.c with hb.c and barrier.c.                              *)
RegisterHeartbeatHandler == Register \o Ask("none") \o Await("callback", "status")
SetupHeartbeat == Ask("exit") \o Await("callback", "wait")
BeatBeatBeat == Sleep     (* until it has kept silent five times          *)
Barrier == Fence("barrier", "exit")
Jctrl(r) ==
  <<Call("exit") \o RegisterHeartbeatHandler \o SetupHeartbeat \o BeatBeatBeat
      \o Barrier \o Finalize("zero")>>

(* prrte/dmodex/dmodex.c: a time limit for the gets, and a fence before    *)
(* leaving, also when something has failed.                                *)
Dmodex(r) ==
  <<Call("exit0") \o Call("done") \o Commit("ghex", 1, "done") \o Call("done")
      \o GetWithin(Rank, "ghex", 1, "done"),
    Fence("leave", "exit") \o Finalize("zero")>>

SimpleProgram ==
  {"simpclient", "simpclient -abort", "simpdmodex", "simpdmodex async", "simppub", "simptimeout",
   "simpdyn", "simpdie", "simpft", "simplegacy", "simptool", "jctrl", "dmodex"}

SimpleText(p, r) ==
  CASE p = "simpclient" -> Simpclient(r, FALSE)
    [] p = "simpclient -abort" -> Simpclient(r, TRUE)
    [] p = "simpdmodex" -> Simpdmodex(r, TRUE)
    [] p = "simpdmodex async" -> Simpdmodex(r, FALSE)
    [] p = "simppub" -> Simppub(r)
    [] p = "simptimeout" -> Simptimeout(r)
    [] p = "simpdyn" -> Simpdyn(r)
    [] p = "simpdie" -> Simpdie(r)
    [] p = "simpft" -> Simpft(r)
    [] p = "simplegacy" -> Simplegacy(r)
    [] p = "simptool" -> Simptool(r)
    [] p = "jctrl" -> Jctrl(r)
    [] p = "dmodex" -> Dmodex(r)
=============================================================================
