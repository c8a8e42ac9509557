----------------------------- MODULE ServerLink -----------------------------
(***************************************************************************)
(* The message layer of the test servers (unit/test_server.c) together     *)
(* with its callers: the main thread, the fence and direct-modex upcalls   *)
(* of the PMIx library (unit/server_callbacks.c) and the blocking clients  *)
(* behind them.                                                            *)
(*                                                                         *)
(* The pipes form the star of module ServerBarrier, and pipes name the     *)
(* server_info_t records too: the record a process reads pipe p for is     *)
(* record p.  Its lock is active[p], its modex_cbfunc/cbdata pair slot[p]. *)
(*                                                                         *)
(* A message is two write()s, header then payload, and two read()s.  Two   *)
(* threads of a server write: the main thread and the progress thread.     *)
(***************************************************************************)
EXTENDS Integers, Sequences, SequencesExt

CONSTANTS
  N,         (* number of servers                                          *)
  Local,     (* clients of each server                                     *)
  Fences,    (* fences each client calls, one after the other              *)
  Askers,    (* servers whose clients, after each fence, ask for the data  *)
             (* of remote clients                                          *)
  Denials,   (* requests for data that PMIx libraries may fail to answer   *)
  Finalize,  (* the run goes on into server_finalize                       *)
  Cap        (* capacity of a pipe: a header or a contribution takes 1     *)

ASSUME ServerLinkAssumption ==
  /\ N \in Nat /\ N >= 2
  /\ Local \in Nat \ {0} /\ Fences \in Nat /\ Cap \in Nat \ {0}
  /\ Askers \subseteq 0 .. N - 1 /\ Denials \in Nat /\ Finalize \in BOOLEAN

Servers == 0 .. N - 1
Pipes == 1 - N .. N - 1
Client == Servers \X (1 .. Local)

(* The process that reads pipe p, and the pipe s writes a message to dst   *)
(* on: server 0 writes to dst, the others write to server 0.               *)
Reader(p) == IF p > 0 THEN p ELSE 0
Route(s, dst) == IF s = 0 THEN dst ELSE -s

(* The record whose slot an operation of s towards dst uses: that of dst   *)
(* in server 0, the only one in the others.                                *)
Record(s, dst) == IF s = 0 THEN -dst ELSE s

(* Header and payload as they stand in a pipe.                             *)
Hdr(cmd, src, dst, full) ==
  [chunk |-> "hdr", cmd |-> cmd, src |-> src, dst |-> dst, full |-> full]
Data(body) == [chunk |-> "data", body |-> body]

ChunkSize(c) == IF c.chunk = "data" /\ c.body.what = "all" THEN Len(c.body.parts) ELSE 1

Used(chunks) == FoldLeft(LAMBDA n, c : n + ChunkSize(c), 0, chunks)

(* The write()s of server_send_msg and server_fwd_msg: a message without   *)
(* payload has a second write of no bytes.                                 *)
WritesPayloadFirst(s, h, body) ==
  LET p == Route(s, h.dst)
      hdr == [pipe |-> p, chunk |-> h]
  IN  IF h.full THEN <<[pipe |-> p, chunk |-> Data(body)], hdr>> ELSE <<hdr>>
Writes(s, h, body) ==
  LET p == Route(s, h.dst)
      hdr == [pipe |-> p, chunk |-> h]
  IN  IF h.full THEN <<hdr, [pipe |-> p, chunk |-> Data(body)]>> ELSE <<hdr>>

NoBody == [what |-> "none"]
Contribution(s, round) == [what |-> "part", src |-> s, round |-> round]
Idle == [what |-> "idle"]

(* Operations that wait for a callback.                                    *)
Procs == [op |-> "procs"]
Fence(k) == [op |-> "fence", round |-> k]
Dmdx(c, t) == [op |-> "dmdx", client |-> c, target |-> t]
None == [op |-> "none"]

(* A request of server s for the data of proc that the library of proc's   *)
(* server does not accept, or for which it has no data.  A thing gone      *)
(* wrong, in server s.                                                     *)
Denial(why, s, proc) == [why |-> why, from |-> s, proc |-> proc]
Fault(kind, s) == [kind |-> kind, at |-> s]

VARIABLES
  mpc,      (* main thread: "init", "barrier1", "launch", "procs", "run",  *)
            (* "barrier2", "done"                                          *)
  mout,     (* write()s the main thread still has to do                    *)
  pout,     (* write()s the progress thread still has to do                *)
  cur,      (* header whose payload the progress thread is reading         *)
  pipe,     (* chunks in each pipe                                         *)
  active,   (* lock.active of each record                                  *)
  slot,     (* modex_cbfunc and cbdata of each record                      *)
  bcnt,     (* barrier_cnt of server 0                                     *)
  parts,    (* fence_buf of server 0                                       *)
  ccnt,     (* contrib_cnt of server 0                                     *)
  dmreq,    (* requests the PMIx library of each server has to answer      *)
  denied,   (* history: requests that a library has refused or failed      *)
  known,    (* servers whose ranks the task_map of each server holds       *)
  cl,       (* clients: fences completed, servers still to ask, call made  *)
  todo,     (* operations of each server whose callback has not been run   *)
  faults    (* what has gone wrong, for the properties                     *)

link == <<mout, pout, cur, pipe>>
hub == <<bcnt, parts, ccnt>>
library == <<dmreq, denied>>
vars == <<mpc, link, active, slot, hub, library, known, cl, todo, faults>>

Init ==
  /\ mpc = [s \in Servers |-> "init"]
  /\ mout = [s \in Servers |-> <<>>]
  /\ pout = [s \in Servers |-> <<>>]
  /\ cur = [s \in Servers |-> Idle]
  /\ pipe = [p \in Pipes |-> <<>>]
  /\ active = [p \in Pipes |-> FALSE]
  /\ slot = [p \in Pipes |-> None]
  /\ bcnt = 0 /\ parts = <<>> /\ ccnt = 0
  /\ dmreq = [s \in Servers |-> {}] /\ denied = {}
  /\ known = [s \in Servers |-> {s}]
  /\ cl = [c \in Client |-> [f |-> 0, want |-> {}, call |-> "none"]]
  /\ todo = [s \in Servers |-> {}]
  /\ faults = {}

-----------------------------------------------------------------------------
(* Main thread.                                                            *)

ArmAndSend(s, h, body) ==
  /\ active' = [active EXCEPT ![s] = TRUE]
  /\ mout' = [mout EXCEPT ![s] = Writes(s, h, body)]

(* server_barrier(), from server_init and from server_finalize; the latter *)
(* when the clients of s have terminated.                                  *)
CallBarrier(s) ==
  /\ \/ mpc[s] = "init" /\ mpc' = [mpc EXCEPT ![s] = "barrier1"]
     \/ /\ mpc[s] = "run" /\ Finalize
        /\ \A i \in 1 .. Local : cl[<<s, i>>].call = "exit"
        /\ mpc' = [mpc EXCEPT ![s] = "barrier2"]
  /\ ArmAndSend(s, Hdr("BARRIER_REQUEST", s, 0, FALSE), NoBody)
  /\ UNCHANGED <<pout, cur, pipe, slot, hub, library, known, cl, todo, faults>>

(* server_send_procs(), from server_launch_clients.                        *)
SendProcs(s) ==
  /\ mpc[s] = "launch"
  /\ mpc' = [mpc EXCEPT ![s] = "procs"]
  /\ slot' = [slot EXCEPT ![s] = Procs]
  /\ todo' = [todo EXCEPT ![s] = @ \cup {Procs}]
  /\ ArmAndSend(s, Hdr("FENCE_CONTRIB", s, 0, TRUE), Contribution(s, 0))
  /\ UNCHANGED <<pout, cur, pipe, hub, library, known, cl, faults>>

Fits(w) == Used(pipe[w.pipe]) + ChunkSize(w.chunk) <= Cap

MainWrite(s) ==
  /\ mout[s] # <<>>
  /\ LET w == Head(mout[s]) IN
       /\ Fits(w)
       /\ pipe' = [pipe EXCEPT ![w.pipe] = Append(@, w.chunk)]
  /\ mout' = [mout EXCEPT ![s] = Tail(@)]
  /\ UNCHANGED <<mpc, pout, cur, active, slot, hub, library, known, cl, todo, faults>>

(* PMIX_WAIT_THREAD returns; the clients are forked after the exchange of  *)
(* the process maps.                                                       *)
MainWakes(s) ==
  /\ mout[s] = <<>> /\ ~active[s]
  /\ mpc[s] \in {"barrier1", "procs", "barrier2"}
  /\ mpc' = [mpc EXCEPT ![s] = CASE @ = "barrier1" -> "launch"
                                 [] @ = "procs" -> "run"
                                 [] @ = "barrier2" -> "done"]
  /\ UNCHANGED <<link, active, slot, hub, library, known, cl, todo, faults>>

-----------------------------------------------------------------------------
(* Progress thread: upcalls of the PMIx library on behalf of clients.      *)

Free(s) == pout[s] = <<>> /\ cur[s] = Idle

(* server_fence_contrib and server_dmdx_get: the callback goes into the    *)
(* slot of the record the message is sent through, also over that of an    *)
(* operation still under way.                                              *)
StartUnrecorded(s, op, dst, h, body) ==
  /\ todo' = [todo EXCEPT ![s] = @ \cup {op}]
  /\ pout' = [pout EXCEPT ![s] = Writes(s, h, body)]
  /\ UNCHANGED <<slot, faults>>
Start(s, op, dst, h, body) ==
  /\ slot' = [slot EXCEPT ![Record(s, dst)] = op]
  /\ todo' = [todo EXCEPT ![s] = @ \cup {op}]
  /\ pout' = [pout EXCEPT ![s] = Writes(s, h, body)]
  /\ faults' = faults \cup
       IF slot[Record(s, dst)] \in todo[s] THEN {Fault("overwritten", s)} ELSE {}

(* Client c enters PMIx_Fence; the last local one makes the library call   *)
(* fencenb_fn with the data of all of them.                                *)
ClientFence(c) ==
  LET s == c[1]
      k == cl[c].f + 1
  IN  /\ mpc[s] = "run" /\ Free(s)
      /\ cl[c].call = "none" /\ cl[c].want = {} /\ k <= Fences
      /\ cl' = [cl EXCEPT ![c].call = "fence"]
      /\ IF \A i \in 1 .. Local : cl'[<<s, i>>].call = "fence"
           THEN Start(s, Fence(k), 0, Hdr("FENCE_CONTRIB", s, 0, TRUE), Contribution(s, k))
           ELSE UNCHANGED <<slot, todo, pout, faults>>
      /\ UNCHANGED <<mpc, mout, cur, pipe, active, hub, library, known>>

(* Client <<s, i>> asks for the data of <<t, i>>: dmodex_fn.  A rank whose *)
(* server is not in the task_map is answered with an error at once.        *)
ClientGet(c, t) ==
  LET s == c[1] IN
  /\ mpc[s] = "run" /\ Free(s)
  /\ cl[c].call = "none" /\ t \in cl[c].want
  /\ IF t \in known[s]
       THEN /\ cl' = [cl EXCEPT ![c].call = "get"]
            /\ Start(s, Dmdx(c, t), t, Hdr("DMDX_REQUEST", s, t, TRUE),
                     [what |-> "request", from |-> s, proc |-> <<t, c[2]>>])
       ELSE /\ faults' = faults \cup {Fault("unknown rank", s)}
            /\ UNCHANGED <<cl, slot, todo, pout>>
  /\ UNCHANGED <<mpc, mout, cur, pipe, active, hub, library, known>>

(* A client has all it wants; it is followed to its exit if the servers    *)
(* wait for that.                                                          *)
Served(c) == cl[c] = [f |-> Fences, want |-> {}, call |-> "none"]
ClientExit(c) ==
  /\ Finalize /\ mpc[c[1]] = "run"
  /\ Served(c)
  /\ cl' = [cl EXCEPT ![c].call = "exit"]
  /\ UNCHANGED <<mpc, link, active, slot, hub, library, known, todo, faults>>

(* The library's request for the data of r.proc ends: _dmdx_cb, which      *)
(* looks at no status.  A failed one has no data, and a header only.       *)
Respond(s, r, full, body) ==
  /\ Free(s)
  /\ dmreq' = [dmreq EXCEPT ![s] = @ \ {r}]
  /\ pout' = [pout EXCEPT ![s] = Writes(s, Hdr("DMDX_RESPONSE", s, r.from, full), body)]
  /\ UNCHANGED <<mpc, mout, cur, pipe, active, slot, hub, known, cl, todo, faults>>
LibraryAnswers(s, r) ==
  /\ Respond(s, r, TRUE, [what |-> "modex", proc |-> r.proc])
  /\ UNCHANGED denied
LibraryFails(s, r) ==
  /\ Cardinality(denied) < Denials
  /\ Respond(s, r, FALSE, NoBody)
  /\ denied' = denied \cup {Denial("noData", r.from, r.proc)}

ProgressWrite(s) ==
  /\ pout[s] # <<>>
  /\ LET w == Head(pout[s]) IN
       /\ Fits(w)
       /\ pipe' = [pipe EXCEPT ![w.pipe] = Append(@, w.chunk)]
  /\ pout' = [pout EXCEPT ![s] = Tail(@)]
  /\ UNCHANGED <<mpc, mout, cur, active, slot, hub, library, known, cl, todo, faults>>

-----------------------------------------------------------------------------
(* Progress thread: server_read_cb.                                        *)

(* The message that makes a counter reach the size of server_list.         *)
IsLastEarly(count) == count + 2 >= N
IsLast(count) == count + 1 = N

(* The response to every server, in the order N-1, ..., 1, 0 of            *)
(* server_list.                                                            *)
Chunks(h) == IF h.full THEN 2 ELSE 1
Broadcasted(i, h, body) ==
  Writes(0, [h EXCEPT !.dst = N - 1 - ((i - 1) \div Chunks(h))], body)[1 + ((i - 1) % Chunks(h))]
BroadcastToOthers(h, body) == [i \in 1 .. Chunks(h) * (N - 1) |-> Broadcasted(i, h, body)]
Broadcast(h, body) == [i \in 1 .. Chunks(h) * N |-> Broadcasted(i, h, body)]

BarrierRequest(s) ==
  /\ IF IsLast(bcnt)
       THEN /\ bcnt' = 0
            /\ pout' = [pout EXCEPT ![s] =
                 Broadcast(Hdr("BARRIER_RESPONSE", s, 0, FALSE), NoBody)]
       ELSE bcnt' = bcnt + 1 /\ UNCHANGED pout
  /\ UNCHANGED <<active, parts, ccnt, library, known, cl, todo, faults>>

BarrierResponse(p) ==
  /\ active' = [active EXCEPT ![p] = FALSE]
  /\ UNCHANGED <<pout, hub, library, known, cl, todo, faults>>

(* Contributions are counted and concatenated; as many as there are        *)
(* servers complete the exchange.                                          *)
FenceContrib(s, body) ==
  LET all == Append(parts, body) IN
  /\ IF IsLast(ccnt)
       THEN /\ ccnt' = 0 /\ parts' = <<>>
            /\ pout' = [pout EXCEPT ![s] =
                 Broadcast(Hdr("FENCE_COMPLETE", s, 0, TRUE),
                           [what |-> "all", parts |-> all])]
       ELSE ccnt' = ccnt + 1 /\ parts' = all /\ UNCHANGED pout
  /\ UNCHANGED <<active, bcnt, library, known, cl, todo, faults>>

(* PMIx_server_dmodex_request takes the request, or returns an error that  *)
(* nobody looks at: no response is ever sent.                              *)
DmdxRequest(s, body) ==
  /\ \/ /\ dmreq' = [dmreq EXCEPT ![s] = @ \cup {[from |-> body.from, proc |-> body.proc]}]
        /\ UNCHANGED denied
     \/ /\ Cardinality(denied) < Denials
        /\ denied' = denied \cup {Denial("refused", body.from, body.proc)}
        /\ UNCHANGED dmreq
  /\ UNCHANGED <<active, pout, hub, known, cl, todo, faults>>

(* What the callback of an operation has to be given: no data only for a   *)
(* rank whose server's library had none.                                   *)
Wanted(op) == <<op.target, op.client[2]>>
AllContributed(k, body) ==
  /\ body.what = "all" /\ Len(body.parts) = N
  /\ {body.parts[i] : i \in 1 .. N} = {Contribution(t, k) : t \in Servers}
Matches(op, body) ==
  CASE op = None -> FALSE
    [] op.op = "dmdx" ->
         \/ body = [what |-> "modex", proc |-> Wanted(op)]
         \/ body = NoBody /\ Denial("noData", op.client[1], Wanted(op)) \in denied
    [] op.op = "procs" -> AllContributed(0, body)
    [] op.op = "fence" -> AllContributed(op.round, body)

(* The servers whose ranks server_unpack_procs enters in the task_map.      *)
LearnedFirst(body) == {body.parts[1].src}
Learned(body) == {body.parts[i].src : i \in 1 .. Len(body.parts)}

(* The completion of one client call.                                      *)
Remote(s) == IF s \in Askers THEN Servers \ {s} ELSE {}
AfterFence(s, rec) == [f |-> rec.f + 1, want |-> Remote(s), call |-> "none"]
AfterGet(t, rec) == [f |-> rec.f, want |-> rec.want \ {t}, call |-> "none"]

(* FENCE_COMPLETE and DMDX_RESPONSE run the callback in the slot of the    *)
(* record they are read for, whatever it is: _send_procs_cb, or the        *)
(* library's, which completes the clients' calls.                          *)
Callback(s, p, body) ==
  LET op == slot[p] IN
  /\ todo' = [todo EXCEPT ![s] = @ \ {op}]
  /\ faults' = faults \cup (IF op \in todo[s] THEN {} ELSE {Fault("stray callback", s)})
                      \cup (IF Matches(op, body) THEN {} ELSE {Fault("wrong data", s)})
  /\ active' = IF op = Procs THEN [active EXCEPT ![s] = FALSE] ELSE active
  /\ known' = IF op = Procs /\ body.what = "all"
                THEN [known EXCEPT ![s] = @ \cup Learned(body)]
                ELSE known
  /\ cl' = CASE op.op = "fence" ->
                  [c \in Client |-> IF c[1] = s THEN AfterFence(s, cl[c]) ELSE cl[c]]
             [] op.op = "dmdx" -> [cl EXCEPT ![op.client] = AfterGet(op.target, @)]
             [] OTHER -> cl
  /\ UNCHANGED <<pout, hub, library>>

Handle(s, p, h, body) ==
  /\ CASE h.dst # s ->
            /\ pout' = [pout EXCEPT ![s] = Writes(s, h, body)]
            /\ UNCHANGED <<active, hub, library, known, cl, todo, faults>>
       [] h.dst = s /\ h.cmd = "BARRIER_REQUEST" -> BarrierRequest(s)
       [] h.dst = s /\ h.cmd = "BARRIER_RESPONSE" -> BarrierResponse(p)
       [] h.dst = s /\ h.cmd = "FENCE_CONTRIB" -> FenceContrib(s, body)
       [] h.dst = s /\ h.cmd = "DMDX_REQUEST" -> DmdxRequest(s, body)
       [] h.dst = s /\ h.cmd \in {"FENCE_COMPLETE", "DMDX_RESPONSE"} -> Callback(s, p, body)
  /\ UNCHANGED <<mpc, mout, slot>>

(* Bytes that are not what the read() is for: the code notes at most       *)
(* "error read from" and goes on with them.  The model stops here, and     *)
(* also when a callback is run again, with what it has already freed.      *)
Misframed(s) ==
  /\ faults' = faults \cup {Fault("misframed", s)}
  /\ UNCHANGED <<mpc, link, active, slot, hub, library, known, cl, todo>>

Sound == \A f \in faults : f.kind \notin {"misframed", "stray callback"}

(* The first read(): a header, complete with it or not.                    *)
ReadHeader(p) ==
  LET s == Reader(p)
      h == Head(pipe[p])
  IN  /\ Free(s) /\ pipe[p] # <<>> /\ Sound
      /\ IF h.chunk = "hdr"
           THEN /\ pipe' = [pipe EXCEPT ![p] = Tail(@)]
                /\ IF h.full
                     THEN /\ cur' = [cur EXCEPT ![s] = [what |-> "payload", pipe |-> p, hdr |-> h]]
                          /\ UNCHANGED <<mpc, mout, pout, active, slot, hub, library, known, cl, todo, faults>>
                     ELSE Handle(s, p, h, NoBody) /\ UNCHANGED cur
           ELSE Misframed(s)

(* The second read() blocks until the pipe has data and takes what is      *)
(* there.                                                                  *)
ReadPayload(s) ==
  LET p == cur[s].pipe
      c == Head(pipe[p])
  IN  /\ cur[s] # Idle /\ pipe[p] # <<>> /\ Sound
      /\ IF c.chunk = "data"
           THEN /\ pipe' = [pipe EXCEPT ![p] = Tail(@)]
                /\ cur' = [cur EXCEPT ![s] = Idle]
                /\ Handle(s, p, cur[s].hdr, c.body)
           ELSE Misframed(s)

-----------------------------------------------------------------------------
Main(s) == CallBarrier(s) \/ SendProcs(s) \/ MainWrite(s) \/ MainWakes(s)

ClientStep(c) ==
  \/ ClientFence(c)
  \/ \E t \in Servers : ClientGet(c, t)
  \/ ClientExit(c)

Progress(s) ==
  \/ ProgressWrite(s)
  \/ ReadPayload(s)
  \/ \E p \in Pipes : Reader(p) = s /\ ReadHeader(p)
  \/ \E r \in dmreq[s] : LibraryAnswers(s, r) \/ LibraryFails(s, r)

(* All has been done, but for the clients whose request was refused, those *)
(* that wait for one of them in a fence, and the servers then.             *)
FencesCalled(c) == cl[c].f + (IF cl[c].call = "fence" THEN 1 ELSE 0)
Refused(c) ==
  /\ cl[c].call = "get"
  /\ \E t \in cl[c].want : /\ Dmdx(c, t) \in todo[c[1]]
                           /\ Denial("refused", c[1], <<t, c[2]>>) \in denied
Held(c) == cl[c].call = "fence" /\ \E d \in Client : Refused(d) /\ FencesCalled(d) < FencesCalled(c)
Settled ==
  /\ \A c \in Client : \/ IF Finalize THEN cl[c].call = "exit" ELSE Served(c)
                        \/ Refused(c) \/ Held(c)
  /\ \A s \in Servers : \/ mpc[s] = IF Finalize THEN "done" ELSE "run"
                        \/ mpc[s] \in {"run", "barrier2"} /\ \E c \in Client : Refused(c)
Stop == Settled /\ UNCHANGED vars

Next ==
  \/ \E s \in Servers : Main(s) \/ Progress(s)
  \/ \E c \in Client : ClientStep(c)
  \/ Stop

(* Every thread and every client runs, and libevent serves every pipe.     *)
Fairness ==
  /\ \A s \in Servers : WF_vars(Main(s)) /\ WF_vars(Progress(s))
  /\ \A c \in Client : SF_vars(ClientStep(c))

Spec == Init /\ [][Next]_vars /\ Fairness

-----------------------------------------------------------------------------
Header == {h \in [chunk : {"hdr"}, src : Servers, dst : Servers, full : BOOLEAN,
                  cmd : {"BARRIER_REQUEST", "BARRIER_RESPONSE", "FENCE_CONTRIB",
                         "FENCE_COMPLETE", "DMDX_REQUEST", "DMDX_RESPONSE"}] :
             /\ h.cmd \in {"BARRIER_REQUEST", "BARRIER_RESPONSE"} => ~h.full
             /\ h.cmd \in {"FENCE_CONTRIB", "FENCE_COMPLETE", "DMDX_REQUEST"} => h.full}
Op == {None, Procs} \cup {Fence(k) : k \in 1 .. Fences}
        \cup {Dmdx(c, t) : c \in Client, t \in Servers}

TypeOK ==
  /\ mpc \in [Servers -> {"init", "barrier1", "launch", "procs", "run", "barrier2", "done"}]
  /\ \A p \in Pipes : \A i \in DOMAIN pipe[p] : pipe[p][i].chunk = "hdr" => pipe[p][i] \in Header
  /\ \A s \in Servers : cur[s] = Idle \/ cur[s].hdr \in Header
  /\ active \in [Pipes -> BOOLEAN]
  /\ slot \in [Pipes -> Op]
  /\ bcnt \in 0 .. N - 1
  /\ ccnt \in 0 .. N - 1 /\ Len(parts) = ccnt
  /\ known \in [Servers -> SUBSET Servers]
  /\ cl \in [Client -> [f : 0 .. Fences, want : SUBSET Servers,
                        call : {"none", "fence", "get", "exit"}]]
  /\ todo \in [Servers -> SUBSET Op]
  /\ denied \subseteq [why : {"refused", "noData"}, from : Servers, proc : Client]

(* A header is always followed by its payload: the two write()s of one     *)
(* thread are never separated by a write of the other thread of the same   *)
(* server to the same pipe (the check "error read from").                  *)
NoMisframing == \A f \in faults : f.kind # "misframed"

(* In a server that has not recorded an operation over another under way,  *)
(* every callback is run once, for its own operation and with the data it  *)
(* asked for: a fence completes with exactly one contribution of each      *)
(* server to that fence, a direct modex with the data of the rank asked,   *)
(* and with none only if the library of that rank's server failed.         *)
CallbacksMatch ==
  \A f \in faults : f.kind \in {"stray callback", "wrong data"} => Fault("overwritten", f.at) \in faults

(* The callback of an operation under way stays in a slot, so that the     *)
(* answer finds it: no client waits for an answer that goes to another.    *)
CallbacksReachable ==
  \A s \in Servers : \A op \in todo[s] :
    \E p \in Pipes : Reader(p) = s /\ slot[p] = op

(* After the exchange of the process maps every rank is known everywhere.  *)
RanksKnown == \A f \in faults : f.kind # "unknown rank"

(* A fence is a barrier of the clients: none is ahead of a call another    *)
(* has not made.  And every variable has its type.                         *)
FenceSafety == TypeOK /\ \A c, d \in Client : cl[c].f <= FencesCalled(d)

(* All clients leave all their fences and get all data or none, and the    *)
(* servers leave all their barriers, except for those that wait for an     *)
(* answer to a request that a library has refused; unless a server has     *)
(* recorded an operation over another under way.                           *)
AllComplete == <>[]Settled \/ <>(\E s \in Servers : Fault("overwritten", s) \in faults)

(* With everything but the barrier messages left out, the message layer    *)
(* is the barrier protocol of ServerBarrier: exchanges, fences and direct  *)
(* modex neither release a barrier nor hold one up.                        *)
InBarrier(s) == mpc[s] \in {"barrier1", "barrier2"}
IsBarrier(c) == c.chunk = "hdr" /\ c.cmd \in {"BARRIER_REQUEST", "BARRIER_RESPONSE"}
Commands(chunks) ==
  LET barriers == {i \in DOMAIN chunks : IsBarrier(chunks[i])}
      Nth(n) == CHOOSE i \in barriers : Cardinality({j \in barriers : j < i}) = n - 1
  IN  [n \in 1 .. Cardinality(barriers) |-> chunks[Nth(n)].cmd]

SB == INSTANCE ServerBarrier WITH
        Rounds <- IF Finalize THEN 2 ELSE 1,
        MayFail <- {},
        pc <- [s \in Servers |-> IF ~InBarrier(s) THEN "run"
                                 ELSE IF mout[s] # <<>> THEN "send" ELSE "wait"],
        round <- [s \in Servers |-> CASE mpc[s] \in {"init", "barrier1"} -> 0
                                      [] mpc[s] = "done" -> 2
                                      [] OTHER -> 1],
        active <- [s \in Servers |-> InBarrier(s) /\ active[s]],
        pipe <- [p \in Pipes |-> Commands(pipe[p])],
        cnt <- bcnt,
        bcast <- IF pout[0] # <<>> /\ IsBarrier(Head(pout[0]).chunk)
                   THEN Head(pout[0]).chunk.dst ELSE -1
ImplementsServerBarrier == SB!Spec
=============================================================================
