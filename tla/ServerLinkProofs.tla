-------------------------- MODULE ServerLinkProofs --------------------------
(***************************************************************************)
(* Safety of the message layer of the test servers, for every number of    *)
(* servers, clients and fences and every capacity of the pipes, in the     *)
(* runs that are Undisturbed: either no client asks for data of another    *)
(* server, or each server has one client and does not go on into           *)
(* server_finalize.  The other runs break the properties.                  *)
(*                                                                         *)
(* A message is followed from the write()s of its sender to the handler.   *)
(* Stream(p) is what the reader of pipe p has of a message and what is in  *)
(* the pipe and what the writer of p is still to write, to p or elsewhere. *)
(* Writing moves nothing in it.  The invariant then is about Messages(p),  *)
(* the set of messages on their way through p, and not about bytes.        *)
(***************************************************************************)
EXTENDS ServerLink, FiniteSetTheorems, SequenceTheorems, TLAPS

Undisturbed == Askers = {} \/ (Local = 1 /\ ~Finalize)

-----------------------------------------------------------------------------
(* Streams: sequences of entries, each a chunk and the pipe it is for.     *)

Part == [what : {"part"}, src : Servers, round : 0 .. Fences]
Body == Part \cup [what : {"all"}, parts : Seq(Part)]
             \cup [what : {"request"}, from : Servers, proc : Client]
             \cup [what : {"modex"}, proc : Client]
Chunk == Header \cup [chunk : {"data"}, body : Body]
Entry == [pipe : Pipes, chunk : Chunk]

IsHdr(e, p) == e.pipe = p /\ e.chunk.chunk = "hdr"
IsFull(e, p) == IsHdr(e, p) /\ e.chunk.full
IsData(e, p) == e.pipe = p /\ e.chunk.chunk = "data"

(* Every header with a payload is followed by it at once, and no other     *)
(* data is in the stream.                                                  *)
Framed(S, p) ==
  \A i \in DOMAIN S :
    /\ IsFull(S[i], p) => i + 1 \in DOMAIN S /\ IsData(S[i + 1], p)
    /\ IsData(S[i], p) => i - 1 \in DOMAIN S /\ IsFull(S[i - 1], p)

MessageAt(S, i) ==
  [hdr |-> S[i].chunk, body |-> IF S[i].chunk.full THEN S[i + 1].chunk.body ELSE NoBody]
Message(h, body) == [hdr |-> h, body |-> IF h.full THEN body ELSE NoBody]
MessagesIn(S, p) == {MessageAt(S, i) : i \in {j \in DOMAIN S : IsHdr(S[j], p)}}

(* The server on whose behalf a message travels.                           *)
Owner(h) == IF h.cmd \in {"BARRIER_REQUEST", "FENCE_CONTRIB", "DMDX_REQUEST"} THEN h.src ELSE h.dst

OnePerOwner(S, p) ==
  \A i, j \in DOMAIN S :
    IsHdr(S[i], p) /\ IsHdr(S[j], p) /\ Owner(S[i].chunk) = Owner(S[j].chunk) => i = j

Writer(p) == IF p >= 0 THEN 0 ELSE -p
Begun(p) ==
  IF cur[Reader(p)].what = "payload" /\ cur[Reader(p)].pipe = p
    THEN <<[pipe |-> p, chunk |-> cur[Reader(p)].hdr]>> ELSE <<>>
InPipe(p) == [i \in 1 .. Len(pipe[p]) |-> [pipe |-> p, chunk |-> pipe[p][i]]]
Unread(p) == Begun(p) \o InPipe(p)
Out(s) == mout[s] \o pout[s]
Stream(p) == Unread(p) \o Out(Writer(p))
Messages(p) == MessagesIn(Stream(p), p)

-----------------------------------------------------------------------------
(* The invariant.                                                          *)

LinkType ==
  /\ mpc \in [Servers -> {"init", "barrier1", "launch", "procs", "run", "barrier2", "done"}]
  /\ pipe \in [Pipes -> Seq(Chunk)]
  /\ mout \in [Servers -> Seq(Entry)] /\ pout \in [Servers -> Seq(Entry)]
  /\ cur \in [Servers -> {Idle} \cup [what : {"payload"}, pipe : Pipes, hdr : Header]]
  /\ active \in [Pipes -> BOOLEAN]
  /\ slot \in [Pipes -> Op]
  /\ bcnt \in 0 .. N - 1
  /\ ccnt \in 0 .. N - 1 /\ parts \in Seq(Part) /\ Len(parts) = ccnt
  /\ dmreq \in [Servers -> SUBSET [from : Servers, proc : Client]]
  /\ known \in [Servers -> SUBSET Servers]
  /\ cl \in [Client -> [f : 0 .. Fences, want : SUBSET Servers,
                        call : {"none", "fence", "get", "exit"}]]
  /\ todo \in [Servers -> SUBSET Op]
  /\ denied \subseteq [why : {"refused", "noData"}, from : Servers, proc : Client]
  /\ faults = {}

(* Each thread writes to the pipes of its server, and one at a time; the   *)
(* hub's last write of a broadcast is the one to itself.                   *)
Request(s) == [pipe |-> -s, chunk |-> Hdr("BARRIER_REQUEST", s, 0, FALSE)]
Contrib(s) == [pipe |-> -s, chunk |-> Hdr("FENCE_CONTRIB", s, 0, TRUE)]
ProcsData(s) == [pipe |-> -s, chunk |-> Data(Contribution(s, 0))]
IsDmdx(c) ==
  \/ c.chunk = "hdr" /\ c.cmd \in {"DMDX_REQUEST", "DMDX_RESPONSE"}
  \/ c.chunk = "data" /\ c.body.what \in {"request", "modex"}

WritersOK(s) ==
  /\ \A i \in DOMAIN pout[s] : Writer(pout[s][i].pipe) = s
  /\ mout[s] = <<>> \/ pout[s] = <<>>
  /\ \/ mout[s] = <<>>
     \/ mout[s] = <<Request(s)>> /\ mpc[s] \in {"barrier1", "barrier2"} /\ active[s]
     \/ /\ mout[s] \in {<<Contrib(s), ProcsData(s)>>, <<ProcsData(s)>>}
        /\ mpc[s] = "procs" /\ active[s]
  /\ cur[s] # Idle => Reader(cur[s].pipe) = s /\ cur[s].hdr.full /\ pout[s] = <<>>
BroadcastOK ==
  pout[0] = <<>> \/ pout[0][Len(pout[0])].pipe = 0 \/ IsDmdx(pout[0][Len(pout[0])].chunk)

FramesOK == \A p \in Pipes : Framed(Stream(p), p) /\ OnePerOwner(Stream(p), p)

StreamsOK == (\A s \in Servers : WritersOK(s)) /\ BroadcastOK /\ FramesOK

(* Exchanges that are over for s: that of the process maps, and the fences *)
(* of its clients.                                                         *)
ProcsKnown(s) == mpc[s] \in {"run", "barrier2", "done"} \/ (mpc[s] = "procs" /\ ~active[s])
Exchanged(s) == IF ProcsKnown(s) THEN 1 + cl[<<s, 1>>].f ELSE 0
ExchangeOp(k) == IF k = 0 THEN Procs ELSE Fence(k)

InBarrierNow(s) == InBarrier(s) /\ active[s]
InExchange(s) == todo[s] = {ExchangeOp(Exchanged(s))}
Asks(s, t) == Askers # {} /\ s # t /\ todo[s] = {Dmdx(<<s, 1>>, t)}

Contributors == {parts[i].src : i \in DOMAIN parts}

(* Where a message can be, what it carries, and what its owner waits for.  *)
OnRoute(p, h) == p # 0 /\ (p = h.dst \/ p = -h.src)
MessageOK(p, m) ==
  LET h == m.hdr IN
  /\ h \in Header
  /\ h.cmd = "BARRIER_REQUEST" => p = -h.src /\ h.dst = 0 /\ InBarrierNow(h.src)
  /\ h.cmd = "BARRIER_RESPONSE" => p = h.dst /\ InBarrierNow(h.dst)
  /\ h.cmd = "FENCE_CONTRIB" =>
       /\ p = -h.src /\ h.dst = 0
       /\ InExchange(h.src) /\ h.src \notin Contributors
       /\ m.body = Contribution(h.src, Exchanged(h.src))
  /\ h.cmd = "FENCE_COMPLETE" =>
       /\ p = h.dst
       /\ InExchange(h.dst) /\ h.dst \notin Contributors
       /\ m.body \in [what : {"all"}, parts : Seq(Part)]
       /\ AllContributed(Exchanged(h.dst), m.body)
  /\ h.cmd = "DMDX_REQUEST" =>
       /\ OnRoute(p, h) /\ Asks(h.src, h.dst)
       /\ m.body = [what |-> "request", from |-> h.src, proc |-> <<h.dst, 1>>]
       /\ \A t \in Servers : \A r \in dmreq[t] : r.from # h.src
  /\ h.cmd = "DMDX_RESPONSE" =>
       /\ OnRoute(p, h) /\ Asks(h.dst, h.src)
       /\ h.full => m.body = [what |-> "modex", proc |-> <<h.src, 1>>]
       /\ ~h.full => m.body = NoBody /\ Denial("noData", h.dst, <<h.src, 1>>) \in denied
       /\ \A t \in Servers : \A r \in dmreq[t] : r.from # h.dst

MessagesOK == \A p \in Pipes : \A m \in Messages(p) : MessageOK(p, m)

(* A server has one message under way at most.                             *)
OneMessage ==
  \A p, q \in Pipes : \A m \in Messages(p), n \in Messages(q) :
    Owner(m.hdr) = Owner(n.hdr) => p = q /\ m = n

RequestsOK ==
  \A t \in Servers : \A r \in dmreq[t] : Asks(r.from, t) /\ r.proc = <<t, 1>>

(* What a server waits for, in its threads and its clients.                *)
ClientsIdle(s) == \A i \in 1 .. Local : cl[<<s, i>>] = [f |-> 0, want |-> {}, call |-> "none"]
WaitsForProcs(s) == todo[s] = {Procs} /\ mpc[s] = "procs" /\ active[s] /\ slot[s] = Procs
WaitsForFence(s) ==
  /\ mpc[s] = "run" /\ cl[<<s, 1>>].f < Fences
  /\ todo[s] = {Fence(cl[<<s, 1>>].f + 1)} /\ slot[s] = Fence(cl[<<s, 1>>].f + 1)
  /\ \A i \in 1 .. Local : cl[<<s, i>>].call = "fence"
WaitsForData(s) ==
  /\ Askers # {} /\ mpc[s] = "run" /\ cl[<<s, 1>>].call = "get"
  /\ \E t \in Servers \ {s} :
       todo[s] = {Dmdx(<<s, 1>>, t)} /\ slot[Record(s, t)] = Dmdx(<<s, 1>>, t)

ServerOK(s) ==
  /\ todo[s] = {} \/ WaitsForProcs(s) \/ WaitsForFence(s) \/ WaitsForData(s)
  /\ mpc[s] \in {"init", "barrier1", "launch", "procs"} => ClientsIdle(s)
  /\ mpc[s] \in {"barrier2", "done"} => Finalize
  /\ \A i \in 1 .. Local : cl[<<s, i>>].f = cl[<<s, 1>>].f
  /\ \A i \in 1 .. Local : cl[<<s, i>>].want # {} => Askers # {}
  /\ \A i \in 1 .. Local : s \notin cl[<<s, i>>].want
  /\ ProcsKnown(s) => known[s] = Servers
ServersOK == \A s \in Servers : ServerOK(s)

(* The counters of the hub.                                                *)
Has(s, cmd) == \E p \in Pipes : \E m \in Messages(p) : Owner(m.hdr) = s /\ m.hdr.cmd = cmd
BarrierCounted ==
  {s \in Servers : InBarrierNow(s) /\ ~Has(s, "BARRIER_REQUEST") /\ ~Has(s, "BARRIER_RESPONSE")}
CountersOK ==
  /\ bcnt = Cardinality(BarrierCounted)
  /\ ccnt = Cardinality(Contributors)
  /\ \A i \in DOMAIN parts : \A s \in Servers :
       parts[i].src = s => InExchange(s) /\ parts[i] = Contribution(s, Exchanged(s))

(* Exchanges that the hub has completed, as seen from s.                   *)
Completed(s) == Exchanged(s) + (IF Has(s, "FENCE_COMPLETE") THEN 1 ELSE 0)
InStep == \A s, t \in Servers : Completed(s) = Completed(t)

LinkInv ==
  /\ LinkType /\ StreamsOK
  /\ MessagesOK /\ OneMessage /\ RequestsOK
  /\ ServersOK /\ CountersOK /\ InStep

-----------------------------------------------------------------------------
(* What sending and receiving do to a stream.                              *)

LEMMA Concatenated ==
  ASSUME NEW p, NEW S \in Seq(Entry), NEW W \in Seq(Entry), Framed(S, p), Framed(W, p)
  PROVE  /\ Framed(S \o W, p)
         /\ MessagesIn(S \o W, p) = MessagesIn(S, p) \cup MessagesIn(W, p)
         /\ /\ OnePerOwner(S, p) /\ OnePerOwner(W, p)
            /\ \A m \in MessagesIn(S, p), n \in MessagesIn(W, p) : Owner(m.hdr) # Owner(n.hdr)
            => OnePerOwner(S \o W, p)
  <1> DEFINE R == S \o W
             k == Len(S)
  <1>1. /\ k \in Nat /\ DOMAIN S = 1 .. k /\ Len(W) \in Nat /\ DOMAIN W = 1 .. Len(W)
        /\ DOMAIN R = 1 .. k + Len(W)
        /\ \A i \in 1 .. k : R[i] = S[i]
        /\ \A i \in 1 .. Len(W) : R[k + i] = W[i]
        /\ \A i \in k + 1 .. k + Len(W) : R[i] = W[i - k]
    BY ConcatProperties, LenProperties
  <1> HIDE DEF R, k
  <1>2. Framed(R, p)
    <2> SUFFICES ASSUME NEW i \in DOMAIN R
                 PROVE  /\ IsFull(R[i], p) => i + 1 \in DOMAIN R /\ IsData(R[i + 1], p)
                        /\ IsData(R[i], p) => i - 1 \in DOMAIN R /\ IsFull(R[i - 1], p)
      BY DEF Framed
    <2>1. CASE i \in 1 .. k
      <3>1. R[i] = S[i] /\ (i + 1 \in 1 .. k => R[i + 1] = S[i + 1]) /\ (i - 1 \in 1 .. k => R[i - 1] = S[i - 1])
        BY <1>1, <2>1
      <3> QED
        BY <1>1, <2>1, <3>1 DEF Framed
    <2>2. ASSUME NEW j \in 1 .. Len(W), i = k + j
          PROVE  /\ IsFull(R[i], p) => i + 1 \in DOMAIN R /\ IsData(R[i + 1], p)
                 /\ IsData(R[i], p) => i - 1 \in DOMAIN R /\ IsFull(R[i - 1], p)
      <3>1. R[i] = W[j]
        BY <1>1, <2>2
      <3>2. j + 1 \in 1 .. Len(W) => i + 1 \in DOMAIN R /\ R[i + 1] = W[j + 1]
        <4>1. i + 1 = k + (j + 1)
          BY <1>1, <2>2
        <4> QED
          BY <1>1, <4>1
      <3>3. j - 1 \in 1 .. Len(W) => i - 1 \in DOMAIN R /\ R[i - 1] = W[j - 1]
        <4>1. i - 1 = k + (j - 1)
          BY <1>1, <2>2
        <4> QED
          BY <1>1, <4>1
      <3>4. /\ IsFull(W[j], p) => j + 1 \in 1 .. Len(W) /\ IsData(W[j + 1], p)
            /\ IsData(W[j], p) => j - 1 \in 1 .. Len(W) /\ IsFull(W[j - 1], p)
        BY <1>1 DEF Framed
      <3> QED
        BY <3>1, <3>2, <3>3, <3>4
    <2>3. i \in k + 1 .. k + Len(W) => \E j \in 1 .. Len(W) : i = k + j
      <3> SUFFICES ASSUME i \in k + 1 .. k + Len(W) PROVE \E j \in 1 .. Len(W) : i = k + j
        OBVIOUS
      <3>1. i - k \in 1 .. Len(W) /\ i = k + (i - k)
        BY <1>1
      <3> QED
        BY <3>1
    <2> QED
      BY <1>1, <2>1, <2>2, <2>3
  <1>3. \A i \in 1 .. k : IsHdr(S[i], p) => MessageAt(R, i) = MessageAt(S, i)
    <2> SUFFICES ASSUME NEW i \in 1 .. k, IsHdr(S[i], p) PROVE MessageAt(R, i) = MessageAt(S, i)
      OBVIOUS
    <2>1. S[i].chunk.full => i + 1 \in 1 .. k
      BY <1>1 DEF Framed, IsFull
    <2> QED
      BY <1>1, <2>1 DEF MessageAt
  <1>4. \A i \in 1 .. Len(W) : IsHdr(W[i], p) => MessageAt(R, k + i) = MessageAt(W, i)
    <2> SUFFICES ASSUME NEW i \in 1 .. Len(W), IsHdr(W[i], p) PROVE MessageAt(R, k + i) = MessageAt(W, i)
      OBVIOUS
    <2>1. W[i].chunk.full => i + 1 \in 1 .. Len(W) /\ R[k + i + 1] = W[i + 1]
      BY <1>1 DEF Framed, IsFull
    <2>2. R[k + i] = W[i]
      BY <1>1
    <2> QED
      BY <1>1, <2>1, <2>2 DEF MessageAt
  <1>5. MessagesIn(R, p) \subseteq MessagesIn(S, p) \cup MessagesIn(W, p)
    <2> SUFFICES ASSUME NEW i \in DOMAIN R, IsHdr(R[i], p)
                 PROVE  MessageAt(R, i) \in MessagesIn(S, p) \cup MessagesIn(W, p)
      BY DEF MessagesIn
    <2>1. CASE i \in 1 .. k
      BY <1>1, <1>3, <2>1 DEF MessagesIn
    <2>2. CASE i \in k + 1 .. k + Len(W)
      <3>1. i - k \in 1 .. Len(W) /\ R[i] = W[i - k] /\ i = k + (i - k)
        BY <1>1, <2>2
      <3>2. MessageAt(R, i) = MessageAt(W, i - k)
        BY <1>4, <3>1
      <3> QED
        BY <1>1, <3>1, <3>2 DEF MessagesIn
    <2> QED
      BY <1>1, <2>1, <2>2
  <1>6. MessagesIn(S, p) \subseteq MessagesIn(R, p)
    <2> SUFFICES ASSUME NEW i \in DOMAIN S, IsHdr(S[i], p) PROVE MessageAt(S, i) \in MessagesIn(R, p)
      BY DEF MessagesIn
    <2>1. MessageAt(S, i) = MessageAt(R, i) /\ i \in DOMAIN R /\ R[i] = S[i]
      BY <1>1, <1>3
    <2> QED
      BY <2>1 DEF MessagesIn
  <1>7. MessagesIn(W, p) \subseteq MessagesIn(R, p)
    <2> SUFFICES ASSUME NEW i \in DOMAIN W, IsHdr(W[i], p) PROVE MessageAt(W, i) \in MessagesIn(R, p)
      BY DEF MessagesIn
    <2>1. MessageAt(W, i) = MessageAt(R, k + i) /\ k + i \in DOMAIN R /\ R[k + i] = W[i]
      BY <1>1, <1>4
    <2> QED
      BY <2>1 DEF MessagesIn
  <1>8. ASSUME OnePerOwner(S, p), OnePerOwner(W, p),
               \A m \in MessagesIn(S, p), n \in MessagesIn(W, p) : Owner(m.hdr) # Owner(n.hdr)
        PROVE  OnePerOwner(R, p)
    <2> SUFFICES ASSUME NEW i \in DOMAIN R, NEW j \in DOMAIN R, IsHdr(R[i], p), IsHdr(R[j], p),
                        Owner(R[i].chunk) = Owner(R[j].chunk)
                 PROVE  i = j
      BY DEF OnePerOwner
    <2>0. \A a \in 1 .. k, b \in 1 .. Len(W) :
             IsHdr(S[a], p) /\ IsHdr(W[b], p) => Owner(S[a].chunk) # Owner(W[b].chunk)
      <3> SUFFICES ASSUME NEW a \in 1 .. k, NEW b \in 1 .. Len(W), IsHdr(S[a], p), IsHdr(W[b], p)
                   PROVE  Owner(S[a].chunk) # Owner(W[b].chunk)
        OBVIOUS
      <3>1. MessageAt(S, a) \in MessagesIn(S, p) /\ MessageAt(W, b) \in MessagesIn(W, p)
        BY <1>1 DEF MessagesIn
      <3>2. MessageAt(S, a).hdr = S[a].chunk /\ MessageAt(W, b).hdr = W[b].chunk
        BY DEF MessageAt
      <3> QED
        BY <1>8, <3>1, <3>2
    <2>1. CASE i \in 1 .. k /\ j \in 1 .. k
      BY <1>1, <1>8, <2>1 DEF OnePerOwner
    <2>2. CASE i \in k + 1 .. k + Len(W) /\ j \in k + 1 .. k + Len(W)
      <3>1. i - k \in 1 .. Len(W) /\ j - k \in 1 .. Len(W) /\ R[i] = W[i - k] /\ R[j] = W[j - k]
        BY <1>1, <2>2
      <3>2. i - k = j - k
        BY <1>1, <1>8, <3>1 DEF OnePerOwner
      <3> QED
        BY <1>1, <2>2, <3>2
    <2>3. CASE i \in 1 .. k /\ j \in k + 1 .. k + Len(W)
      <3>1. j - k \in 1 .. Len(W) /\ R[j] = W[j - k] /\ R[i] = S[i]
        BY <1>1, <2>3
      <3> QED
        BY <2>0, <2>3, <3>1
    <2>4. CASE j \in 1 .. k /\ i \in k + 1 .. k + Len(W)
      <3>1. i - k \in 1 .. Len(W) /\ R[i] = W[i - k] /\ R[j] = S[j]
        BY <1>1, <2>4
      <3> QED
        BY <2>0, <2>4, <3>1
    <2> QED
      BY <1>1, <2>1, <2>2, <2>3, <2>4
  <1> QED
    BY <1>2, <1>5, <1>6, <1>7, <1>8 DEF R

(* A sequence that starts with whole messages.                             *)
LEMMA Split ==
  ASSUME NEW p, NEW S \in Seq(Entry), NEW W \in Seq(Entry),
         Framed(S, p), Framed(S \o W, p), OnePerOwner(S \o W, p)
  PROVE  /\ Framed(W, p) /\ OnePerOwner(S, p) /\ OnePerOwner(W, p)
         /\ \A m \in MessagesIn(S, p), n \in MessagesIn(W, p) : Owner(m.hdr) # Owner(n.hdr)
  <1> DEFINE R == S \o W
             k == Len(S)
  <1>1. /\ k \in Nat /\ DOMAIN S = 1 .. k /\ Len(W) \in Nat /\ DOMAIN W = 1 .. Len(W)
        /\ DOMAIN R = 1 .. k + Len(W)
        /\ \A i \in 1 .. k : i \in DOMAIN R /\ R[i] = S[i]
        /\ \A i \in 1 .. Len(W) : k + i \in DOMAIN R /\ R[k + i] = W[i]
    BY ConcatProperties, LenProperties
  <1> HIDE DEF R, k
  <1>2. Framed(R, p) /\ OnePerOwner(R, p)
    BY DEF R
  <1>3. Framed(W, p)
    <2> SUFFICES ASSUME NEW i \in 1 .. Len(W)
                 PROVE  /\ IsFull(W[i], p) => i + 1 \in 1 .. Len(W) /\ IsData(W[i + 1], p)
                        /\ IsData(W[i], p) => i - 1 \in 1 .. Len(W) /\ IsFull(W[i - 1], p)
      BY <1>1 DEF Framed
    <2>1. k + i \in DOMAIN R /\ R[k + i] = W[i]
      BY <1>1
    <2>2. ASSUME IsFull(W[i], p) PROVE i + 1 \in 1 .. Len(W) /\ IsData(W[i + 1], p)
      <3>1. k + i + 1 \in DOMAIN R /\ IsData(R[k + i + 1], p)
        BY <1>2, <2>1, <2>2 DEF Framed
      <3>2. i + 1 \in 1 .. Len(W) /\ k + i + 1 = k + (i + 1)
        BY <1>1, <3>1
      <3> QED
        BY <1>1, <3>1, <3>2
    <2>3. ASSUME IsData(W[i], p) PROVE i - 1 \in 1 .. Len(W) /\ IsFull(W[i - 1], p)
      <3>1. k + i - 1 \in DOMAIN R /\ IsFull(R[k + i - 1], p)
        BY <1>1, <1>2, <2>1, <2>3 DEF Framed
      <3>2. CASE i = 1
        <4>1. k \in 1 .. k /\ R[k] = S[k] /\ IsFull(S[k], p)
          BY <1>1, <3>1, <3>2
        <4>2. k + 1 \in DOMAIN S
          BY <1>1, <4>1 DEF Framed
        <4> QED
          BY <1>1, <4>2
      <3>3. CASE i # 1
        <4>1. i - 1 \in 1 .. Len(W) /\ k + i - 1 = k + (i - 1)
          BY <1>1, <3>3
        <4> QED
          BY <1>1, <3>1, <4>1
      <3> QED
        BY <3>2, <3>3
    <2> QED
      BY <2>2, <2>3
  <1>4. OnePerOwner(S, p)
    <2> SUFFICES ASSUME NEW i \in 1 .. k, NEW j \in 1 .. k, IsHdr(S[i], p), IsHdr(S[j], p),
                        Owner(S[i].chunk) = Owner(S[j].chunk)
                 PROVE  i = j
      BY <1>1 DEF OnePerOwner
    <2>1. i \in DOMAIN R /\ j \in DOMAIN R /\ R[i] = S[i] /\ R[j] = S[j]
      BY <1>1
    <2> QED
      BY <1>2, <2>1 DEF OnePerOwner
  <1>5. OnePerOwner(W, p)
    <2> SUFFICES ASSUME NEW i \in 1 .. Len(W), NEW j \in 1 .. Len(W), IsHdr(W[i], p), IsHdr(W[j], p),
                        Owner(W[i].chunk) = Owner(W[j].chunk)
                 PROVE  i = j
      BY <1>1 DEF OnePerOwner
    <2>1. k + i \in DOMAIN R /\ k + j \in DOMAIN R /\ R[k + i] = W[i] /\ R[k + j] = W[j]
      BY <1>1
    <2>2. k + i = k + j
      BY <1>2, <2>1 DEF OnePerOwner
    <2> QED
      BY <1>1, <2>2
  <1>6. ASSUME NEW m \in MessagesIn(S, p), NEW n \in MessagesIn(W, p)
        PROVE  Owner(m.hdr) # Owner(n.hdr)
    <2>1. PICK i \in 1 .. k : IsHdr(S[i], p) /\ m = MessageAt(S, i)
      BY <1>1 DEF MessagesIn
    <2>2. PICK j \in 1 .. Len(W) : IsHdr(W[j], p) /\ n = MessageAt(W, j)
      BY <1>1 DEF MessagesIn
    <2>3. i \in DOMAIN R /\ R[i] = S[i] /\ k + j \in DOMAIN R /\ R[k + j] = W[j] /\ i # k + j
      BY <1>1
    <2>4. m.hdr = S[i].chunk /\ n.hdr = W[j].chunk
      BY <2>1, <2>2 DEF MessageAt
    <2> QED
      BY <1>2, <2>1, <2>2, <2>3, <2>4 DEF OnePerOwner
  <1> QED
    BY <1>3, <1>4, <1>5, <1>6

(* The entries of other pipes do not count.                                *)
LEMMA Foreign ==
  ASSUME NEW p, NEW e \in Entry, e.pipe # p
  PROVE  /\ <<e>> \in Seq(Entry) /\ Framed(<<e>>, p) /\ OnePerOwner(<<e>>, p)
         /\ MessagesIn(<<e>>, p) = {}
  BY DEF Framed, OnePerOwner, MessagesIn, IsHdr, IsFull, IsData

LEMMA Nothing ==
  ASSUME NEW p
  PROVE  /\ << >> \in Seq(Entry) /\ Framed(<< >>, p) /\ OnePerOwner(<< >>, p)
         /\ MessagesIn(<< >>, p) = {}
  BY DEF Framed, OnePerOwner, MessagesIn

LEMMA RemoveOther ==
  ASSUME NEW p, NEW A \in Seq(Entry), NEW B \in Seq(Entry), NEW e \in Entry, e.pipe # p,
         Framed(A \o (<<e>> \o B), p), OnePerOwner(A \o (<<e>> \o B), p)
  PROVE  /\ Framed(A \o B, p) /\ OnePerOwner(A \o B, p)
         /\ MessagesIn(A \o B, p) = MessagesIn(A \o (<<e>> \o B), p)
  <1> DEFINE E == <<e>> \o B
             S == A \o E
             k == Len(A)
  <1>0. <<e>> \in Seq(Entry) /\ E \in Seq(Entry) /\ S \in Seq(Entry) /\ Len(E) \in Nat /\ E[1] = e /\ Len(E) >= 1
    BY ConcatProperties, LenProperties
  <1>1. /\ k \in Nat /\ DOMAIN A = 1 .. k /\ DOMAIN S = 1 .. k + Len(E)
        /\ \A i \in 1 .. k : i \in DOMAIN S /\ S[i] = A[i]
        /\ k + 1 \in DOMAIN S /\ S[k + 1] = e
    <2> HIDE DEF E
    <2> QED
      BY <1>0, ConcatProperties, LenProperties
  <1>2. Framed(S, p) /\ OnePerOwner(S, p)
    OBVIOUS
  <1>3. Framed(A, p)
    <2> HIDE DEF S, E, k
    <2> SUFFICES ASSUME NEW i \in 1 .. k
                 PROVE  /\ IsFull(A[i], p) => i + 1 \in 1 .. k /\ IsData(A[i + 1], p)
                        /\ IsData(A[i], p) => i - 1 \in 1 .. k /\ IsFull(A[i - 1], p)
      BY <1>1 DEF Framed
    <2>1. i \in DOMAIN S /\ S[i] = A[i]
      BY <1>1
    <2>2. ASSUME IsFull(A[i], p) PROVE i + 1 \in 1 .. k /\ IsData(A[i + 1], p)
      <3>1. IsData(S[i + 1], p)
        BY <1>2, <2>1, <2>2 DEF Framed
      <3>2. i # k
        BY <1>1, <3>1 DEF IsData
      <3>3. i + 1 \in 1 .. k
        BY <1>1, <3>2
      <3> QED
        BY <1>1, <3>1, <3>3
    <2>3. ASSUME IsData(A[i], p) PROVE i - 1 \in 1 .. k /\ IsFull(A[i - 1], p)
      <3>1. i - 1 \in DOMAIN S /\ IsFull(S[i - 1], p)
        BY <1>2, <2>1, <2>3 DEF Framed
      <3>2. i - 1 \in 1 .. k
        BY <1>0, <1>1, <3>1
      <3> QED
        BY <1>1, <3>1, <3>2
    <2> QED
      BY <2>2, <2>3
  <1>4. /\ Framed(E, p) /\ OnePerOwner(A, p) /\ OnePerOwner(E, p)
        /\ \A m \in MessagesIn(A, p), n \in MessagesIn(E, p) : Owner(m.hdr) # Owner(n.hdr)
    <2> HIDE DEF E
    <2> QED
      BY <1>0, <1>2, <1>3, Split
  <1>5. /\ Framed(<<e>>, p) /\ MessagesIn(<<e>>, p) = {}
    BY Foreign
  <1>6. /\ Framed(B, p) /\ OnePerOwner(B, p)
    BY <1>0, <1>4, <1>5, Split
  <1>7. MessagesIn(E, p) = MessagesIn(B, p)
    <2>1. MessagesIn(E, p) = MessagesIn(<<e>>, p) \cup MessagesIn(B, p)
      BY <1>0, <1>5, <1>6, Concatenated
    <2> QED
      BY <1>5, <2>1
  <1>8. MessagesIn(S, p) = MessagesIn(A, p) \cup MessagesIn(B, p)
    <2> HIDE DEF E
    <2> QED
      BY <1>0, <1>3, <1>4, <1>7, Concatenated
  <1> QED
    BY <1>3, <1>4, <1>6, <1>7, <1>8, Concatenated

(* The write()s of a message, and those of a broadcast.                    *)
ChunksOf(r, h, body) ==
  IF h.full THEN <<[pipe |-> r, chunk |-> h], [pipe |-> r, chunk |-> Data(body)]>>
            ELSE <<[pipe |-> r, chunk |-> h]>>

IsWhole(X, r, m) ==
  /\ X \in Seq(Entry) /\ X # << >>
  /\ \A p : /\ Framed(X, p) /\ OnePerOwner(X, p)
            /\ MessagesIn(X, p) = IF p = r THEN {m} ELSE {}
  /\ \A i \in DOMAIN X : X[i].pipe = r

LEMMA WholeMessage ==
  ASSUME NEW r \in Pipes, NEW h \in Header, NEW body, h.full => body \in Body
  PROVE  IsWhole(ChunksOf(r, h, body), r, Message(h, body))
  <1> DEFINE W == ChunksOf(r, h, body)
             e == [pipe |-> r, chunk |-> h]
             d == [pipe |-> r, chunk |-> Data(body)]
  <1>1. h.chunk = "hdr" /\ h.full \in BOOLEAN /\ e \in Entry
    BY DEF Header, Entry, Chunk
  <1>2. CASE h.full
    <2>1. W = <<e, d>>
      BY <1>2 DEF ChunksOf
    <2>2. d \in Entry
      BY <1>2 DEF Data, Entry, Chunk
    <2>3. ASSUME NEW p
          PROVE  Framed(W, p) /\ OnePerOwner(W, p)
                 /\ MessagesIn(W, p) = IF p = r THEN {Message(h, body)} ELSE {}
      <3>1. /\ DOMAIN W = {1, 2} /\ W[1] = e /\ W[2] = d
            /\ IsHdr(e, p) <=> p = r
            /\ IsFull(e, p) <=> p = r
            /\ IsData(d, p) <=> p = r
            /\ ~IsData(e, p) /\ ~IsHdr(d, p) /\ ~IsFull(d, p)
        BY <1>1, <1>2, <2>1 DEF IsHdr, IsFull, IsData, Data
      <3>2. MessageAt(W, 1) = Message(h, body)
        BY <1>2, <3>1 DEF MessageAt, Message, Data
      <3> HIDE DEF W, e, d
      <3>3. Framed(W, p)
        BY <3>1 DEF Framed
      <3>4. OnePerOwner(W, p)
        BY <3>1 DEF OnePerOwner
      <3>5. {j \in DOMAIN W : IsHdr(W[j], p)} = IF p = r THEN {1} ELSE {}
        BY <3>1
      <3> QED
        BY <3>2, <3>3, <3>4, <3>5 DEF MessagesIn
    <2> QED
      BY <1>1, <2>1, <2>2, <2>3 DEF IsWhole
  <1>3. CASE ~h.full
    <2>1. W = <<e>>
      BY <1>3 DEF ChunksOf
    <2>3. ASSUME NEW p
          PROVE  Framed(W, p) /\ OnePerOwner(W, p)
                 /\ MessagesIn(W, p) = IF p = r THEN {Message(h, body)} ELSE {}
      <3>1. /\ DOMAIN W = {1} /\ W[1] = e
            /\ IsHdr(e, p) <=> p = r
            /\ ~IsData(e, p) /\ ~IsFull(e, p)
        BY <1>1, <1>3, <2>1 DEF IsHdr, IsFull, IsData
      <3>2. MessageAt(W, 1) = Message(h, body)
        BY <1>3, <3>1 DEF MessageAt, Message
      <3> HIDE DEF W, e
      <3>3. Framed(W, p)
        BY <3>1 DEF Framed
      <3>4. OnePerOwner(W, p)
        BY <3>1 DEF OnePerOwner
      <3>5. {j \in DOMAIN W : IsHdr(W[j], p)} = IF p = r THEN {1} ELSE {}
        BY <3>1
      <3> QED
        BY <3>2, <3>3, <3>4, <3>5 DEF MessagesIn
    <2> QED
      BY <1>1, <2>1, <2>3 DEF IsWhole
  <1> QED
    BY <1>2, <1>3

LEMMA WritesMessage ==
  ASSUME NEW s, NEW h \in Header, NEW body, h.full => body \in Body, Route(s, h.dst) \in Pipes
  PROVE  IsWhole(Writes(s, h, body), Route(s, h.dst), Message(h, body))
  <1>1. Writes(s, h, body) = ChunksOf(Route(s, h.dst), h, body)
    BY DEF Writes, ChunksOf
  <1> QED
    BY <1>1, WholeMessage

LEMMA BroadcastMessages ==
  ASSUME NEW h \in Header, NEW body, h.full => body \in Body,
         h.cmd \in {"BARRIER_RESPONSE", "FENCE_COMPLETE"}
  PROVE  /\ Broadcast(h, body) \in Seq(Entry)
         /\ \A p : /\ Framed(Broadcast(h, body), p) /\ OnePerOwner(Broadcast(h, body), p)
                   /\ MessagesIn(Broadcast(h, body), p)
                        = IF p \in Servers THEN {Message([h EXCEPT !.dst = p], body)} ELSE {}
         /\ \A i \in DOMAIN Broadcast(h, body) : Broadcast(h, body)[i].pipe \in Servers
         /\ Broadcast(h, body) # << >>
         /\ Broadcast(h, body)[Len(Broadcast(h, body))].pipe = 0
  <1> DEFINE W == Broadcast(h, body)
             g(q) == [h EXCEPT !.dst = q]
             e(q) == [pipe |-> q, chunk |-> g(q)]
             d(q) == [pipe |-> q, chunk |-> Data(body)]
  <1>1. h.chunk = "hdr" /\ h.full \in BOOLEAN /\ N \in Nat /\ N >= 2
    BY ServerLinkAssumption DEF Header
  <1>2. ASSUME NEW q \in Servers
        PROVE  /\ g(q) \in Header /\ g(q).full = h.full /\ g(q).dst = q /\ Owner(g(q)) = q
               /\ e(q) \in Entry /\ q \in Pipes
               /\ h.full => d(q) \in Entry
               /\ Message(g(q), body) = [hdr |-> g(q), body |-> IF h.full THEN body ELSE NoBody]
               /\ Writes(0, g(q), body) = IF h.full THEN <<e(q), d(q)>> ELSE <<e(q)>>
               /\ \A p : /\ IsHdr(e(q), p) <=> p = q
                         /\ IsFull(e(q), p) <=> p = q /\ h.full
                         /\ IsData(d(q), p) <=> p = q
                         /\ ~IsData(e(q), p) /\ ~IsHdr(d(q), p) /\ ~IsFull(d(q), p)
    <2>1. q \in Pipes
      BY <1>1 DEF Servers, Pipes
    <2>2. g(q) \in Header /\ g(q).full = h.full /\ g(q).dst = q /\ g(q).cmd = h.cmd /\ g(q).chunk = "hdr"
      BY DEF Header
    <2>3. Owner(g(q)) = q
      BY <2>2 DEF Owner
    <2>4. Writes(0, g(q), body) = IF h.full THEN <<e(q), d(q)>> ELSE <<e(q)>>
      BY <2>2 DEF Writes, Route
    <2> QED
      BY <1>1, <2>1, <2>2, <2>3, <2>4 DEF Entry, Chunk, Data, Message, IsHdr, IsFull, IsData
  <1> HIDE DEF g
  <1>3. CASE ~h.full
    <2>1. W = [i \in 1 .. N |-> e(N - i)]
      <3>1. Chunks(h) = 1 /\ Chunks(h) * N = N
        BY <1>1, <1>3 DEF Chunks
      <3>2. ASSUME NEW i \in 1 .. N PROVE Broadcasted(i, h, body) = e(N - i)
        <4>1. N - i \in Servers /\ (i - 1) \div 1 = i - 1 /\ (i - 1) % 1 = 0 /\ N - 1 - (i - 1) = N - i
          BY <1>1 DEF Servers
        <4>2. Broadcasted(i, h, body) = Writes(0, g(N - i), body)[1]
          BY <3>1, <4>1 DEF Broadcasted, g
        <4>3. Writes(0, g(N - i), body) = <<e(N - i)>>
          BY <1>2, <1>3, <4>1
        <4> HIDE DEF e
        <4> QED
          BY <4>2, <4>3
      <3> HIDE DEF e
      <3> QED
        BY <3>1, <3>2 DEF Broadcast
    <2>2. ASSUME NEW i \in 1 .. N PROVE N - i \in Servers
      BY <1>1 DEF Servers
    <2>3. W \in Seq(Entry) /\ Len(W) = N /\ DOMAIN W = 1 .. N /\ \A i \in 1 .. N : W[i] = e(N - i)
      <3> HIDE DEF e, W
      <3>1. \A i \in 1 .. N : e(N - i) \in Entry
        BY <1>2, <2>2
      <3> QED
        BY <1>1, <2>1, <3>1
    <2> HIDE DEF W, e, d
    <2>4. ASSUME NEW p
          PROVE  Framed(W, p) /\ OnePerOwner(W, p)
                 /\ MessagesIn(W, p) = IF p \in Servers THEN {Message(g(p), body)} ELSE {}
      <3>1. Framed(W, p)
        BY <1>2, <1>3, <2>2, <2>3 DEF Framed
      <3>2. ASSUME NEW i \in 1 .. N, IsHdr(W[i], p) PROVE p \in Servers /\ i = N - p
        BY <1>1, <1>2, <2>2, <2>3, <3>2
      <3>3. OnePerOwner(W, p)
        <4>1. \A i, j \in 1 .. N : IsHdr(W[i], p) /\ IsHdr(W[j], p) => i = j
          BY <3>2
        <4> QED
          BY <2>3, <4>1 DEF OnePerOwner
      <3>4. CASE p \in Servers
        <4>1. N - p \in 1 .. N /\ N - (N - p) = p
          BY <1>1, <3>4 DEF Servers
        <4>2. W[N - p] = e(p) /\ IsHdr(W[N - p], p)
          BY <1>2, <2>3, <3>4, <4>1
        <4>3. MessageAt(W, N - p) = Message(g(p), body)
          BY <1>2, <1>3, <3>4, <4>2 DEF MessageAt, e
        <4>4. {j \in DOMAIN W : IsHdr(W[j], p)} = {N - p}
          BY <2>3, <3>2, <4>1, <4>2
        <4> QED
          BY <3>1, <3>3, <3>4, <4>3, <4>4 DEF MessagesIn
      <3>5. CASE p \notin Servers
        <4>1. {j \in DOMAIN W : IsHdr(W[j], p)} = {}
          BY <2>3, <3>2, <3>5
        <4> QED
          BY <3>1, <3>3, <3>5, <4>1 DEF MessagesIn
      <3> QED
        BY <3>4, <3>5
    <2>5. \A i \in DOMAIN W : W[i].pipe \in Servers
      BY <2>2, <2>3 DEF e
    <2>6. W # << >> /\ W[Len(W)].pipe = 0
      <3>1. W[N] = e(0)
        BY <1>1, <2>3
      <3> QED
        BY <1>1, <2>3, <3>1 DEF e
    <2> QED
      BY <2>3, <2>4, <2>5, <2>6 DEF W, g
  <1>4. CASE h.full
    <2>1. /\ W = [i \in 1 .. 2 * N |-> Broadcasted(i, h, body)]
          /\ \A q \in Servers : /\ 2 * (N - q) - 1 \in 1 .. 2 * N /\ 2 * (N - q) \in 1 .. 2 * N
                                /\ Broadcasted(2 * (N - q) - 1, h, body) = e(q)
                                /\ Broadcasted(2 * (N - q), h, body) = d(q)
      <3>1. Chunks(h) = 2 /\ Chunks(h) * N = 2 * N
        BY <1>1, <1>4 DEF Chunks
      <3>2. W = [i \in 1 .. 2 * N |-> Broadcasted(i, h, body)]
        BY <3>1 DEF Broadcast
      <3>3. ASSUME NEW q \in Servers
            PROVE  /\ 2 * (N - q) - 1 \in 1 .. 2 * N /\ 2 * (N - q) \in 1 .. 2 * N
                   /\ Broadcasted(2 * (N - q) - 1, h, body) = e(q)
                   /\ Broadcasted(2 * (N - q), h, body) = d(q)
        <4>1. /\ 2 * (N - q) - 1 \in 1 .. 2 * N /\ 2 * (N - q) \in 1 .. 2 * N
              /\ N - 1 - ((2 * (N - q) - 1 - 1) \div 2) = q /\ 1 + ((2 * (N - q) - 1 - 1) % 2) = 1
              /\ N - 1 - ((2 * (N - q) - 1) \div 2) = q /\ 1 + ((2 * (N - q) - 1) % 2) = 2
          BY <1>1 DEF Servers
        <4>2. Writes(0, g(q), body) = <<e(q), d(q)>>
          BY <1>2, <1>4
        <4>3. Broadcasted(2 * (N - q) - 1, h, body) = Writes(0, g(q), body)[1]
          BY <3>1, <4>1 DEF Broadcasted, g
        <4>4. Broadcasted(2 * (N - q), h, body) = Writes(0, g(q), body)[2]
          BY <3>1, <4>1 DEF Broadcasted, g
        <4> HIDE DEF e, d
        <4> QED
          BY <4>1, <4>2, <4>3, <4>4
      <3> QED
        BY <3>2, <3>3
    <2>2. ASSUME NEW i \in 1 .. 2 * N
          PROVE  \E q \in Servers : i = 2 * (N - q) - 1 \/ i = 2 * (N - q)
      <3>1. PICK j \in 1 .. N : i = 2 * j - 1 \/ i = 2 * j
        <4>1. (i + 1) \div 2 \in 1 .. N /\ (i = 2 * ((i + 1) \div 2) - 1 \/ i = 2 * ((i + 1) \div 2))
          BY <1>1
        <4> QED
          BY <4>1
      <3>2. N - j \in Servers /\ N - (N - j) = j
        BY <1>1 DEF Servers
      <3> QED
        BY <3>1, <3>2
    <2> HIDE DEF W, e, d
    <2>3. /\ DOMAIN W = 1 .. 2 * N
          /\ \A q \in Servers : /\ 2 * (N - q) - 1 \in DOMAIN W /\ 2 * (N - q) \in DOMAIN W
                                /\ W[2 * (N - q) - 1] = e(q) /\ W[2 * (N - q)] = d(q)
          /\ W \in Seq(Entry) /\ Len(W) = 2 * N
      <3>1. ASSUME NEW i \in 1 .. 2 * N PROVE Broadcasted(i, h, body) \in Entry
        <4>1. PICK q \in Servers : i = 2 * (N - q) - 1 \/ i = 2 * (N - q)
          BY <2>2
        <4>2. e(q) \in Entry /\ d(q) \in Entry
          BY <1>2, <1>4
        <4> QED
          BY <2>1, <4>1, <4>2
      <3>2. 2 * N \in Nat
        BY <1>1
      <3> DEFINE f(i) == Broadcasted(i, h, body)
      <3>3. W = [i \in 1 .. 2 * N |-> f(i)] /\ \A i \in 1 .. 2 * N : f(i) \in Entry
        BY <2>1, <3>1
      <3>4. \A q \in Servers : /\ 2 * (N - q) - 1 \in 1 .. 2 * N /\ 2 * (N - q) \in 1 .. 2 * N
                               /\ f(2 * (N - q) - 1) = e(q) /\ f(2 * (N - q)) = d(q)
        BY <2>1
      <3> HIDE DEF f
      <3>5. W \in Seq(Entry) /\ Len(W) = 2 * N
        BY <3>2, <3>3
      <3> QED
        BY <3>3, <3>4, <3>5
    <2>4. ASSUME NEW p
          PROVE  Framed(W, p) /\ OnePerOwner(W, p)
                 /\ MessagesIn(W, p) = IF p \in Servers THEN {Message(g(p), body)} ELSE {}
      <3>1. Framed(W, p)
        <4> SUFFICES ASSUME NEW i \in DOMAIN W
                     PROVE  /\ IsFull(W[i], p) => i + 1 \in DOMAIN W /\ IsData(W[i + 1], p)
                            /\ IsData(W[i], p) => i - 1 \in DOMAIN W /\ IsFull(W[i - 1], p)
          BY DEF Framed
        <4>1. PICK q \in Servers : i = 2 * (N - q) - 1 \/ i = 2 * (N - q)
          BY <2>2, <2>3
        <4>2. q \in Int
          BY DEF Servers
        <4>5. /\ IsFull(e(q), p) => IsData(d(q), p)
              /\ IsData(d(q), p) => IsFull(e(q), p)
              /\ ~IsData(e(q), p) /\ ~IsFull(d(q), p)
          BY <1>2, <1>4
        <4>3. CASE i = 2 * (N - q) - 1
          <5>1. i + 1 = 2 * (N - q)
            BY <1>1, <4>2, <4>3
          <5>2. W[i] = e(q) /\ i + 1 \in DOMAIN W /\ W[i + 1] = d(q)
            BY <2>3, <4>3, <5>1
          <5> QED
            BY <4>5, <5>2
        <4>4. CASE i = 2 * (N - q)
          <5>1. i - 1 = 2 * (N - q) - 1
            BY <1>1, <4>2, <4>4
          <5>2. W[i] = d(q) /\ i - 1 \in DOMAIN W /\ W[i - 1] = e(q)
            BY <2>3, <4>4, <5>1
          <5> QED
            BY <4>5, <5>2
        <4> QED
          BY <4>1, <4>3, <4>4
      <3>2. ASSUME NEW i \in DOMAIN W, IsHdr(W[i], p) PROVE p \in Servers /\ i = 2 * (N - p) - 1
        <4>1. PICK q \in Servers : i = 2 * (N - q) - 1 \/ i = 2 * (N - q)
          BY <2>2, <2>3
        <4> QED
          BY <1>2, <2>3, <3>2, <4>1
      <3>3. OnePerOwner(W, p)
        <4>1. \A i, j \in DOMAIN W : IsHdr(W[i], p) /\ IsHdr(W[j], p) => i = j
          BY <3>2
        <4> QED
          BY <4>1 DEF OnePerOwner
      <3>4. CASE p \in Servers
        <4> DEFINE i == 2 * (N - p) - 1
        <4>1. p \in Int /\ i + 1 = 2 * (N - p)
          BY <1>1, <3>4 DEF Servers
        <4>2. W[i] = e(p) /\ W[i + 1] = d(p) /\ i \in DOMAIN W
          BY <2>3, <3>4, <4>1
        <4> HIDE DEF i
        <4>3. IsHdr(W[i], p)
          BY <1>2, <3>4, <4>2
        <4>4. MessageAt(W, i) = Message(g(p), body)
          <5>1. W[i].chunk = g(p) /\ W[i + 1].chunk.body = body
            BY <4>2 DEF e, d, Data
          <5>2. g(p).full /\ Message(g(p), body) = [hdr |-> g(p), body |-> body]
            BY <1>2, <1>4, <3>4
          <5> QED
            BY <5>1, <5>2 DEF MessageAt
        <4>5. {j \in DOMAIN W : IsHdr(W[j], p)} = {i}
          BY <3>2, <4>2, <4>3 DEF i
        <4> QED
          BY <3>1, <3>3, <3>4, <4>4, <4>5 DEF MessagesIn
      <3>5. CASE p \notin Servers
        <4>1. {j \in DOMAIN W : IsHdr(W[j], p)} = {}
          BY <3>2, <3>5
        <4> QED
          BY <3>1, <3>3, <3>5, <4>1 DEF MessagesIn
      <3> QED
        BY <3>4, <3>5
    <2>5. ASSUME NEW i \in DOMAIN W PROVE W[i].pipe \in Servers
      <3>1. PICK q \in Servers : i = 2 * (N - q) - 1 \/ i = 2 * (N - q)
        BY <2>2, <2>3
      <3>2. W[i] = e(q) \/ W[i] = d(q)
        BY <2>3, <3>1
      <3> QED
        BY <3>2 DEF e, d
    <2>6. W # << >> /\ W[Len(W)].pipe = 0
      <3>1. 0 \in Servers /\ 2 * (N - 0) = 2 * N
        BY <1>1 DEF Servers
      <3>2. W[2 * N] = d(0)
        BY <2>3, <3>1
      <3> QED
        BY <1>1, <2>3, <3>2 DEF d
    <2> QED
      BY <2>3, <2>4, <2>5, <2>6 DEF W, g
  <1> QED
    BY <1>1, <1>3, <1>4

-----------------------------------------------------------------------------
(* What a step does to the streams.                                        *)

LEMMA Topology ==
  /\ N \in Nat /\ N >= 2 /\ 0 \in Servers
  /\ \A p \in Pipes : Reader(p) \in Servers /\ Writer(p) \in Servers
  /\ \A s \in Servers : s \in Pipes /\ -s \in Pipes /\ Writer(-s) = s /\ Reader(s) = s /\ Writer(s) = 0
  /\ \A s, t \in Servers : Route(s, t) \in Pipes /\ Writer(Route(s, t)) = s
  BY ServerLinkAssumption DEF Servers, Pipes, Reader, Writer, Route

LEMMA StreamTypes ==
  ASSUME LinkType, NEW p \in Pipes
  PROVE  /\ Begun(p) \in Seq(Entry) /\ InPipe(p) \in Seq(Entry)
         /\ Unread(p) \in Seq(Entry) /\ Out(Writer(p)) \in Seq(Entry)
         /\ Stream(p) \in Seq(Entry)
  <1>1. Begun(p) \in Seq(Entry)
    <2>1. CASE cur[Reader(p)].what = "payload" /\ cur[Reader(p)].pipe = p
      <3>1. cur[Reader(p)].hdr \in Header
        <4>1. cur[Reader(p)] \in {Idle} \cup [what : {"payload"}, pipe : Pipes, hdr : Header]
          BY Topology DEF LinkType
        <4>2. cur[Reader(p)] # Idle
          BY <2>1 DEF Idle
        <4> QED
          BY <4>1, <4>2
      <3>2. [pipe |-> p, chunk |-> cur[Reader(p)].hdr] \in Entry
        BY <3>1 DEF Entry, Chunk
      <3> QED
        BY <2>1, <3>2 DEF Begun
    <2>2. CASE ~(cur[Reader(p)].what = "payload" /\ cur[Reader(p)].pipe = p)
      BY <2>2 DEF Begun
    <2> QED
      BY <2>1, <2>2
  <1>2. InPipe(p) \in Seq(Entry)
    <2>1. pipe[p] \in Seq(Chunk) /\ Len(pipe[p]) \in Nat /\ \A i \in 1 .. Len(pipe[p]) : pipe[p][i] \in Chunk
      BY DEF LinkType
    <2>2. \A i \in 1 .. Len(pipe[p]) : [pipe |-> p, chunk |-> pipe[p][i]] \in Entry
      BY <2>1 DEF Entry
    <2> QED
      BY <2>1, <2>2 DEF InPipe
  <1>3. mout[Writer(p)] \in Seq(Entry) /\ pout[Writer(p)] \in Seq(Entry)
    BY Topology DEF LinkType
  <1> QED
    BY <1>1, <1>2, <1>3, ConcatProperties DEF Unread, Out, Stream

(* Whole messages D leave the head of stream p, and whole messages W[q] of *)
(* servers that have none, or had one of those, enter at the end of stream *)
(* q.                                                                      *)
Exchanging(p, D, Rest, W) ==
  /\ p \in Pipes /\ D \in Seq(Entry) /\ Rest \in Seq(Entry)
  /\ \A q \in Pipes : Stream(q) \in Seq(Entry)
  /\ Stream(p) = D \o Rest /\ Framed(D, p)
  /\ \A q \in Pipes : W[q] \in Seq(Entry) /\ Framed(W[q], q) /\ OnePerOwner(W[q], q)
  /\ \A q, r \in Pipes : \A m \in MessagesIn(W[q], q), n \in MessagesIn(W[r], r) :
       Owner(m.hdr) = Owner(n.hdr) => q = r /\ m = n
  /\ \A q, r \in Pipes : \A m \in Messages(q), n \in MessagesIn(W[r], r) :
       Owner(m.hdr) = Owner(n.hdr) => q = p /\ m \in MessagesIn(D, p)
  /\ \A q \in Pipes : Stream(q)' = (IF q = p THEN Rest ELSE Stream(q)) \o W[q]

LEMMA Exchange ==
  ASSUME FramesOK, OneMessage, NEW p, NEW D, NEW Rest, NEW W, Exchanging(p, D, Rest, W)
  PROVE  /\ FramesOK' /\ OneMessage'
         /\ \A q \in Pipes : Messages(q)' = (Messages(q) \ (IF q = p THEN MessagesIn(D, p) ELSE {}))
                                              \cup MessagesIn(W[q], q)
  <1> DEFINE R(q) == IF q = p THEN Rest ELSE Stream(q)
             X(q) == IF q = p THEN MessagesIn(D, p) ELSE {}
             V(q) == MessagesIn(W[q], q)
  <1> USE DEF Exchanging
  <1>1. ASSUME NEW q \in Pipes
        PROVE  /\ R(q) \in Seq(Entry) /\ Framed(R(q), q) /\ OnePerOwner(R(q), q)
               /\ MessagesIn(R(q), q) = Messages(q) \ X(q)
    <2>1. Framed(Stream(q), q) /\ OnePerOwner(Stream(q), q)
      BY DEF FramesOK
    <2>2. CASE q = p
      <3>1. /\ Framed(Rest, p) /\ OnePerOwner(Rest, p)
            /\ \A m \in MessagesIn(D, p), n \in MessagesIn(Rest, p) : Owner(m.hdr) # Owner(n.hdr)
        <4>1. Framed(D \o Rest, p) /\ OnePerOwner(D \o Rest, p)
          BY <2>1, <2>2
        <4> QED
          BY <4>1, Split
      <3>2. Messages(p) = MessagesIn(D, p) \cup MessagesIn(Rest, p)
        BY <3>1, Concatenated DEF Messages
      <3>3. MessagesIn(Rest, p) = Messages(p) \ MessagesIn(D, p)
        BY <3>1, <3>2
      <3> QED
        BY <2>2, <3>1, <3>3
    <2>3. CASE q # p
      BY <2>1, <2>3 DEF Messages
    <2> QED
      BY <2>2, <2>3
  <1>2. \A q, r \in Pipes : \A m \in Messages(q) \ X(q), n \in V(r) : Owner(m.hdr) # Owner(n.hdr)
    OBVIOUS
  <1> HIDE DEF R
  <1>3. ASSUME NEW q \in Pipes
        PROVE  /\ Framed(Stream(q)', q) /\ OnePerOwner(Stream(q)', q)
               /\ MessagesIn(Stream(q)', q) = (Messages(q) \ X(q)) \cup V(q)
    <2>1. Stream(q)' = R(q) \o W[q]
      BY DEF R
    <2> HIDE DEF X
    <2>2. \A m \in MessagesIn(R(q), q), n \in MessagesIn(W[q], q) : Owner(m.hdr) # Owner(n.hdr)
      BY <1>1, <1>2
    <2>3. /\ Framed(R(q) \o W[q], q) /\ OnePerOwner(R(q) \o W[q], q)
          /\ MessagesIn(R(q) \o W[q], q) = MessagesIn(R(q), q) \cup MessagesIn(W[q], q)
      BY <1>1, <2>2, Concatenated
    <2> QED
      BY <1>1, <2>1, <2>3
  <1>4. FramesOK'
    BY <1>3 DEF FramesOK
  <1>5. \A q \in Pipes : Messages(q)' = (Messages(q) \ X(q)) \cup V(q)
    BY <1>3 DEF Messages
  <1>6. OneMessage'
    <2> SUFFICES ASSUME NEW q \in Pipes, NEW r \in Pipes, NEW m \in Messages(q)', NEW n \in Messages(r)',
                        Owner(m.hdr) = Owner(n.hdr)
                 PROVE  q = r /\ m = n
      BY DEF OneMessage
    <2> HIDE DEF X
    <2>1. CASE m \in V(q) /\ n \in V(r)
      BY <2>1
    <2>2. CASE m \in Messages(q) /\ n \in Messages(r)
      BY <2>2 DEF OneMessage
    <2> HIDE DEF V
    <2> QED
      BY <1>2, <1>5, <2>1, <2>2
  <1> QED
    BY <1>4, <1>5, <1>6

(* The head of what is to be written moves into its pipe.                  *)
LEMMA Writing ==
  ASSUME LinkType, FramesOK, NEW s \in Servers, NEW w \in Entry, NEW X \in Seq(Entry),
         Out(s) = <<w>> \o X, Out(s)' = X, \A t \in Servers \ {s} : Out(t)' = Out(t),
         Writer(w.pipe) = s, pipe' = [pipe EXCEPT ![w.pipe] = Append(@, w.chunk)], UNCHANGED cur
  PROVE  FramesOK' /\ \A q \in Pipes : Messages(q)' = Messages(q)
  <1>1. ASSUME NEW q \in Pipes
        PROVE  /\ Framed(Stream(q)', q) /\ OnePerOwner(Stream(q)', q)
               /\ MessagesIn(Stream(q)', q) = MessagesIn(Stream(q), q)
    <2>1. /\ Unread(q) \in Seq(Entry) /\ Begun(q) \in Seq(Entry) /\ InPipe(q) \in Seq(Entry)
          /\ Framed(Stream(q), q) /\ OnePerOwner(Stream(q), q)
      BY StreamTypes DEF FramesOK
    <2>2. Begun(q)' = Begun(q)
      BY DEF Begun
    <2>3. CASE q = w.pipe
      <3>1. InPipe(q)' = InPipe(q) \o <<w>>
        <4>1. pipe[q] \in Seq(Chunk) /\ pipe'[q] = Append(pipe[q], w.chunk) /\ w.chunk \in Chunk
          BY <2>3 DEF LinkType, Entry
        <4>2. w = [pipe |-> q, chunk |-> w.chunk]
          BY <2>3 DEF Entry
        <4> DEFINE n == Len(pipe[q])
        <4>3. /\ n \in Nat /\ Len(pipe'[q]) = n + 1 /\ pipe'[q][n + 1] = w.chunk
              /\ \A i \in 1 .. n : pipe'[q][i] = pipe[q][i]
          BY <4>1
        <4>4. InPipe(q)' = [i \in 1 .. n + 1 |-> [pipe |-> q, chunk |-> pipe'[q][i]]]
          BY <4>3 DEF InPipe
        <4>5. InPipe(q) = [i \in 1 .. n |-> [pipe |-> q, chunk |-> pipe[q][i]]] /\ Len(InPipe(q)) = n
          BY <4>3 DEF InPipe
        <4>6. <<w>> \in Seq(Entry) /\ Len(<<w>>) = 1 /\ <<w>>[1] = w
          OBVIOUS
        <4>7. /\ InPipe(q) \o <<w>> \in Seq(Entry) /\ Len(InPipe(q) \o <<w>>) = n + 1
              /\ \A i \in 1 .. n + 1 : (InPipe(q) \o <<w>>)[i] = IF i <= n THEN InPipe(q)[i] ELSE w
          <5>1. \A i \in 1 .. n + 1 : ~(i <= n) => i - n = 1
            BY <4>3
          <5> QED
            BY <2>1, <4>3, <4>5, <4>6, <5>1, ConcatProperties
        <4>8. \A i \in 1 .. n + 1 : InPipe(q)'[i] = (InPipe(q) \o <<w>>)[i]
          <5> SUFFICES ASSUME NEW i \in 1 .. n + 1 PROVE InPipe(q)'[i] = (InPipe(q) \o <<w>>)[i]
            OBVIOUS
          <5>1. CASE i <= n
            <6>1. i \in 1 .. n
              BY <4>3, <5>1
            <6> HIDE DEF n
            <6> QED
              BY <4>3, <4>4, <4>5, <4>7, <5>1, <6>1
          <5>2. CASE ~(i <= n)
            <6>1. i = n + 1
              BY <4>3, <5>2
            <6> HIDE DEF n
            <6> QED
              BY <4>2, <4>3, <4>4, <4>7, <5>2, <6>1
          <5> QED
            BY <5>1, <5>2
        <4>9. InPipe(q)' \in Seq(Entry) /\ Len(InPipe(q)') = n + 1
          <5>1. \A i \in 1 .. n + 1 : InPipe(q)'[i] \in Entry
            <6>1. \A i \in 1 .. n + 1 : (InPipe(q) \o <<w>>)[i] \in Entry
              <7> HIDE DEF n
              <7> QED
                BY <4>7, ElementOfSeq
            <6> QED
              BY <4>8, <6>1
          <5>2. \A i \in 1 .. n + 1 : [pipe |-> q, chunk |-> pipe'[q][i]] \in Entry
            BY <4>4, <5>1
          <5> HIDE DEF n
          <5> QED
            BY <4>3, <4>4, <5>2
        <4> HIDE DEF n
        <4> QED
          BY <4>7, <4>8, <4>9, SeqEqual
      <3>2. Unread(q)' = Unread(q) \o <<w>>
        BY <2>1, <2>2, <3>1, ConcatAssociative DEF Unread
      <3>3. Stream(q)' = Stream(q)
        <4>1. Out(Writer(q)) = <<w>> \o X /\ Out(Writer(q))' = X
          BY <2>3
        <4>2. Stream(q) = Unread(q) \o (<<w>> \o X) /\ Stream(q)' = (Unread(q) \o <<w>>) \o X
          BY <3>2, <4>1 DEF Stream
        <4>3. <<w>> \in Seq(Entry)
          OBVIOUS
        <4> QED
          BY <2>1, <4>2, <4>3, ConcatAssociative
      <3> QED
        BY <2>1, <3>3
    <2>4. CASE q # w.pipe
      <3>1. Unread(q)' = Unread(q)
        <4>1. pipe'[q] = pipe[q]
          BY <2>4 DEF LinkType
        <4> QED
          BY <2>2, <4>1 DEF Unread, InPipe
      <3>2. CASE Writer(q) = s
        <4>1. Stream(q) = Unread(q) \o (<<w>> \o X) /\ Stream(q)' = Unread(q) \o X
          BY <3>1, <3>2 DEF Stream
        <4> QED
          BY <2>1, <2>4, <4>1, RemoveOther
      <3>3. CASE Writer(q) # s
        <4>1. Stream(q)' = Stream(q)
          BY <3>1, <3>3, Topology DEF Stream
        <4> QED
          BY <2>1, <4>1
      <3> QED
        BY <3>2, <3>3
    <2> QED
      BY <2>3, <2>4
  <1> QED
    BY <1>1 DEF FramesOK, Messages

Live(u) == \E p \in Pipes : \E m \in Messages(p) : Owner(m.hdr) = u
OutGrows(s, X) == Out(s)' = Out(s) \o X /\ \A t \in Servers \ {s} : Out(t)' = Out(t)

(* The reader of p takes the message m, the first one of the stream.       *)
Taken(p, m) ==
  /\ pipe[p] # <<>> /\ pipe' = [pipe EXCEPT ![p] = Tail(@)]
  /\ cur' = [cur EXCEPT ![Reader(p)] = Idle]
  /\ Unread(p)' \in Seq(Entry)
  /\ \E D \in Seq(Entry) : Unread(p) = D \o Unread(p)' /\ Framed(D, p) /\ MessagesIn(D, p) = {m}
  /\ \A q \in Pipes \ {p} : Unread(q)' = Unread(q)

LEMMA Sends ==
  ASSUME LinkType, FramesOK, OneMessage, NEW s \in Servers,
         NEW h \in Header, NEW body, h.full => body \in Body, ~Live(Owner(h)),
         UNCHANGED <<cur, pipe>>, OutGrows(s, Writes(s, h, body))
  PROVE  /\ FramesOK' /\ OneMessage'
         /\ \A q \in Pipes : Messages(q)' = IF q = Route(s, h.dst) THEN Messages(q) \cup {Message(h, body)}
                                                                   ELSE Messages(q)
  <1> DEFINE X == Writes(s, h, body)
             p == Route(s, h.dst)
             W == [q \in Pipes |-> IF Writer(q) = s THEN X ELSE << >>]
  <1>1. h.dst \in Servers /\ p \in Pipes /\ Writer(p) = s
    BY Topology DEF Header
  <1>2. /\ X \in Seq(Entry)
        /\ \A q : /\ Framed(X, q) /\ OnePerOwner(X, q)
                  /\ MessagesIn(X, q) = IF q = p THEN {Message(h, body)} ELSE {}
    BY <1>1, WritesMessage DEF IsWhole
  <1> HIDE DEF X
  <1>3. ASSUME NEW q \in Pipes
        PROVE  /\ W[q] \in Seq(Entry) /\ Framed(W[q], q) /\ OnePerOwner(W[q], q)
               /\ MessagesIn(W[q], q) = IF q = p THEN {Message(h, body)} ELSE {}
               /\ Stream(q) \in Seq(Entry)
               /\ Stream(q)' = Stream(q) \o W[q]
    <2>1. /\ Stream(q) \in Seq(Entry) /\ Unread(q) \in Seq(Entry) /\ Out(Writer(q)) \in Seq(Entry)
          /\ Unread(q)' = Unread(q) /\ Writer(q) \in Servers
      BY StreamTypes, Topology DEF Unread, Begun, InPipe
    <2>2. CASE Writer(q) = s
      <3>1. W[q] = X /\ Out(Writer(q))' = Out(Writer(q)) \o X
        BY <2>2 DEF OutGrows, X
      <3>2. Stream(q)' = Stream(q) \o X
        <4>1. Stream(q)' = Unread(q) \o (Out(Writer(q)) \o X)
          BY <2>1, <3>1 DEF Stream
        <4> QED
          BY <1>2, <2>1, <4>1, ConcatAssociative DEF Stream
      <3> QED
        BY <1>2, <2>1, <3>1, <3>2
    <2>3. CASE Writer(q) # s
      <3>1. W[q] = << >> /\ Out(Writer(q))' = Out(Writer(q)) /\ q # p
        BY <1>1, <2>1, <2>3 DEF OutGrows
      <3>2. Stream(q)' = Stream(q) /\ Stream(q) = Stream(q) \o << >>
        BY <2>1, <3>1, ConcatEmptySeq DEF Stream
      <3> QED
        BY <2>1, <3>1, <3>2, Nothing
    <2> QED
      BY <2>2, <2>3
  <1> HIDE DEF W, p
  <1>4. Stream(p) = << >> \o Stream(p)
    BY <1>1, <1>3, ConcatEmptySeq
  <1>5. \A q, r \in Pipes : \A m \in MessagesIn(W[q], q), n \in MessagesIn(W[r], r) :
           Owner(m.hdr) = Owner(n.hdr) => q = r /\ m = n
    BY <1>3
  <1>6. \A q, r \in Pipes : \A m \in Messages(q), n \in MessagesIn(W[r], r) :
           Owner(m.hdr) = Owner(n.hdr) => q = p /\ m \in MessagesIn(<< >>, p)
    <2> SUFFICES ASSUME NEW q \in Pipes, NEW r \in Pipes, NEW m \in Messages(q), NEW n \in MessagesIn(W[r], r),
                        Owner(m.hdr) = Owner(n.hdr)
                 PROVE  FALSE
      OBVIOUS
    <2>1. MessagesIn(W[r], r) \subseteq {Message(h, body)}
      BY <1>3
    <2>2. n = Message(h, body)
      BY <2>1
    <2> QED
      BY <2>2 DEF Message, Live
  <1>7. \A q \in Pipes : Stream(q)' = (IF q = p THEN Stream(p) ELSE Stream(q)) \o W[q]
    BY <1>3
  <1>8. << >> \in Seq(Entry) /\ Framed(<< >>, p) /\ MessagesIn(<< >>, p) = {}
    BY Nothing
  <1>9. /\ FramesOK' /\ OneMessage'
        /\ \A q \in Pipes : Messages(q)' = (Messages(q) \ (IF q = p THEN MessagesIn(<< >>, p) ELSE {}))
                                             \cup MessagesIn(W[q], q)
    <2>1. /\ \A q \in Pipes : Stream(q) \in Seq(Entry)
          /\ \A q \in Pipes : W[q] \in Seq(Entry) /\ Framed(W[q], q) /\ OnePerOwner(W[q], q)
      BY <1>3
    <2>2. Exchanging(p, << >>, Stream(p), W)
      BY <1>1, <1>3, <1>4, <1>5, <1>6, <1>7, <1>8, <2>1 DEF Exchanging
    <2> QED
      BY <2>2, Exchange
  <1> QED
    BY <1>3, <1>8, <1>9 DEF p

(* The reader of p takes m, and s writes X, the messages V[q] to pipe q.   *)
Replacing(p, m, s, X, V) ==
  /\ Taken(p, m) /\ OutGrows(s, X)
  /\ p \in Pipes /\ s \in Servers /\ X \in Seq(Entry)
  /\ \A q \in Pipes : Framed(X, q) /\ OnePerOwner(X, q) /\ MessagesIn(X, q) = V[q]
  /\ \A q \in Pipes : Writer(q) # s => V[q] = {}
  /\ \A q, r \in Pipes : \A a \in V[q], b \in V[r] : Owner(a.hdr) = Owner(b.hdr) => q = r /\ a = b
  /\ \A q, r \in Pipes : \A a \in Messages(q), b \in V[r] :
       Owner(a.hdr) = Owner(b.hdr) => q = p /\ a = m

LEMMA TakesAndWrites ==
  ASSUME LinkType, FramesOK, OneMessage,
         NEW p, NEW m, NEW s, NEW X, NEW V, Replacing(p, m, s, X, V)
  PROVE  /\ FramesOK' /\ OneMessage'
         /\ \A q \in Pipes : Messages(q)' = (Messages(q) \ (IF q = p THEN {m} ELSE {})) \cup V[q]
  <1> DEFINE W == [q \in Pipes |-> IF Writer(q) = s THEN X ELSE << >>]
             Rest == Unread(p)' \o Out(Writer(p))
  <1> USE DEF Replacing
  <1>1. PICK D \in Seq(Entry) : Unread(p) = D \o Unread(p)' /\ Framed(D, p) /\ MessagesIn(D, p) = {m}
    BY DEF Taken
  <1>2. Unread(p)' \in Seq(Entry) /\ \A q \in Pipes \ {p} : Unread(q)' = Unread(q)
    BY DEF Taken
  <1>3. Out(Writer(p)) \in Seq(Entry) /\ Rest \in Seq(Entry) /\ Stream(p) = D \o Rest
    <2>1. Out(Writer(p)) \in Seq(Entry)
      BY StreamTypes
    <2> QED
      BY <1>1, <1>2, <2>1, ConcatProperties, ConcatAssociative DEF Stream
  <1>4. ASSUME NEW q \in Pipes
        PROVE  /\ W[q] \in Seq(Entry) /\ Framed(W[q], q) /\ OnePerOwner(W[q], q)
               /\ MessagesIn(W[q], q) = V[q]
               /\ Stream(q) \in Seq(Entry)
               /\ Stream(q)' = (IF q = p THEN Rest ELSE Stream(q)) \o W[q]
    <2>1. /\ Stream(q) \in Seq(Entry) /\ Unread(q) \in Seq(Entry) /\ Out(Writer(q)) \in Seq(Entry)
          /\ Writer(q) \in Servers
      BY StreamTypes, Topology
    <2>2. /\ Unread(q)' \in Seq(Entry)
          /\ (IF q = p THEN Rest ELSE Stream(q)) = Unread(q)' \o Out(Writer(q))
      BY <1>2, <2>1 DEF Stream
    <2>3. CASE Writer(q) = s
      <3>1. W[q] = X /\ Out(Writer(q))' = Out(Writer(q)) \o X
        BY <2>3 DEF OutGrows
      <3>2. Stream(q)' = Unread(q)' \o (Out(Writer(q)) \o X)
        BY <3>1 DEF Stream
      <3>3. Stream(q)' = (IF q = p THEN Rest ELSE Stream(q)) \o X
        <4> HIDE DEF Rest, W
        <4> QED
          <5>1. (Unread(q)' \o Out(Writer(q))) \o X = Unread(q)' \o (Out(Writer(q)) \o X)
            BY SMTT(20), <2>1, <2>2, ConcatAssociative
          <5> QED
            BY <2>2, <3>2, <5>1
      <3> QED
        BY <2>1, <3>1, <3>3
    <2>4. CASE Writer(q) # s
      <3>1. W[q] = << >> /\ Out(Writer(q))' = Out(Writer(q))
        BY <2>1, <2>4 DEF OutGrows
      <3>2. Stream(q)' = Unread(q)' \o Out(Writer(q))
        BY <3>1 DEF Stream
      <3>3. Stream(q)' = (IF q = p THEN Rest ELSE Stream(q)) \o << >>
        <4>1. Unread(q)' \o Out(Writer(q)) \in Seq(Entry)
          BY <2>1, <2>2, ConcatProperties
        <4> HIDE DEF Rest, W
        <4> QED
          BY <2>2, <3>2, <4>1, ConcatEmptySeq
      <3> QED
        BY <2>1, <2>4, <3>1, <3>3, Nothing
    <2> QED
      BY <2>3, <2>4
  <1> HIDE DEF W, Rest
  <1>5. /\ FramesOK' /\ OneMessage'
        /\ \A q \in Pipes : Messages(q)' = (Messages(q) \ (IF q = p THEN MessagesIn(D, p) ELSE {}))
                                             \cup MessagesIn(W[q], q)
    <2>0. \A q \in Pipes : MessagesIn(W[q], q) = V[q]
      BY <1>4
    <2>1. \A q, r \in Pipes : \A a \in MessagesIn(W[q], q), b \in MessagesIn(W[r], r) :
           Owner(a.hdr) = Owner(b.hdr) => q = r /\ a = b
      BY <2>0
    <2>2. \A q, r \in Pipes : \A a \in Messages(q), b \in MessagesIn(W[r], r) :
           Owner(a.hdr) = Owner(b.hdr) => q = p /\ a \in MessagesIn(D, p)
      BY <1>1, <2>0
    <2>3. /\ \A q \in Pipes : Stream(q) \in Seq(Entry)
          /\ \A q \in Pipes : W[q] \in Seq(Entry) /\ Framed(W[q], q) /\ OnePerOwner(W[q], q)
          /\ \A q \in Pipes : Stream(q)' = (IF q = p THEN Rest ELSE Stream(q)) \o W[q]
      BY <1>4
    <2>4. Exchanging(p, D, Rest, W)
      BY <1>1, <1>3, <2>1, <2>2, <2>3 DEF Exchanging
    <2> QED
      BY <2>4, Exchange
  <1> QED
    BY <1>1, <1>4, <1>5

LEMMA Takes ==
  ASSUME LinkType, FramesOK, OneMessage, NEW p \in Pipes, NEW m, Taken(p, m),
         \A t \in Servers : Out(t)' = Out(t)
  PROVE  /\ FramesOK' /\ OneMessage'
         /\ \A q \in Pipes : Messages(q)' = IF q = p THEN Messages(q) \ {m} ELSE Messages(q)
  <1> DEFINE V == [q \in Pipes |-> {}]
  <1>1. OutGrows(0, << >>)
    <2>1. Out(0) \in Seq(Entry)
      BY StreamTypes, Topology
    <2> QED
      BY <2>1, Topology, ConcatEmptySeq DEF OutGrows
  <1>2. /\ FramesOK' /\ OneMessage'
        /\ \A q \in Pipes : Messages(q)' = (Messages(q) \ (IF q = p THEN {m} ELSE {})) \cup V[q]
    <2>1. /\ \A q \in Pipes : Framed(<< >>, q) /\ OnePerOwner(<< >>, q) /\ MessagesIn(<< >>, q) = V[q]
          /\ << >> \in Seq(Entry)
      BY Nothing
    <2>2. \A q \in Pipes : V[q] = {}
      OBVIOUS
    <2> HIDE DEF V
    <2>3. Replacing(p, m, 0, << >>, V)
      BY <1>1, <2>1, <2>2, Topology DEF Replacing
    <2> QED
      BY <2>3, TakesAndWrites
  <1> QED
    BY <1>2

LEMMA Forwards ==
  ASSUME LinkType, FramesOK, OneMessage, NEW p \in Pipes, NEW m \in Messages(p), Taken(p, m),
         NEW s \in Servers, NEW h \in Header, NEW body, h.full => body \in Body,
         Owner(h) = Owner(m.hdr), OutGrows(s, Writes(s, h, body))
  PROVE  /\ FramesOK' /\ OneMessage'
         /\ \A q \in Pipes : Messages(q)' = (Messages(q) \ (IF q = p THEN {m} ELSE {}))
                                  \cup (IF q = Route(s, h.dst) THEN {Message(h, body)} ELSE {})
  <1> DEFINE V == [q \in Pipes |-> IF q = Route(s, h.dst) THEN {Message(h, body)} ELSE {}]
             X == Writes(s, h, body)
  <1>1. h.dst \in Servers /\ Route(s, h.dst) \in Pipes /\ Writer(Route(s, h.dst)) = s
    BY Topology DEF Header
  <1>2. /\ X \in Seq(Entry)
        /\ \A q \in Pipes : Framed(X, q) /\ OnePerOwner(X, q) /\ MessagesIn(X, q) = V[q]
    BY <1>1, WritesMessage DEF IsWhole
  <1>3. \A q \in Pipes : V[q] = IF q = Route(s, h.dst) THEN {Message(h, body)} ELSE {}
    OBVIOUS
  <1>4. Message(h, body).hdr = h
    BY DEF Message
  <1> HIDE DEF V, X
  <1>5. \A q, r \in Pipes : \A a \in V[q], b \in V[r] : Owner(a.hdr) = Owner(b.hdr) => q = r /\ a = b
    BY <1>3
  <1>6. \A q, r \in Pipes : \A a \in Messages(q), b \in V[r] : Owner(a.hdr) = Owner(b.hdr) => q = p /\ a = m
    BY <1>3, <1>4 DEF OneMessage
  <1>7. \A q \in Pipes : Writer(q) # s => V[q] = {}
    BY <1>1, <1>3
  <1>8. OutGrows(s, X)
    BY DEF X
  <1>9. /\ FramesOK' /\ OneMessage'
        /\ \A q \in Pipes : Messages(q)' = (Messages(q) \ (IF q = p THEN {m} ELSE {})) \cup V[q]
    <2>1. Replacing(p, m, s, X, V)
      BY <1>2, <1>5, <1>6, <1>7, <1>8 DEF Replacing
    <2> QED
      BY <2>1, TakesAndWrites
  <1> QED
    BY <1>3, <1>9

(* The response to all servers is sent when only the last request was on   *)
(* its way.                                                                *)
LEMMA Broadcasts ==
  ASSUME LinkType, FramesOK, OneMessage, NEW p \in Pipes, NEW m \in Messages(p), Taken(p, m),
         NEW h \in Header, NEW body, h.full => body \in Body, h.cmd \in {"BARRIER_RESPONSE", "FENCE_COMPLETE"},
         \A u : Live(u) => u = Owner(m.hdr), OutGrows(0, Broadcast(h, body))
  PROVE  /\ FramesOK' /\ OneMessage'
         /\ \A q \in Pipes : Messages(q)' = IF q \in Servers THEN {Message([h EXCEPT !.dst = q], body)} ELSE {}
  <1> DEFINE V == [q \in Pipes |-> IF q \in Servers THEN {Message([h EXCEPT !.dst = q], body)} ELSE {}]
             X == Broadcast(h, body)
  <1>1. \A q \in Pipes : \A a \in Messages(q) : q = p /\ a = m
    BY DEF Live, OneMessage
  <1>2. /\ X \in Seq(Entry)
        /\ \A q \in Pipes : Framed(X, q) /\ OnePerOwner(X, q) /\ MessagesIn(X, q) = V[q]
    BY BroadcastMessages
  <1>3. \A q \in Pipes : V[q] = IF q \in Servers THEN {Message([h EXCEPT !.dst = q], body)} ELSE {}
    OBVIOUS
  <1>4. \A q \in Servers : Owner(Message([h EXCEPT !.dst = q], body).hdr) = q
    BY DEF Message, Owner, Header
  <1>5. 0 \in Servers /\ \A q \in Pipes : Writer(q) # 0 => q \notin Servers
    BY Topology
  <1>6. OutGrows(0, X)
    OBVIOUS
  <1> HIDE DEF V, X
  <1>7. \A q, r \in Pipes : \A a \in V[q], b \in V[r] : Owner(a.hdr) = Owner(b.hdr) => q = r /\ a = b
    <2> DEFINE g(q) == Message([h EXCEPT !.dst = q], body)
    <2>1. /\ \A q \in Pipes : V[q] = IF q \in Servers THEN {g(q)} ELSE {}
          /\ \A q \in Servers : Owner(g(q).hdr) = q
      BY <1>3, <1>4
    <2> HIDE DEF g
    <2> SUFFICES ASSUME NEW q \in Pipes, NEW r \in Pipes, NEW a \in V[q], NEW b \in V[r],
                        Owner(a.hdr) = Owner(b.hdr)
                 PROVE  q = r /\ a = b
      OBVIOUS
    <2>2. q \in Servers /\ a = g(q) /\ r \in Servers /\ b = g(r)
      BY <2>1
    <2> QED
      BY <2>1, <2>2
  <1>8. /\ \A q, r \in Pipes : \A a \in Messages(q), b \in V[r] : Owner(a.hdr) = Owner(b.hdr) => q = p /\ a = m
        /\ \A q \in Pipes : Writer(q) # 0 => V[q] = {}
    BY <1>1, <1>3, <1>5
  <1>9. /\ FramesOK' /\ OneMessage'
        /\ \A q \in Pipes : Messages(q)' = (Messages(q) \ (IF q = p THEN {m} ELSE {})) \cup V[q]
    <2>1. Replacing(p, m, 0, X, V)
      BY <1>2, <1>5, <1>6, <1>7, <1>8 DEF Replacing
    <2> QED
      BY <2>1, TakesAndWrites
  <1> QED
    BY <1>1, <1>3, <1>9

(* The reader of p has done with the first read() what Taken says, or it   *)
(* has only begun.                                                         *)
LEMMA PipeHead ==
  ASSUME LinkType, NEW p \in Pipes, pipe[p] # << >>, pipe'[p] = Tail(pipe[p])
  PROVE  /\ Head(pipe[p]) \in Chunk /\ InPipe(p)' \in Seq(Entry)
         /\ [pipe |-> p, chunk |-> Head(pipe[p])] \in Entry
         /\ InPipe(p) = <<[pipe |-> p, chunk |-> Head(pipe[p])]>> \o InPipe(p)'
  <1> DEFINE c == Head(pipe[p])
             e == [pipe |-> p, chunk |-> c]
             n == Len(pipe'[p])
  <1>1. pipe[p] \in Seq(Chunk)
    BY DEF LinkType
  <1>2. /\ c \in Chunk /\ c = pipe[p][1] /\ pipe'[p] \in Seq(Chunk) /\ n \in Nat /\ Len(pipe[p]) = n + 1
        /\ \A i \in 1 .. n : pipe'[p][i] = pipe[p][i + 1]
    BY <1>1
  <1>3. e \in Entry /\ \A i \in 1 .. n : [pipe |-> p, chunk |-> pipe'[p][i]] \in Entry
    BY <1>2 DEF Entry
  <1>4. InPipe(p)' = [i \in 1 .. n |-> [pipe |-> p, chunk |-> pipe'[p][i]]]
    BY DEF InPipe
  <1>5. InPipe(p) = [i \in 1 .. n + 1 |-> [pipe |-> p, chunk |-> pipe[p][i]]]
    BY <1>2 DEF InPipe
  <1> HIDE DEF n
  <1>6. InPipe(p)' \in Seq(Entry) /\ Len(InPipe(p)') = n
    BY <1>2, <1>3, <1>4
  <1>7. InPipe(p) \in Seq(Entry) /\ Len(InPipe(p)) = n + 1
    <2>1. InPipe(p) \in Seq(Entry)
      BY StreamTypes
    <2> QED
      BY <1>2, <1>5, <2>1
  <1> HIDE DEF c, e
  <1>8. <<e>> \in Seq(Entry) /\ Len(<<e>>) = 1 /\ <<e>>[1] = e
    BY <1>3
  <1>9. <<e>> \o InPipe(p)' \in Seq(Entry) /\ Len(<<e>> \o InPipe(p)') = n + 1
    BY <1>2, <1>6, <1>8, ConcatProperties
  <1>10. ASSUME NEW i \in 1 .. n + 1 PROVE InPipe(p)[i] = (<<e>> \o InPipe(p)')[i]
    <2>1. (<<e>> \o InPipe(p)')[i] = IF i <= 1 THEN <<e>>[i] ELSE InPipe(p)'[i - 1]
      BY <1>2, <1>6, <1>8, ConcatProperties
    <2>2. CASE i = 1
      BY <1>2, <1>5, <1>8, <2>1, <2>2 DEF e
    <2>3. CASE i # 1
      <3>1. i - 1 \in 1 .. n /\ ~(i <= 1) /\ (i - 1) + 1 = i
        BY <1>2, <2>3
      <3>2. InPipe(p)'[i - 1] = [pipe |-> p, chunk |-> pipe[p][i]]
        BY <1>2, <1>4, <3>1
      <3> QED
        BY <1>5, <2>1, <3>1, <3>2
    <2> QED
      BY <2>2, <2>3
  <1>11. InPipe(p) = <<e>> \o InPipe(p)'
    BY <1>7, <1>9, <1>10, SeqEqual
  <1> QED
    BY <1>2, <1>3, <1>6, <1>11 DEF e, c

LEMMA FirstRead ==
  ASSUME LinkType, StreamsOK, NEW p \in Pipes, ReadHeader(p), NEW h, h = Head(pipe[p])
  PROVE  LET s == Reader(p)
         IN  /\ h \in Header /\ pout[s] = << >>
             /\ \/ /\ \A q \in Pipes : Unread(q)' = Unread(q)
                   /\ h.full
                   /\ cur' = [cur EXCEPT ![s] = [what |-> "payload", pipe |-> p, hdr |-> h]]
                   /\ pipe' = [pipe EXCEPT ![p] = Tail(@)]
                   /\ UNCHANGED <<mpc, mout, pout, active, slot, hub, dmreq, denied, known, cl, todo, faults>>
                \/ /\ Message(h, NoBody) \in Messages(p) /\ Taken(p, Message(h, NoBody))
                   /\ ~h.full /\ Handle(s, p, h, NoBody)
  <1> DEFINE s == Reader(p)
             e == [pipe |-> p, chunk |-> h]
             Rest == InPipe(p)' \o Out(Writer(p))
  <1>1. /\ pout[s] = << >> /\ cur[s] = Idle /\ pipe[p] # << >> /\ s \in Servers
    BY Topology DEF ReadHeader, Free
  <1>2. \A q \in Pipes : Reader(q) = s => Begun(q) = << >>
    BY <1>1 DEF Begun, Idle
  <1>3. h.chunk = "hdr"
    <2>1. DOMAIN pipe[p] = 1 .. Len(pipe[p]) /\ Len(pipe[p]) \in Nat \ {0} /\ h = pipe[p][1] /\ h \in Chunk
      BY <1>1 DEF LinkType
    <2>2. InPipe(p) \in Seq(Entry) /\ Len(InPipe(p)) = Len(pipe[p]) /\ InPipe(p)[1] = e
      BY <2>1, StreamTypes DEF InPipe
    <2>3. Unread(p) = InPipe(p)
      BY <1>2, <2>2, ConcatEmptySeq DEF Unread
    <2>4. Stream(p)[1] = e /\ DOMAIN Stream(p) = 1 .. Len(Stream(p)) /\ 1 \in DOMAIN Stream(p)
      <3>1. Out(Writer(p)) \in Seq(Entry)
        BY StreamTypes
      <3> HIDE DEF e
      <3> QED
        BY <2>1, <2>2, <2>3, <3>1, ConcatProperties, LenProperties DEF Stream
    <2>5. ~IsData(Stream(p)[1], p)
      BY <2>4 DEF StreamsOK, FramesOK, Framed
    <2>6. h.chunk # "data"
      BY <2>4, <2>5 DEF IsData
    <2> QED
      BY <2>1, <2>6 DEF Chunk, Header
  <1>4. pipe' = [pipe EXCEPT ![p] = Tail(@)] /\ pipe'[p] = Tail(pipe[p]) /\ \A q \in Pipes \ {p} : pipe'[q] = pipe[q]
    BY <1>3 DEF ReadHeader, LinkType
  <1>5. /\ h \in Header /\ e \in Entry /\ InPipe(p)' \in Seq(Entry) /\ InPipe(p) = <<e>> \o InPipe(p)'
    BY <1>1, <1>3, <1>4, PipeHead DEF Chunk
  <1>6. \A q \in Pipes \ {p} : InPipe(q)' = InPipe(q)
    BY <1>4 DEF InPipe
  <1>7. CASE h.full
    <2>1. /\ cur' = [cur EXCEPT ![s] = [what |-> "payload", pipe |-> p, hdr |-> h]]
          /\ UNCHANGED <<mpc, mout, pout, active, slot, hub, dmreq, denied, known, cl, todo, faults>>
      BY <1>3, <1>7 DEF library, ReadHeader
    <2>2. /\ cur'[s] = [what |-> "payload", pipe |-> p, hdr |-> h]
          /\ \A t \in Servers \ {s} : cur'[t] = cur[t]
      BY <1>1, <2>1 DEF LinkType
    <2>3. Begun(p)' = <<e>> /\ \A q \in Pipes \ {p} : Begun(q)' = Begun(q)
      <3>1. Begun(p)' = <<e>>
        BY <2>2 DEF Begun
      <3>2. ASSUME NEW q \in Pipes \ {p} PROVE Begun(q)' = Begun(q)
        <4>1. CASE Reader(q) = s
          BY <1>2, <2>2, <4>1 DEF Begun
        <4>2. CASE Reader(q) # s
          BY <2>2, <4>2, Topology DEF Begun
        <4> QED
          BY <4>1, <4>2
      <3> QED
        BY <3>1, <3>2
    <2>4. Unread(p)' = Unread(p)
      <3>1. Unread(p) = << >> \o InPipe(p) /\ Unread(p)' = <<e>> \o InPipe(p)'
        BY <1>2, <2>3 DEF Unread
      <3>2. InPipe(p) \in Seq(Entry)
        BY StreamTypes
      <3> QED
        BY <1>5, <3>1, <3>2, ConcatEmptySeq
    <2>5. \A q \in Pipes \ {p} : Unread(q)' = Unread(q)
      BY <1>6, <2>3 DEF Unread
    <2> QED
      BY <1>1, <1>4, <1>5, <1>7, <2>1, <2>4, <2>5
  <1>8. CASE ~h.full
    <2> DEFINE m == Message(h, NoBody)
    <2>1. Handle(s, p, h, NoBody) /\ cur' = cur
      BY <1>3, <1>8 DEF ReadHeader
    <2>2. cur' = [cur EXCEPT ![s] = Idle]
      BY <1>1, <2>1 DEF LinkType
    <2>3. \A q \in Pipes : Begun(q)' = Begun(q)
      BY <2>1 DEF Begun
    <2>4. \A q \in Pipes \ {p} : Unread(q)' = Unread(q)
      BY <1>6, <2>3 DEF Unread
    <2>5. Unread(p) = <<e>> \o Unread(p)' /\ Unread(p)' \in Seq(Entry)
      <3>1. Unread(p) = << >> \o InPipe(p) /\ Unread(p)' = << >> \o InPipe(p)'
        BY <1>2, <2>3 DEF Unread
      <3>2. InPipe(p) \in Seq(Entry)
        BY StreamTypes
      <3> QED
        BY <1>5, <3>1, <3>2, ConcatEmptySeq
    <2>6. <<e>> \in Seq(Entry) /\ Framed(<<e>>, p) /\ MessagesIn(<<e>>, p) = {m}
      <3>1. ChunksOf(p, h, NoBody) = <<e>>
        BY <1>8 DEF ChunksOf
      <3> QED
        BY <1>5, <1>8, <3>1, WholeMessage DEF IsWhole
    <2>7. Taken(p, m)
      BY <1>1, <1>4, <2>2, <2>4, <2>5, <2>6 DEF Taken
    <2>8. m \in Messages(p)
      <3> HIDE DEF e, m
      <3>1. Stream(p) = <<e>> \o (Unread(p)' \o Out(Writer(p))) /\ Unread(p)' \o Out(Writer(p)) \in Seq(Entry)
        <4>1. Out(Writer(p)) \in Seq(Entry)
          BY StreamTypes
        <4> QED
          BY <2>5, <2>6, <4>1, ConcatProperties, ConcatAssociative DEF Stream
      <3> DEFINE R == Unread(p)' \o Out(Writer(p))
      <3>2. R \in Seq(Entry) /\ Framed(<<e>> \o R, p) /\ OnePerOwner(<<e>> \o R, p)
        BY <3>1 DEF StreamsOK, FramesOK
      <3>3. Messages(p) = MessagesIn(<<e>> \o R, p)
        BY <3>1 DEF Messages
      <3> HIDE DEF R
      <3>4. Framed(R, p)
        BY <2>6, <3>2, Split
      <3> QED
        <4>1. MessagesIn(<<e>> \o R, p) = MessagesIn(<<e>>, p) \cup MessagesIn(R, p)
          BY <2>6, <3>2, <3>4, Concatenated
        <4> QED
          BY <2>6, <3>3, <4>1
    <2> QED
      BY <1>1, <1>5, <1>8, <2>1, <2>7, <2>8
  <1> QED
    BY <1>7, <1>8

LEMMA SecondRead ==
  ASSUME LinkType, StreamsOK, NEW s \in Servers, ReadPayload(s),
         NEW p, p = cur[s].pipe, NEW h, h = cur[s].hdr, NEW c, c = Head(pipe[p]), NEW b, b = c.body
  PROVE  /\ p \in Pipes /\ Reader(p) = s /\ h \in Header /\ b \in Body /\ pout[s] = << >>
         /\ Message(h, b) \in Messages(p) /\ Taken(p, Message(h, b))
         /\ h.full /\ Handle(s, p, h, b)
  <1> DEFINE m == Message(h, b)
             e == [pipe |-> p, chunk |-> h]
             d == [pipe |-> p, chunk |-> c]
             D == <<e, d>>
  <1>1. /\ cur[s] # Idle /\ pipe[p] # << >>
        /\ cur[s] \in [what : {"payload"}, pipe : Pipes, hdr : Header]
        /\ Reader(p) = s /\ h.full /\ pout[s] = << >>
    <2>1. cur[s] # Idle /\ pipe[p] # << >>
      BY DEF ReadPayload
    <2>2. cur[s] \in {Idle} \cup [what : {"payload"}, pipe : Pipes, hdr : Header]
      BY DEF LinkType
    <2> QED
      BY <2>1, <2>2 DEF StreamsOK, WritersOK
  <1>2. p \in Pipes /\ h \in Header /\ cur[s].what = "payload"
    BY <1>1
  <1>3. Begun(p) = <<e>> /\ \A q \in Pipes \ {p} : Reader(q) = s => Begun(q) = << >>
    BY <1>1, <1>2 DEF Begun
  <1>4. e \in Entry /\ h.chunk = "hdr"
    BY <1>2 DEF Entry, Chunk, Header
  <1>5. c.chunk = "data" /\ c \in Chunk
    <2>1. DOMAIN pipe[p] = 1 .. Len(pipe[p]) /\ Len(pipe[p]) \in Nat \ {0} /\ c = pipe[p][1] /\ c \in Chunk
      BY <1>1, <1>2 DEF LinkType
    <2>2. InPipe(p) \in Seq(Entry) /\ Len(InPipe(p)) = Len(pipe[p]) /\ InPipe(p)[1] = d
      BY <1>2, <2>1, StreamTypes DEF InPipe
    <2> HIDE DEF d, e
    <2>3. Unread(p) \in Seq(Entry) /\ Len(Unread(p)) >= 2 /\ Unread(p)[1] = e /\ Unread(p)[2] = d
      <3>1. <<e>> \in Seq(Entry) /\ Len(<<e>>) = 1 /\ <<e>>[1] = e
        BY <1>4
      <3>2. Unread(p) = <<e>> \o InPipe(p)
        BY <1>3 DEF Unread
      <3>3. Len(InPipe(p)) \in Nat \ {0}
        BY <2>1, <2>2
      <3> QED
        BY <2>2, <3>1, <3>2, <3>3, ConcatProperties
    <2>4. Stream(p)[1] = e /\ Stream(p)[2] = d /\ 1 \in DOMAIN Stream(p)
      <3>1. Out(Writer(p)) \in Seq(Entry) /\ Stream(p) \in Seq(Entry)
        BY <1>2, StreamTypes
      <3> QED
        BY <2>3, <3>1, ConcatProperties, LenProperties DEF Stream
    <2>5. IsFull(e, p)
      BY <1>1, <1>4 DEF IsFull, IsHdr, e
    <2>6. IsData(d, p)
      <3>1. \A i \in DOMAIN Stream(p) : IsFull(Stream(p)[i], p) => IsData(Stream(p)[i + 1], p)
        BY <1>2 DEF StreamsOK, FramesOK, Framed
      <3>2. IsData(Stream(p)[1 + 1], p)
        BY <2>4, <2>5, <3>1
      <3> QED
        BY <2>4, <3>2
    <2> QED
      BY <2>1, <2>6 DEF IsData, d
  <1>6. /\ pipe' = [pipe EXCEPT ![p] = Tail(@)] /\ cur' = [cur EXCEPT ![s] = Idle] /\ Handle(s, p, h, b)
    BY <1>5 DEF ReadPayload
  <1>7. pipe'[p] = Tail(pipe[p]) /\ (\A q \in Pipes \ {p} : pipe'[q] = pipe[q])
        /\ cur'[s] = Idle /\ \A t \in Servers \ {s} : cur'[t] = cur[t]
    <2> QED
      BY <1>2, <1>6 DEF LinkType
  <1>8. /\ b \in Body /\ c = Data(b)
    BY <1>5 DEF Chunk, Header, Data
  <1>9. /\ d \in Entry /\ InPipe(p)' \in Seq(Entry) /\ InPipe(p) = <<d>> \o InPipe(p)'
    BY <1>1, <1>2, <1>7, PipeHead
  <1>10. \A q \in Pipes \ {p} : InPipe(q)' = InPipe(q)
    BY <1>7 DEF InPipe
  <1>11. Begun(p)' = << >> /\ \A q \in Pipes \ {p} : Begun(q)' = Begun(q)
    <2>1. Begun(p)' = << >>
      BY <1>1, <1>7 DEF Begun, Idle
    <2>2. ASSUME NEW q \in Pipes \ {p}, Reader(q) = s PROVE Begun(q)' = Begun(q)
      BY <1>3, <1>7, <2>2 DEF Begun, Idle
    <2>3. ASSUME NEW q \in Pipes \ {p}, Reader(q) # s PROVE Begun(q)' = Begun(q)
      BY <1>7, <2>3, Topology DEF Begun
    <2> QED
      BY <2>1, <2>2, <2>3
  <1>12. \A q \in Pipes \ {p} : Unread(q)' = Unread(q)
    BY <1>10, <1>11 DEF Unread
  <1>13. D \in Seq(Entry) /\ Framed(D, p) /\ MessagesIn(D, p) = {m}
    <2>1. ChunksOf(p, h, b) = D
      BY <1>1, <1>8 DEF ChunksOf
    <2> HIDE DEF D, m
    <2>2. m = Message(h, b)
      BY DEF m
    <2> QED
      BY <1>2, <1>8, <2>1, <2>2, WholeMessage DEF IsWhole
  <1>14. Unread(p) = D \o Unread(p)' /\ Unread(p)' \in Seq(Entry)
    <2>1. Unread(p) = <<e>> \o (<<d>> \o InPipe(p)')
      BY <1>3, <1>9 DEF Unread
    <2>2. Unread(p)' = InPipe(p)'
      BY <1>9, <1>11, ConcatEmptySeq DEF Unread
    <2>3. <<e>> \in Seq(Entry) /\ <<d>> \in Seq(Entry) /\ <<e>> \o <<d>> = D
      <3> HIDE DEF e, d
      <3>1. /\ <<e>> \in Seq(Entry) /\ Len(<<e>>) = 1 /\ <<e>>[1] = e
            /\ <<d>> \in Seq(Entry) /\ Len(<<d>>) = 1 /\ <<d>>[1] = d
            /\ D \in Seq(Entry) /\ Len(D) = 2 /\ D[1] = e /\ D[2] = d
        BY <1>4, <1>9
      <3> HIDE DEF D
      <3>2. <<e>> \o <<d>> \in Seq(Entry) /\ Len(<<e>> \o <<d>>) = 2
        BY <3>1, ConcatProperties
      <3>3. \A i \in 1 .. 2 : (<<e>> \o <<d>>)[i] = D[i]
        BY <3>1, ConcatProperties
      <3> QED
        BY <3>1, <3>2, <3>3, SeqEqual
    <2> HIDE DEF D, e, d
    <2> QED
      <3>1. (<<e>> \o <<d>>) \o InPipe(p)' = <<e>> \o (<<d>> \o InPipe(p)')
        BY <1>9, <2>3, ConcatAssociative
      <3> QED
        BY <1>9, <2>1, <2>2, <2>3, <3>1
  <1> HIDE DEF D, m
  <1>15. Taken(p, m)
    BY <1>1, <1>6, <1>12, <1>13, <1>14 DEF Taken
  <1>16. m \in Messages(p)
    <2> DEFINE R == Unread(p)' \o Out(Writer(p))
    <2>1. Stream(p) = D \o R /\ R \in Seq(Entry)
      <3>1. Out(Writer(p)) \in Seq(Entry)
        BY <1>2, StreamTypes
      <3> QED
        BY <1>13, <1>14, <3>1, ConcatProperties, ConcatAssociative DEF Stream
    <2> HIDE DEF R
    <2>2. Framed(D \o R, p) /\ OnePerOwner(D \o R, p)
      BY <1>2, <2>1 DEF StreamsOK, FramesOK
    <2>3. Messages(p) = MessagesIn(D \o R, p)
      BY <2>1 DEF Messages
    <2>4. Framed(R, p)
      BY <1>13, <2>1, <2>2, Split
    <2> QED
      BY <1>13, <2>1, <2>3, <2>4, Concatenated
  <1> QED
    BY <1>1, <1>2, <1>6, <1>8, <1>15, <1>16 DEF m

-----------------------------------------------------------------------------
(* What the invariant says of a server with a message under way, or with   *)
(* something to write.                                                     *)

LEMMA OwnerIsServer ==
  ASSUME MessagesOK, NEW p \in Pipes, NEW m \in Messages(p)
  PROVE  m.hdr \in Header /\ Owner(m.hdr) \in Servers /\ m.hdr.src \in Servers /\ m.hdr.dst \in Servers
  <1>1. m.hdr \in Header
    BY DEF MessagesOK, MessageOK
  <1> QED
    BY <1>1 DEF Header, Owner

(* The three things a server waits for exclude one another.                *)
LEMMA Modes ==
  ASSUME LinkType, NEW s \in Servers, ServerOK(s)
  PROVE  /\ InBarrierNow(s) => todo[s] = {} /\ ~InExchange(s) /\ \A t : ~Asks(s, t)
         /\ InExchange(s) => (WaitsForProcs(s) \/ WaitsForFence(s)) /\ \A t : ~Asks(s, t)
         /\ \A t : Asks(s, t) => WaitsForData(s) /\ mpc[s] = "run" /\ ProcsKnown(s)
         /\ todo[s] = {} => ~InExchange(s) /\ \A t : ~Asks(s, t)
  <1>1. \A k, c, t : ExchangeOp(k) # Dmdx(c, t)
    <2>1. \A k, c, t : ExchangeOp(k).op \in {"procs", "fence"} /\ Dmdx(c, t).op = "dmdx"
      BY DEF ExchangeOp, Procs, Fence, Dmdx
    <2> QED
      BY <2>1
  <1>2. todo[s] = {} \/ WaitsForProcs(s) \/ WaitsForFence(s) \/ WaitsForData(s)
    BY DEF ServerOK
  <1>3. todo[s] # {} => mpc[s] \in {"procs", "run"}
    BY <1>2 DEF WaitsForProcs, WaitsForFence, WaitsForData
  <1>4. InExchange(s) => todo[s] # {} /\ ~WaitsForData(s) /\ \A t : ~Asks(s, t)
    BY <1>1 DEF InExchange, WaitsForData, Asks
  <1>5. InBarrierNow(s) => mpc[s] \notin {"procs", "run"}
    BY DEF InBarrierNow, InBarrier
  <1>6. ASSUME NEW t, Asks(s, t) PROVE todo[s] # {} /\ WaitsForData(s) /\ mpc[s] = "run" /\ ProcsKnown(s)
    <2>1. todo[s] = {Dmdx(<<s, 1>>, t)}
      BY <1>6 DEF Asks
    <2>2. ~WaitsForProcs(s) /\ ~WaitsForFence(s)
      <3>1. Procs # Dmdx(<<s, 1>>, t) /\ \A k : Fence(k) # Dmdx(<<s, 1>>, t)
        BY DEF Procs, Fence, Dmdx
      <3> QED
        BY <2>1, <3>1 DEF WaitsForProcs, WaitsForFence
    <2> QED
      BY <1>2, <2>1, <2>2 DEF WaitsForData, ProcsKnown
  <1> QED
    BY <1>2, <1>3, <1>4, <1>5, <1>6

LEMMA LiveMode ==
  ASSUME LinkInv, NEW p \in Pipes, NEW m \in Messages(p), NEW u, u = Owner(m.hdr)
  PROVE  /\ u \in Servers
         /\ m.hdr.cmd \in {"BARRIER_REQUEST", "BARRIER_RESPONSE"} => InBarrierNow(u)
         /\ m.hdr.cmd \in {"FENCE_CONTRIB", "FENCE_COMPLETE"} => InExchange(u) /\ u \notin Contributors
         /\ m.hdr.cmd \in {"DMDX_REQUEST", "DMDX_RESPONSE"} =>
              (\E t \in Servers : Asks(u, t)) /\ \A t \in Servers : \A r \in dmreq[t] : r.from # u
         /\ m.hdr.cmd \in {"BARRIER_REQUEST", "BARRIER_RESPONSE", "FENCE_CONTRIB",
                          "FENCE_COMPLETE", "DMDX_REQUEST", "DMDX_RESPONSE"}
  <1>1. u \in Servers /\ m.hdr \in Header /\ m.hdr.src \in Servers /\ m.hdr.dst \in Servers
    BY OwnerIsServer DEF LinkInv
  <1>2. MessageOK(p, m)
    BY DEF LinkInv, MessagesOK
  <1>3. m.hdr.cmd \in {"BARRIER_REQUEST", "BARRIER_RESPONSE", "FENCE_CONTRIB",
                          "FENCE_COMPLETE", "DMDX_REQUEST", "DMDX_RESPONSE"}
    BY <1>1 DEF Header
  <1> QED
    BY <1>1, <1>2, <1>3 DEF MessageOK, Owner

(* A server that waits for nothing has nothing under way.                  *)
LEMMA NotLive ==
  ASSUME LinkInv, NEW s \in Servers, todo[s] = {}, ~InBarrierNow(s)
  PROVE  ~Live(s)
  <1> SUFFICES ASSUME NEW p \in Pipes, NEW m \in Messages(p), Owner(m.hdr) = s PROVE FALSE
    BY DEF Live
  <1>1. ServerOK(s) /\ LinkType
    BY DEF LinkInv, ServersOK
  <1>2. ~InExchange(s) /\ \A t : ~Asks(s, t)
    BY <1>1, Modes
  <1> QED
    BY <1>2, LiveMode

(* An entry is part of a message.                                          *)
LEMMA EntryOfMessage ==
  ASSUME NEW p, NEW S \in Seq(Entry), Framed(S, p), NEW j \in DOMAIN S, S[j].pipe = p
  PROVE  \E n \in MessagesIn(S, p) :
           \/ S[j].chunk.chunk = "hdr" /\ n.hdr = S[j].chunk
           \/ S[j].chunk.chunk = "data" /\ n.hdr.full /\ n.body = S[j].chunk.body
  <1>1. S[j] \in Entry /\ S[j].chunk \in Chunk /\ S[j].chunk.chunk \in {"hdr", "data"}
    <2>1. S[j] \in Entry
      BY ElementOfSeq, LenProperties
    <2>2. S[j].chunk \in Chunk
      BY <2>1 DEF Entry
    <2> QED
      BY <2>1, <2>2 DEF Chunk, Header
  <1>2. CASE S[j].chunk.chunk = "hdr"
    <2>1. IsHdr(S[j], p)
      BY <1>2 DEF IsHdr
    <2>2. MessageAt(S, j) \in MessagesIn(S, p)
      BY <2>1 DEF MessagesIn
    <2>3. MessageAt(S, j).hdr = S[j].chunk
      BY DEF MessageAt
    <2> QED
      BY <1>2, <2>2, <2>3
  <1>3. CASE S[j].chunk.chunk = "data"
    <2>1. j - 1 \in DOMAIN S /\ IsFull(S[j - 1], p)
      BY <1>3 DEF IsData, Framed
    <2>2. (j - 1) + 1 = j
      BY LenProperties
    <2>3. MessageAt(S, j - 1) \in MessagesIn(S, p)
      BY <2>1 DEF MessagesIn, IsFull
    <2>4. MessageAt(S, j - 1).hdr.full /\ MessageAt(S, j - 1).body = S[j].chunk.body
      BY <2>1, <2>2 DEF MessageAt, IsFull
    <2> QED
      BY <1>3, <2>3, <2>4
  <1> QED
    BY <1>1, <1>2, <1>3

(* The same for what is still to be written, which is not what is read.    *)
LEMMA Pending ==
  ASSUME LinkType, FramesOK, NEW q \in Pipes, NEW j \in DOMAIN Out(Writer(q)),
         NEW e, e = Out(Writer(q))[j], e.pipe = q
  PROVE  \E n \in Messages(q) :
           /\ \/ e.chunk.chunk = "hdr" /\ n.hdr = e.chunk
              \/ e.chunk.chunk = "data" /\ n.hdr.full /\ n.body = e.chunk.body
           /\ \A p \in Pipes : \A m : Taken(p, m) => n # m \/ p # q
  <1> DEFINE O == Out(Writer(q))
  <1>1. Unread(q) \in Seq(Entry) /\ O \in Seq(Entry) /\ Stream(q) = Unread(q) \o O
    BY StreamTypes DEF Stream
  <1>2. Framed(Stream(q), q) /\ OnePerOwner(Stream(q), q)
    BY DEF FramesOK
  <1>3. ASSUME NEW A \in Seq(Entry), NEW S \in Seq(Entry), S = A \o O
        PROVE  Len(A) + j \in DOMAIN S /\ S[Len(A) + j] = e
    <2>1. Len(A) \in Nat /\ Len(O) \in Nat /\ j \in 1 .. Len(O)
      BY <1>1, LenProperties
    <2>2. Len(S) = Len(A) + Len(O) /\ DOMAIN S = 1 .. Len(S)
      BY <1>1, <1>3, ConcatProperties, LenProperties
    <2>3. Len(A) + j \in 1 .. Len(A) + Len(O) /\ ~(Len(A) + j <= Len(A)) /\ Len(A) + j - Len(A) = j
      BY <2>1
    <2>4. S[Len(A) + j] = O[j]
      BY <1>1, <1>3, <2>3, ConcatProperties
    <2> QED
      BY <2>2, <2>3, <2>4
  <1>4. CASE \E m : Taken(q, m)
    <2>1. PICK m : Taken(q, m)
      BY <1>4
    <2>2. PICK D \in Seq(Entry) : Unread(q) = D \o Unread(q)' /\ Framed(D, q) /\ MessagesIn(D, q) = {m}
      BY <2>1 DEF Taken
    <2>3. Unread(q)' \in Seq(Entry)
      BY <2>1 DEF Taken
    <2> DEFINE R == Unread(q)' \o O
    <2>4. R \in Seq(Entry) /\ Stream(q) = D \o R
      BY <1>1, <2>2, <2>3, ConcatProperties, ConcatAssociative
    <2>5. Len(Unread(q)') + j \in DOMAIN R /\ R[Len(Unread(q)') + j] = e
      BY <1>3, <2>3, <2>4
    <2> HIDE DEF R, O
    <2>6. /\ Framed(D \o R, q) /\ OnePerOwner(D \o R, q)
      BY <1>2, <2>4
    <2>7. /\ Framed(R, q)
          /\ \A a \in MessagesIn(D, q), b \in MessagesIn(R, q) : Owner(a.hdr) # Owner(b.hdr)
      BY <2>2, <2>4, <2>6, Split
    <2>8. MessagesIn(R, q) \subseteq Messages(q)
      <3>1. MessagesIn(D \o R, q) = MessagesIn(D, q) \cup MessagesIn(R, q)
        BY <2>2, <2>4, <2>7, Concatenated
      <3> QED
        BY <2>4, <3>1 DEF Messages
    <2>9. PICK n \in MessagesIn(R, q) :
           \/ e.chunk.chunk = "hdr" /\ n.hdr = e.chunk
           \/ e.chunk.chunk = "data" /\ n.hdr.full /\ n.body = e.chunk.body
      BY <2>4, <2>5, <2>7, EntryOfMessage
    <2>10. n # m
      BY <2>2, <2>7
    <2>11. ASSUME NEW k, Taken(q, k) PROVE n # k
      <3>1. PICK E \in Seq(Entry) : Unread(q) = E \o Unread(q)' /\ MessagesIn(E, q) = {k}
        BY <2>11 DEF Taken
      <3>2. E = D
        BY <2>2, <2>3, <3>1, ConcatSimplifications
      <3> QED
        BY <2>2, <2>10, <3>1, <3>2
    <2> QED
      BY <2>8, <2>9, <2>11
  <1>5. CASE \A m : ~Taken(q, m)
    <2>1. Stream(q) \in Seq(Entry)
      BY StreamTypes
    <2>2. Len(Unread(q)) + j \in DOMAIN Stream(q) /\ Stream(q)[Len(Unread(q)) + j] = e
      BY <1>1, <1>3, <2>1
    <2>3. PICK n \in MessagesIn(Stream(q), q) :
           \/ e.chunk.chunk = "hdr" /\ n.hdr = e.chunk
           \/ e.chunk.chunk = "data" /\ n.hdr.full /\ n.body = e.chunk.body
      BY <1>2, <2>1, <2>2, EntryOfMessage
    <2> QED
      BY <1>5, <2>3 DEF Messages
  <1> QED
    BY <1>4, <1>5

LEMMA MainPending ==
  ASSUME LinkInv, NEW s \in Servers, mout[s] # << >>
  PROVE  \E n \in Messages(-s) : /\ Owner(n.hdr) = s /\ n.hdr.cmd \in {"BARRIER_REQUEST", "FENCE_CONTRIB"}
                                 /\ \A p \in Pipes : \A m : Taken(p, m) => n # m \/ p # -s
  <1>1. LinkType /\ FramesOK /\ WritersOK(s) /\ MessagesOK
    BY DEF LinkInv, StreamsOK
  <1>2. -s \in Pipes /\ Writer(-s) = s
    BY Topology
  <1> DEFINE e == mout[s][1]
  <1>3. e \in {Request(s), Contrib(s), ProcsData(s)}
    BY <1>1 DEF WritersOK
  <1>4. 1 \in DOMAIN Out(s) /\ Out(s)[1] = e
    <2>1. mout[s] \in Seq(Entry) /\ pout[s] \in Seq(Entry)
      BY <1>1 DEF LinkType
    <2>2. Len(mout[s]) \in Nat \ {0} /\ Len(pout[s]) \in Nat
      BY <2>1
    <2>3. 1 \in 1 .. Len(mout[s]) + Len(pout[s]) /\ 1 <= Len(mout[s])
      <3>1. \A a \in Nat \ {0}, b \in Nat : 1 \in 1 .. a + b /\ 1 <= a
        OBVIOUS
      <3> QED
        BY <2>2, <3>1
    <2>4. /\ Out(s) \in Seq(Entry) /\ Len(Out(s)) = Len(mout[s]) + Len(pout[s])
      BY <2>1, ConcatProperties DEF Out
    <2>5. Out(s)[1] = e
      BY <2>1, <2>3, ConcatProperties DEF Out
    <2>6. DOMAIN Out(s) = 1 .. Len(Out(s))
      BY <2>4, LenProperties
    <2> QED
      BY <2>3, <2>4, <2>5, <2>6
  <1>5. e.pipe = -s
    <2> HIDE DEF e
    <2>1. Request(s).pipe = -s /\ Contrib(s).pipe = -s /\ ProcsData(s).pipe = -s
      BY DEF Request, Contrib, ProcsData
    <2> QED
      BY <1>3, <2>1
  <1>6. PICK n \in Messages(-s) :
           /\ \/ e.chunk.chunk = "hdr" /\ n.hdr = e.chunk
              \/ e.chunk.chunk = "data" /\ n.hdr.full /\ n.body = e.chunk.body
           /\ \A p \in Pipes : \A m : Taken(p, m) => n # m \/ p # -s
    <2> HIDE DEF e
    <2> QED
      BY <1>1, <1>2, <1>4, <1>5, Pending
  <1>7. MessageOK(-s, n) /\ n.hdr \in Header
    BY <1>1, <1>2, OwnerIsServer DEF MessagesOK
  <1>8. Owner(n.hdr) = s /\ n.hdr.cmd \in {"BARRIER_REQUEST", "FENCE_CONTRIB"}
    <2>1. CASE e \in {Request(s), Contrib(s)}
      BY <1>6, <2>1 DEF Request, Contrib, Hdr, Owner
    <2>2. CASE e = ProcsData(s)
      <3>1. n.hdr.full /\ n.body = Contribution(s, 0)
        BY <1>6, <2>2 DEF ProcsData, Data
      <3>2. n.body.what = "part" /\ n.body.src = s
        BY <3>1 DEF Contribution
      <3>3. n.hdr.cmd = "FENCE_CONTRIB"
        BY <1>7, <3>1, <3>2 DEF MessageOK, Header
      <3>4. n.body = Contribution(n.hdr.src, Exchanged(n.hdr.src))
        BY <1>7, <3>3 DEF MessageOK
      <3>5. n.hdr.src = s
        BY <3>2, <3>4 DEF Contribution
      <3> QED
        BY <3>3, <3>5 DEF Owner
    <2> QED
      BY <1>3, <2>1, <2>2
  <1> QED
    BY <1>6, <1>8

LEMMA ProgressPending ==
  ASSUME LinkInv, NEW s \in Servers, pout[s] # << >>
  PROVE  Live(s) \/ \E q \in Pipes : \E n \in Messages(q) : n.hdr.cmd \in {"DMDX_REQUEST", "DMDX_RESPONSE"}
  <1>1. LinkType /\ FramesOK /\ WritersOK(s) /\ MessagesOK /\ BroadcastOK
    BY DEF LinkInv, StreamsOK
  <1> DEFINE k == Len(pout[s])
             e == pout[s][k]
             q == e.pipe
  <1>2. mout[s] = << >> /\ pout[s] \in Seq(Entry)
    BY <1>1 DEF WritersOK, LinkType
  <1>3. k \in DOMAIN pout[s] /\ e \in Entry
    <2>1. k \in Nat \ {0}
      BY <1>2
    <2> QED
      BY <1>2, <2>1, LenProperties, ElementOfSeq
  <1>4. q \in Pipes /\ Writer(q) = s
    BY <1>1, <1>3 DEF WritersOK, Entry
  <1>5. Out(s) = pout[s]
    BY <1>2, ConcatEmptySeq DEF Out
  <1> HIDE DEF k, e
  <1>6. PICK n \in Messages(q) :
           \/ e.chunk.chunk = "hdr" /\ n.hdr = e.chunk
           \/ e.chunk.chunk = "data" /\ n.hdr.full /\ n.body = e.chunk.body
    <2>1. k \in DOMAIN Out(Writer(q)) /\ e = Out(Writer(q))[k]
      BY <1>3, <1>4, <1>5 DEF e
    <2> QED
      BY <1>1, <1>4, <2>1, Pending
  <1>7. MessageOK(q, n) /\ n.hdr \in Header /\ n.hdr.src \in Servers /\ n.hdr.dst \in Servers /\ Owner(n.hdr) \in Servers
    BY <1>1, <1>4, OwnerIsServer DEF MessagesOK
  <1>8. CASE n.hdr.cmd \in {"DMDX_REQUEST", "DMDX_RESPONSE"}
    BY <1>4, <1>8
  <1>9. CASE n.hdr.cmd \notin {"DMDX_REQUEST", "DMDX_RESPONSE"}
    <2>1. \/ n.hdr.cmd \in {"BARRIER_REQUEST", "FENCE_CONTRIB"} /\ q = -n.hdr.src
          \/ n.hdr.cmd \in {"BARRIER_RESPONSE", "FENCE_COMPLETE"} /\ q = n.hdr.dst
      BY <1>7, <1>9 DEF MessageOK, Header
    <2>2. ~IsDmdx(e.chunk)
      <3>1. CASE e.chunk.chunk = "hdr"
        BY <1>6, <1>9, <3>1 DEF IsDmdx
      <3>2. CASE e.chunk.chunk = "data"
        <4>1. n.hdr.full /\ n.body = e.chunk.body
          BY <1>6, <3>2
        <4>2. n.hdr.cmd \in {"FENCE_CONTRIB", "FENCE_COMPLETE"}
          BY <1>7, <1>9, <4>1 DEF Header
        <4>3. n.body.what \in {"part", "all"}
          BY <1>7, <4>2 DEF MessageOK, Contribution
        <4> QED
          BY <3>2, <4>1, <4>3 DEF IsDmdx
      <3> QED
        BY <1>6, <3>1, <3>2
    <2>3. s = 0 => q = 0
      BY <1>1, <1>3, <2>2 DEF BroadcastOK, e, k
    <2>4. Owner(n.hdr) = s
      <3>1. CASE s = 0
        BY <1>7, <2>1, <2>3, <3>1 DEF Owner, Servers
      <3>2. CASE s # 0
        <4>1. s \in Int /\ q \in Int /\ Writer(q) = s
          BY <1>4, ServerLinkAssumption DEF Servers, Pipes
        <4>2. q < 0 /\ q = -s
          BY <3>2, <4>1 DEF Writer
        <4>3. n.hdr.src \in Nat /\ n.hdr.dst \in Nat
          BY <1>7 DEF Servers
        <4>4. n.hdr.cmd \in {"BARRIER_REQUEST", "FENCE_CONTRIB"} /\ -s = -n.hdr.src
          BY <2>1, <4>2, <4>3
        <4> QED
          BY <4>1, <4>3, <4>4 DEF Owner
      <3> QED
        BY <3>1, <3>2
    <2> QED
      BY <1>4, <2>4 DEF Live
  <1> QED
    BY <1>8, <1>9

(* Data is asked for when every server is past its first barrier, has      *)
(* contributed its process map and will not enter another barrier.         *)
LEMMA Asked ==
  ASSUME LinkInv, Undisturbed, NEW u \in Servers, NEW t, Asks(u, t), NEW s \in Servers
  PROVE  Local = 1 /\ ~Finalize /\ mout[s] = << >> /\ mpc[s] \in {"procs", "run"} /\ ~InBarrierNow(s)
  <1>1. /\ LinkType /\ WritersOK(s) /\ \A v \in Servers : ServerOK(v)
        /\ OneMessage /\ InStep
    BY DEF LinkInv, StreamsOK, ServersOK
  <1>2. Local = 1 /\ ~Finalize
    BY DEF Undisturbed, Asks
  <1>3. Exchanged(u) >= 1
    <2>1. ProcsKnown(u)
      BY <1>1, Modes
    <2>2. cl[<<u, 1>>].f \in Nat
      BY <1>1, ServerLinkAssumption DEF LinkType, Client
    <2> QED
      BY <2>1, <2>2 DEF Exchanged
  <1>4. Has(s, "FENCE_COMPLETE") \/ ProcsKnown(s)
    <2>1. Completed(u) = Completed(s)
      BY <1>1 DEF InStep
    <2>2. ~Has(s, "FENCE_COMPLETE") /\ ~ProcsKnown(s) => Completed(s) = 0
      BY DEF Completed, Exchanged
    <2>3. cl[<<u, 1>>].f \in Nat
      BY <1>1, ServerLinkAssumption DEF LinkType, Client
    <2>4. Completed(u) # 0
      BY <1>3, <2>3 DEF Completed, Exchanged
    <2> QED
      BY <2>1, <2>2, <2>4
  <1>5. CASE Has(s, "FENCE_COMPLETE")
    <2>1. PICK q \in Pipes : \E n \in Messages(q) : Owner(n.hdr) = s /\ n.hdr.cmd = "FENCE_COMPLETE"
      BY <1>5 DEF Has
    <2>2. PICK n \in Messages(q) : Owner(n.hdr) = s /\ n.hdr.cmd = "FENCE_COMPLETE"
      BY <2>1
    <2>3. InExchange(s)
      BY <2>2, LiveMode
    <2>4. mpc[s] \in {"procs", "run"}
      BY <1>1, <2>3, Modes DEF WaitsForProcs, WaitsForFence
    <2>5. mout[s] = << >>
      <3> SUFFICES ASSUME mout[s] # << >> PROVE FALSE
        OBVIOUS
      <3>1. PICK k \in Messages(-s) : Owner(k.hdr) = s /\ k.hdr.cmd \in {"BARRIER_REQUEST", "FENCE_CONTRIB"}
        BY MainPending
      <3>2. -s \in Pipes
        BY Topology
      <3>3. k = n
        BY <1>1, <2>2, <3>1, <3>2 DEF OneMessage
      <3> QED
        BY <2>2, <3>1, <3>3
    <2> QED
      BY <1>2, <2>4, <2>5 DEF InBarrierNow, InBarrier
  <1>6. CASE ProcsKnown(s)
    <2>1. mpc[s] \in {"procs", "run"} /\ (mpc[s] = "procs" => ~active[s])
      BY <1>1, <1>2, <1>6 DEF ProcsKnown, ServerOK
    <2> QED
      BY <1>1, <1>2, <2>1 DEF WritersOK, InBarrierNow, InBarrier
  <1> QED
    BY <1>4, <1>5, <1>6

-----------------------------------------------------------------------------
(* A step concerns one server: the others keep their messages, their       *)
(* threads and their clients.                                              *)

Same(v) ==
  /\ InBarrierNow(v)' <=> InBarrierNow(v)
  /\ Exchanged(v)' = Exchanged(v)
  /\ todo'[v] = todo[v]
OwnSame(v) == \A q \in Pipes : \A m : Owner(m.hdr) = v => (m \in Messages(q)' <=> m \in Messages(q))
Unaffected(v) ==
  /\ mpc'[v] = mpc[v] /\ active'[v] = active[v] /\ todo'[v] = todo[v] /\ known'[v] = known[v]
  /\ \A i \in 1 .. Local : cl'[<<v, i>>] = cl[<<v, i>>]
  /\ \A p \in Pipes : Reader(p) = v => slot'[p] = slot[p]

Concerns(u) == \A v \in Servers \ {u} : OwnSame(v) /\ Unaffected(v)

LEMMA UnaffectedSame ==
  ASSUME NEW v \in Servers, Unaffected(v)
  PROVE  /\ Same(v) /\ (ProcsKnown(v)' <=> ProcsKnown(v))
         /\ ServerOK(v) => ServerOK(v)'
         /\ \A t : Asks(v, t)' <=> Asks(v, t)
         /\ InExchange(v)' <=> InExchange(v)
  <1>1. 1 \in 1 .. Local
    BY ServerLinkAssumption
  <1>2. /\ mpc'[v] = mpc[v] /\ active'[v] = active[v] /\ todo'[v] = todo[v] /\ known'[v] = known[v]
        /\ \A i \in 1 .. Local : cl'[<<v, i>>] = cl[<<v, i>>]
        /\ cl'[<<v, 1>>] = cl[<<v, 1>>]
        /\ \A p \in Pipes : Reader(p) = v => slot'[p] = slot[p]
    BY <1>1 DEF Unaffected
  <1>3. ProcsKnown(v)' <=> ProcsKnown(v)
    BY <1>2 DEF ProcsKnown
  <1>4. InBarrierNow(v)' <=> InBarrierNow(v)
    BY <1>2 DEF InBarrierNow, InBarrier
  <1>5. Exchanged(v)' = Exchanged(v)
    BY <1>2, <1>3 DEF Exchanged
  <1>6. Same(v)
    BY <1>2, <1>4, <1>5 DEF Same
  <1>7. \A t : Asks(v, t)' <=> Asks(v, t)
    BY <1>2 DEF Asks
  <1>8. InExchange(v)' <=> InExchange(v)
    BY <1>2, <1>5 DEF InExchange
  <1>9. ASSUME ServerOK(v) PROVE ServerOK(v)'
    <2>1. slot'[v] = slot[v] /\ \A t \in Servers : slot'[Record(v, t)] = slot[Record(v, t)]
      <3>1. v \in Pipes /\ Reader(v) = v
        BY Topology
      <3>2. ASSUME NEW t \in Servers PROVE Record(v, t) \in Pipes /\ Reader(Record(v, t)) = v
        BY ServerLinkAssumption DEF Record, Reader, Pipes, Servers
      <3> QED
        BY <1>2, <3>1, <3>2
    <2>2. WaitsForProcs(v) => WaitsForProcs(v)'
      BY <1>2, <2>1 DEF WaitsForProcs
    <2>3. WaitsForFence(v) => WaitsForFence(v)'
      BY <1>2, <2>1 DEF WaitsForFence
    <2>4. WaitsForData(v) => WaitsForData(v)'
      BY <1>2, <2>1 DEF WaitsForData
    <2>5. ClientsIdle(v) => ClientsIdle(v)'
      BY <1>2 DEF ClientsIdle
    <2>6. /\ todo'[v] = {} \/ WaitsForProcs(v)' \/ WaitsForFence(v)' \/ WaitsForData(v)'
          /\ mpc'[v] \in {"init", "barrier1", "launch", "procs"} => ClientsIdle(v)'
          /\ mpc'[v] \in {"barrier2", "done"} => Finalize
      BY <1>2, <1>9, <2>2, <2>3, <2>4, <2>5 DEF ServerOK
    <2>7. /\ \A i \in 1 .. Local : cl'[<<v, i>>].f = cl'[<<v, 1>>].f
          /\ \A i \in 1 .. Local : cl'[<<v, i>>].want # {} => Askers # {}
          /\ \A i \in 1 .. Local : v \notin cl'[<<v, i>>].want
      BY <1>2, <1>9 DEF ServerOK
    <2>8. ProcsKnown(v)' => known'[v] = Servers
      BY <1>2, <1>3, <1>9 DEF ServerOK
    <2> QED
      BY <2>6, <2>7, <2>8 DEF ServerOK
  <1> QED
    BY <1>3, <1>6, <1>7, <1>8, <1>9

LEMMA KeepsMessage ==
  ASSUME NEW p \in Pipes, NEW m, MessageOK(p, m), Same(Owner(m.hdr)),
         Owner(m.hdr) \in Contributors' => Owner(m.hdr) \in Contributors,
         \A t \in Servers : \A r \in dmreq'[t] : r.from = Owner(m.hdr) => r \in dmreq[t],
         denied \subseteq denied'
  PROVE  MessageOK(p, m)'
  <1> DEFINE u == Owner(m.hdr)
  <1>1. /\ InBarrierNow(u)' <=> InBarrierNow(u)
        /\ Exchanged(u)' = Exchanged(u)
        /\ InExchange(u)' <=> InExchange(u)
        /\ \A t : Asks(u, t)' <=> Asks(u, t)
    BY DEF Same, InExchange, Asks
  <1>2. m.hdr \in Header
    BY DEF MessageOK
  <1>3. CASE m.hdr.cmd = "BARRIER_REQUEST"
    BY <1>1, <1>2, <1>3 DEF MessageOK, Owner
  <1>4. CASE m.hdr.cmd = "BARRIER_RESPONSE"
    BY <1>1, <1>2, <1>4 DEF MessageOK, Owner
  <1>5. CASE m.hdr.cmd = "FENCE_CONTRIB"
    BY <1>1, <1>2, <1>5 DEF MessageOK, Owner
  <1>6. CASE m.hdr.cmd = "FENCE_COMPLETE"
    <2>1. u = m.hdr.dst
      BY <1>6 DEF Owner
    <2> QED
      BY <1>1, <1>2, <1>6, <2>1 DEF MessageOK
  <1>7. CASE m.hdr.cmd = "DMDX_REQUEST"
    BY <1>1, <1>2, <1>7 DEF MessageOK, Owner
  <1>8. CASE m.hdr.cmd = "DMDX_RESPONSE"
    BY <1>1, <1>2, <1>8 DEF MessageOK, Owner
  <1> QED
    BY <1>2, <1>3, <1>4, <1>5, <1>6, <1>7, <1>8 DEF Header

LEMMA KeepsCounts ==
  ASSUME NEW v \in Servers, OwnSame(v), Same(v)
  PROVE  /\ \A cmd : Has(v, cmd)' <=> Has(v, cmd)
         /\ v \in BarrierCounted' <=> v \in BarrierCounted
         /\ Completed(v)' = Completed(v)
  <1>1. \A cmd : Has(v, cmd)' <=> Has(v, cmd)
    BY DEF Has, OwnSame
  <1>2. v \in BarrierCounted' <=> v \in BarrierCounted
    BY <1>1 DEF BarrierCounted, Same
  <1>3. Completed(v)' = Completed(v)
    BY <1>1 DEF Completed, Same
  <1> QED
    BY <1>1, <1>2, <1>3

StepOf(u) ==
  /\ Concerns(u)
  /\ \A q \in Pipes : \A m \in Messages(q)' : m.hdr \in Header /\ (Owner(m.hdr) = u => MessageOK(q, m)')
  /\ \A t \in Servers : \A r \in dmreq'[t] :
       IF r.from = u THEN Asks(u, t)' /\ r.proc = <<t, 1>> ELSE r \in dmreq[t]
  /\ denied \subseteq denied'
  /\ ServerOK(u)' /\ Completed(u)' = Completed(u)

LEMMA Elsewhere ==
  ASSUME LinkInv, NEW u \in Servers, StepOf(u), Contributors' \subseteq Contributors \cup {u}
  PROVE  MessagesOK' /\ RequestsOK' /\ ServersOK' /\ InStep'
  <1> USE DEF StepOf
  <1>0. \A v \in Servers \ {u} : OwnSame(v) /\ Unaffected(v)
    BY DEF Concerns
  <1>1. \A v \in Servers \ {u} : Same(v) /\ ServerOK(v)' /\ (\A t : Asks(v, t)' <=> Asks(v, t))
    BY <1>0, UnaffectedSame DEF LinkInv, ServersOK
  <1>2. MessagesOK'
    <2> SUFFICES ASSUME NEW q \in Pipes, NEW m \in Messages(q)', Owner(m.hdr) # u
                 PROVE  MessageOK(q, m)'
      BY DEF MessagesOK
    <2>1. Owner(m.hdr) \in Servers \ {u}
      BY DEF Owner, Header
    <2>2. m \in Messages(q)
      BY <1>0, <2>1 DEF OwnSame
    <2>3. MessageOK(q, m)
      BY <2>2 DEF LinkInv, MessagesOK
    <2>4. Owner(m.hdr) \in Contributors' => Owner(m.hdr) \in Contributors
      BY <2>1
    <2> QED
      BY <1>1, <2>1, <2>3, <2>4, KeepsMessage
  <1>3. RequestsOK'
    <2> SUFFICES ASSUME NEW t \in Servers, NEW r \in dmreq'[t], r.from # u
                 PROVE  Asks(r.from, t)' /\ r.proc = <<t, 1>>
      BY DEF RequestsOK
    <2>1. r \in dmreq[t]
      OBVIOUS
    <2>2. Asks(r.from, t) /\ r.proc = <<t, 1>> /\ r.from \in Servers
      BY <2>1 DEF LinkInv, RequestsOK, LinkType
    <2> QED
      BY <1>1, <2>2
  <1>4. ServersOK'
    BY <1>1 DEF ServersOK
  <1>5. InStep'
    <2>1. \A v \in Servers : Completed(v)' = Completed(v)
      BY <1>0, <1>1, KeepsCounts
    <2> QED
      BY <2>1 DEF LinkInv, InStep
  <1> QED
    BY <1>2, <1>3, <1>4, <1>5

LEMMA SameCounters ==
  ASSUME LinkInv, NEW u \in Servers, Concerns(u),
         UNCHANGED hub, u \in BarrierCounted' <=> u \in BarrierCounted, u \in Contributors => Same(u)
  PROVE  CountersOK' /\ Contributors' = Contributors
  <1>1. bcnt' = bcnt /\ parts' = parts /\ ccnt' = ccnt
    BY DEF hub
  <1>2. Contributors' = Contributors
    BY <1>1 DEF Contributors
  <1>3. \A v \in Servers \ {u} : OwnSame(v) /\ Same(v)
    BY UnaffectedSame DEF Concerns
  <1>4. BarrierCounted' = BarrierCounted
    <2>1. \A v \in Servers : v \in BarrierCounted' <=> v \in BarrierCounted
      BY <1>3, KeepsCounts
    <2> QED
      BY <2>1 DEF BarrierCounted
  <1>5. ASSUME NEW i \in DOMAIN parts', NEW v \in Servers, parts'[i].src = v
        PROVE  InExchange(v)' /\ parts'[i] = Contribution(v, Exchanged(v)')
    <2>1. i \in DOMAIN parts /\ parts'[i] = parts[i] /\ parts[i].src = v
      BY <1>1, <1>5
    <2>2. InExchange(v) /\ parts[i] = Contribution(v, Exchanged(v)) /\ v \in Contributors
      BY <2>1 DEF LinkInv, CountersOK, Contributors
    <2>3. Same(v)
      BY <1>3, <2>2
    <2> QED
      BY <2>1, <2>2, <2>3 DEF Same, InExchange
  <1> QED
    BY <1>1, <1>2, <1>4, <1>5 DEF LinkInv, CountersOK

-----------------------------------------------------------------------------
(* Steps that move bytes only.                                             *)

LEMMA KeepsWriter ==
  ASSUME NEW t \in Servers, WritersOK(t), mout'[t] = mout[t], pout'[t] = pout[t], cur'[t] = cur[t],
         mpc'[t] = mpc[t], active'[t] = active[t]
  PROVE  WritersOK(t)'
  BY DEF WritersOK

LEMMA Unmoved ==
  ASSUME LinkInv, \A q \in Pipes : Messages(q)' = Messages(q),
         UNCHANGED <<mpc, active, slot, hub, dmreq, denied, known, cl, todo>>
  PROVE  MessagesOK' /\ OneMessage' /\ RequestsOK' /\ ServersOK' /\ CountersOK' /\ InStep'
  <1>1. \A v \in Servers : OwnSame(v) /\ Unaffected(v)
    BY DEF OwnSame, Unaffected
  <1>2. \A v \in Servers : /\ Same(v) /\ ServerOK(v)' /\ (\A t : Asks(v, t)' <=> Asks(v, t))
                            /\ Completed(v)' = Completed(v)
                            /\ (v \in BarrierCounted' <=> v \in BarrierCounted)
    BY <1>1, UnaffectedSame, KeepsCounts DEF LinkInv, ServersOK
  <1>3. PICK u \in Servers : TRUE
    BY Topology
  <1>4. CountersOK' /\ Contributors' = Contributors
    <2>1. Concerns(u) /\ UNCHANGED hub
      BY <1>1 DEF Concerns
    <2> QED
      BY <1>2, <1>3, <2>1, SameCounters
  <1>5. OneMessage'
    BY DEF LinkInv, OneMessage
  <1>6. ASSUME NEW q \in Pipes, NEW m \in Messages(q)'
        PROVE  m.hdr \in Header /\ MessageOK(q, m)'
    <2>1. MessageOK(q, m) /\ m.hdr \in Header /\ Owner(m.hdr) \in Servers
      BY OwnerIsServer DEF LinkInv, MessagesOK
    <2>2. \A t \in Servers : \A r \in dmreq'[t] : r.from = Owner(m.hdr) => r \in dmreq[t]
      OBVIOUS
    <2> QED
      BY <1>2, <1>4, <2>1, <2>2, KeepsMessage
  <1>7. \A t \in Servers : \A r \in dmreq'[t] :
           IF r.from = u THEN Asks(u, t)' /\ r.proc = <<t, 1>> ELSE r \in dmreq[t]
    <2>1. dmreq' = dmreq /\ \A t : Asks(u, t)' <=> Asks(u, t)
      BY <1>2, <1>3
    <2> QED
      BY <2>1 DEF LinkInv, RequestsOK
  <1> QED
    <2>1. StepOf(u)
      BY <1>1, <1>2, <1>3, <1>6, <1>7 DEF StepOf, Concerns
    <2> QED
      BY <1>3, <1>4, <1>5, <2>1, Elsewhere

LEMMA HeadOfWrites ==
  ASSUME NEW X \in Seq(Entry), X # << >>
  PROVE  /\ Head(X) \in Entry /\ Tail(X) \in Seq(Entry) /\ X = <<Head(X)>> \o Tail(X)
         /\ \A i \in DOMAIN Tail(X) : i + 1 \in DOMAIN X /\ Tail(X)[i] = X[i + 1]
         /\ Tail(X) # << >> => Tail(X)[Len(Tail(X))] = X[Len(X)]
         /\ Head(X) = X[1] /\ 1 \in DOMAIN X
  <1> DEFINE n == Len(X)
             T == Tail(X)
  <1>1. /\ n \in Nat \ {0} /\ DOMAIN X = 1 .. n /\ Head(X) = X[1] /\ X[1] \in Entry
        /\ T \in Seq(Entry) /\ Len(T) = n - 1 /\ DOMAIN T = 1 .. n - 1
        /\ \A i \in 1 .. n - 1 : T[i] = X[i + 1]
    BY HeadTailProperties, LenProperties, ElementOfSeq, EmptySeq
  <1> HIDE DEF n, T
  <1>2. T # << >> => T[Len(T)] = X[n]
    <2> SUFFICES ASSUME T # << >> PROVE T[Len(T)] = X[n]
      OBVIOUS
    <2>1. Len(T) \in Nat \ {0}
      BY <1>1, EmptySeq
    <2>2. Len(T) \in 1 .. n - 1 /\ Len(T) + 1 = n
      BY <1>1, <2>1
    <2> QED
      BY <1>1, <2>2
  <1>3. X = <<X[1]>> \o T
    <2>1. <<X[1]>> \in Seq(Entry) /\ Len(<<X[1]>>) = 1 /\ <<X[1]>>[1] = X[1]
      BY <1>1
    <2>2. /\ <<X[1]>> \o T \in Seq(Entry) /\ Len(<<X[1]>> \o T) = n
          /\ \A i \in 1 .. n : (<<X[1]>> \o T)[i] = IF i <= 1 THEN <<X[1]>>[i] ELSE T[i - 1]
      BY <1>1, <2>1, ConcatProperties
    <2>3. ASSUME NEW i \in 1 .. n PROVE (<<X[1]>> \o T)[i] = X[i]
      <3>1. CASE i = 1
        BY <2>1, <2>2, <3>1
      <3>2. CASE i # 1
        <4>1. i - 1 \in 1 .. n - 1 /\ (i - 1) + 1 = i /\ ~(i <= 1)
          BY <1>1, <3>2
        <4> QED
          BY <1>1, <2>2, <4>1
      <3> QED
        BY <3>1, <3>2
    <2>4. Len(X) = n
      BY DEF n
    <2> QED
      BY <2>2, <2>3, <2>4, SeqEqual
  <1> QED
    BY <1>1, <1>2, <1>3 DEF T, n

LEMMA TypeOfWrite ==
  ASSUME LinkType, NEW w \in Entry, pipe' = [pipe EXCEPT ![w.pipe] = Append(@, w.chunk)]
  PROVE  pipe' \in [Pipes -> Seq(Chunk)]
  <1>1. w.pipe \in Pipes /\ w.chunk \in Chunk /\ pipe \in [Pipes -> Seq(Chunk)]
    BY DEF LinkType, Entry
  <1>2. Append(pipe[w.pipe], w.chunk) \in Seq(Chunk)
    BY <1>1
  <1> QED
    BY <1>1, <1>2

LEMMA MainWriteStep ==
  ASSUME LinkInv, NEW s \in Servers, MainWrite(s)
  PROVE  LinkInv'
  <1> DEFINE w == Head(mout[s])
  <1>1. /\ mout[s] # << >> /\ mout' = [mout EXCEPT ![s] = Tail(@)]
        /\ pipe' = [pipe EXCEPT ![w.pipe] = Append(@, w.chunk)]
        /\ UNCHANGED <<mpc, pout, cur, active, slot, hub, dmreq, denied, known, cl, todo, faults>>
    BY DEF library, MainWrite
  <1>2. LinkType /\ FramesOK /\ (\A t \in Servers : WritersOK(t)) /\ BroadcastOK
    BY DEF LinkInv, StreamsOK
  <1>3. /\ mout \in [Servers -> Seq(Entry)] /\ pout[s] \in Seq(Entry) /\ mout[s] \in Seq(Entry)
        /\ mout'[s] = Tail(mout[s]) /\ \A t \in Servers \ {s} : mout'[t] = mout[t]
    BY <1>1, <1>2 DEF LinkType
  <1>4. /\ w \in Entry /\ Tail(mout[s]) \in Seq(Entry) /\ mout[s] = <<w>> \o Tail(mout[s])
    BY <1>1, <1>3, HeadOfWrites
  <1>5. w.pipe = -s /\ Writer(w.pipe) = s
    <2>1. \/ mout[s] = <<Request(s)>>
          \/ mout[s] \in {<<Contrib(s), ProcsData(s)>>, <<ProcsData(s)>>}
      BY <1>1, <1>2 DEF WritersOK
    <2>2. w \in {Request(s), Contrib(s), ProcsData(s)}
      BY <2>1
    <2>3. Request(s).pipe = -s /\ Contrib(s).pipe = -s /\ ProcsData(s).pipe = -s
      BY DEF Request, Contrib, ProcsData
    <2> HIDE DEF w
    <2>4. w.pipe = -s
      BY <2>2, <2>3
    <2> QED
      BY <2>4, Topology
  <1>6. LinkType'
    <2>1. mout' \in [Servers -> Seq(Entry)]
      BY <1>1, <1>3, <1>4
    <2>2. pipe' \in [Pipes -> Seq(Chunk)]
      BY <1>1, <1>2, <1>4, TypeOfWrite
    <2> QED
      BY <1>1, <1>2, <2>1, <2>2 DEF LinkType, hub
  <1>7. FramesOK' /\ \A q \in Pipes : Messages(q)' = Messages(q)
    <2> DEFINE X == Tail(mout[s]) \o pout[s]
    <2>1. X \in Seq(Entry) /\ <<w>> \in Seq(Entry)
      BY <1>3, <1>4, ConcatProperties
    <2>2. Out(s) = <<w>> \o X
      <3>1. (<<w>> \o Tail(mout[s])) \o pout[s] = <<w>> \o X
        BY <1>3, <1>4, <2>1, ConcatAssociative
      <3> QED
        BY <1>4, <3>1 DEF Out
    <2>3. Out(s)' = X /\ \A t \in Servers \ {s} : Out(t)' = Out(t)
      BY <1>1, <1>3 DEF Out
    <2> HIDE DEF X, w
    <2> QED
      BY <1>1, <1>2, <1>4, <1>5, <2>1, <2>2, <2>3, Writing
  <1>8. ASSUME NEW t \in Servers PROVE WritersOK(t)'
    <2>1. CASE t = s
      <3>1. \/ mout[s] = <<Request(s)>> /\ mpc[s] \in {"barrier1", "barrier2"} /\ active[s]
            \/ /\ mout[s] \in {<<Contrib(s), ProcsData(s)>>, <<ProcsData(s)>>}
               /\ mpc[s] = "procs" /\ active[s]
        BY <1>1, <1>2 DEF WritersOK
      <3>2. \/ mout'[s] = << >>
            \/ mout'[s] = <<ProcsData(s)>> /\ mpc[s] = "procs" /\ active[s]
        <4>1. /\ Tail(<<Request(s)>>) = << >>
              /\ Tail(<<ProcsData(s)>>) = << >>
              /\ Tail(<<Contrib(s), ProcsData(s)>>) = <<ProcsData(s)>>
          OBVIOUS
        <4> QED
          BY <1>3, <3>1, <4>1
      <3>3. pout[s] = << >>
        BY <1>1, <1>2 DEF WritersOK
      <3> QED
        BY <1>1, <1>2, <2>1, <3>2, <3>3 DEF WritersOK
    <2>2. CASE t # s
      BY <1>1, <1>2, <1>3, <2>2, KeepsWriter
    <2> QED
      BY <2>1, <2>2
  <1>9. BroadcastOK'
    BY <1>1, <1>2 DEF BroadcastOK
  <1>10. MessagesOK' /\ OneMessage' /\ RequestsOK' /\ ServersOK' /\ CountersOK' /\ InStep'
    BY <1>1, <1>7, Unmoved
  <1> QED
    BY <1>6, <1>7, <1>8, <1>9, <1>10 DEF LinkInv, StreamsOK

LEMMA ProgressWriteStep ==
  ASSUME LinkInv, NEW s \in Servers, ProgressWrite(s)
  PROVE  LinkInv'
  <1> DEFINE w == Head(pout[s])
  <1>1. /\ pout[s] # << >> /\ pout' = [pout EXCEPT ![s] = Tail(@)]
        /\ pipe' = [pipe EXCEPT ![w.pipe] = Append(@, w.chunk)]
        /\ UNCHANGED <<mpc, mout, cur, active, slot, hub, dmreq, denied, known, cl, todo, faults>>
    BY DEF library, ProgressWrite
  <1>2. LinkType /\ FramesOK /\ (\A t \in Servers : WritersOK(t)) /\ BroadcastOK
    BY DEF LinkInv, StreamsOK
  <1>3. /\ pout \in [Servers -> Seq(Entry)] /\ pout[s] \in Seq(Entry)
        /\ pout'[s] = Tail(pout[s]) /\ \A t \in Servers \ {s} : pout'[t] = pout[t]
    BY <1>1, <1>2 DEF LinkType
  <1>4. /\ w \in Entry /\ Tail(pout[s]) \in Seq(Entry) /\ pout[s] = <<w>> \o Tail(pout[s])
        /\ \A i \in DOMAIN Tail(pout[s]) : i + 1 \in DOMAIN pout[s] /\ Tail(pout[s])[i] = pout[s][i + 1]
        /\ Tail(pout[s]) # << >> => Tail(pout[s])[Len(Tail(pout[s]))] = pout[s][Len(pout[s])]
        /\ w = pout[s][1] /\ 1 \in DOMAIN pout[s]
    BY <1>1, <1>3, HeadOfWrites
  <1>5. Writer(w.pipe) = s /\ mout[s] = << >> /\ cur[s] = Idle
    BY <1>1, <1>2, <1>4 DEF WritersOK
  <1>6. LinkType'
    <2>1. pout' \in [Servers -> Seq(Entry)]
      BY <1>1, <1>3, <1>4
    <2>2. pipe' \in [Pipes -> Seq(Chunk)]
      BY <1>1, <1>2, <1>4, TypeOfWrite
    <2> QED
      BY <1>1, <1>2, <2>1, <2>2 DEF LinkType, hub
  <1>7. FramesOK' /\ \A q \in Pipes : Messages(q)' = Messages(q)
    <2> DEFINE X == Tail(pout[s])
    <2>1. Out(s) = <<w>> \o X
      BY <1>3, <1>4, <1>5, ConcatEmptySeq DEF Out
    <2>2. Out(s)' = X
      <3>1. Out(s)' = << >> \o X
        BY <1>1, <1>3, <1>5 DEF Out
      <3> QED
        BY <1>4, <3>1, ConcatEmptySeq
    <2>3. \A t \in Servers \ {s} : Out(t)' = Out(t)
      BY <1>1, <1>3 DEF Out
    <2> HIDE DEF w
    <2> QED
      BY <1>1, <1>2, <1>4, <1>5, <2>1, <2>2, <2>3, Writing
  <1>8. ASSUME NEW t \in Servers PROVE WritersOK(t)'
    <2>1. CASE t = s
      <3>1. \A i \in DOMAIN pout'[s] : Writer(pout'[s][i].pipe) = s
        BY <1>2, <1>3, <1>4 DEF WritersOK
      <3> QED
        BY <1>1, <1>5, <2>1, <3>1 DEF WritersOK
    <2>2. CASE t # s
      BY <1>1, <1>2, <1>3, <2>2, KeepsWriter
    <2> QED
      BY <2>1, <2>2
  <1>9. BroadcastOK'
    <2>1. CASE s = 0
      BY <1>1, <1>2, <1>3, <1>4, <2>1 DEF BroadcastOK
    <2>2. CASE s # 0
      BY <1>2, <1>3, <2>2, Topology DEF BroadcastOK
    <2> QED
      BY <2>1, <2>2
  <1>10. MessagesOK' /\ OneMessage' /\ RequestsOK' /\ ServersOK' /\ CountersOK' /\ InStep'
    BY <1>1, <1>7, Unmoved
  <1> QED
    BY <1>6, <1>7, <1>8, <1>9, <1>10 DEF LinkInv, StreamsOK

-----------------------------------------------------------------------------
(* Steps that send a message, take one, or take one and send it on.        *)

(* Of the messages of u, just m is now under way, in stream p; or none is. *)
Sent(p, u, m) ==
  /\ FramesOK' /\ OneMessage' /\ \A v : v # u => OwnSame(v)
  /\ \A q \in Pipes : \A n \in Messages(q)' : n.hdr \in Header /\ (Owner(n.hdr) = u => q = p /\ n = m)
  /\ \A cmd : Has(u, cmd)' <=> cmd = m.hdr.cmd
Gone(u) ==
  /\ FramesOK' /\ OneMessage' /\ \A v : v # u => OwnSame(v)
  /\ \A q \in Pipes : \A n \in Messages(q)' : n.hdr \in Header /\ Owner(n.hdr) # u
  /\ \A cmd : ~(Has(u, cmd)')

LEMMA SendsOne ==
  ASSUME LinkInv, NEW s \in Servers, NEW h \in Header, NEW body, h.full => body \in Body,
         ~Live(Owner(h)), UNCHANGED <<cur, pipe>>, OutGrows(s, Writes(s, h, body))
  PROVE  Sent(Route(s, h.dst), Owner(h), Message(h, body))
  <1> DEFINE p == Route(s, h.dst)
             u == Owner(h)
             m == Message(h, body)
  <1>1. /\ FramesOK' /\ OneMessage'
        /\ \A q \in Pipes : Messages(q)' = IF q = p THEN Messages(q) \cup {m} ELSE Messages(q)
    BY Sends DEF LinkInv, StreamsOK
  <1>2. m.hdr = h /\ p \in Pipes
    BY Topology DEF Message, Header
  <1> HIDE DEF p, m, u
  <1>3. \A q \in Pipes : \A n \in Messages(q) : Owner(n.hdr) # u /\ n.hdr \in Header
    BY OwnerIsServer DEF Live, u, LinkInv
  <1>4. Owner(m.hdr) = u
    BY <1>2 DEF u
  <1>5. \A v : v # u => OwnSame(v)
    BY <1>1, <1>4 DEF OwnSame
  <1>6. \A q \in Pipes : \A n \in Messages(q)' : n.hdr \in Header /\ (Owner(n.hdr) = u => q = p /\ n = m)
    BY <1>1, <1>2, <1>3
  <1>7. \A cmd : Has(u, cmd)' <=> cmd = m.hdr.cmd
    <2>1. m \in Messages(p)'
      BY <1>1, <1>2
    <2>2. \A cmd : Has(u, cmd)' <=> \E q \in Pipes : \E n \in Messages(q)' : Owner(n.hdr) = u /\ n.hdr.cmd = cmd
      BY DEF Has
    <2> QED
      BY <1>2, <1>4, <1>6, <2>1, <2>2
  <1>8. Sent(p, u, m)
    BY <1>1, <1>5, <1>6, <1>7 DEF Sent
  <1> QED
    BY <1>8 DEF p, u, m

LEMMA TakesOne ==
  ASSUME LinkInv, NEW p \in Pipes, NEW m \in Messages(p), Taken(p, m), \A t \in Servers : Out(t)' = Out(t)
  PROVE  Gone(Owner(m.hdr))
  <1> DEFINE u == Owner(m.hdr)
  <1>1. /\ FramesOK' /\ OneMessage'
        /\ \A q \in Pipes : Messages(q)' = IF q = p THEN Messages(q) \ {m} ELSE Messages(q)
    BY Takes DEF LinkInv, StreamsOK
  <1> HIDE DEF u
  <1>2. \A q \in Pipes : \A n \in Messages(q) : n.hdr \in Header /\ (Owner(n.hdr) = u => q = p /\ n = m)
    BY OwnerIsServer DEF LinkInv, OneMessage, u
  <1>3. Owner(m.hdr) = u
    BY DEF u
  <1>4. \A v : v # u => OwnSame(v)
    BY <1>1, <1>3 DEF OwnSame
  <1>5. \A q \in Pipes : \A n \in Messages(q)' : n.hdr \in Header /\ Owner(n.hdr) # u
    BY <1>1, <1>2
  <1>6. \A cmd : ~(Has(u, cmd)')
    <2>1. \A cmd : Has(u, cmd)' <=> \E q \in Pipes : \E n \in Messages(q)' : Owner(n.hdr) = u /\ n.hdr.cmd = cmd
      BY DEF Has
    <2> QED
      BY <1>5, <2>1
  <1> QED
    BY <1>1, <1>4, <1>5, <1>6 DEF Gone, u

LEMMA ForwardsOne ==
  ASSUME LinkInv, NEW p \in Pipes, NEW m \in Messages(p), Taken(p, m),
         NEW s \in Servers, NEW h \in Header, NEW body, h.full => body \in Body,
         Owner(h) = Owner(m.hdr), OutGrows(s, Writes(s, h, body))
  PROVE  Sent(Route(s, h.dst), Owner(h), Message(h, body))
  <1> DEFINE r == Route(s, h.dst)
             u == Owner(h)
             k == Message(h, body)
  <1>1. /\ FramesOK' /\ OneMessage'
        /\ \A q \in Pipes : Messages(q)' = (Messages(q) \ (IF q = p THEN {m} ELSE {}))
                                  \cup (IF q = r THEN {k} ELSE {})
    BY Forwards DEF LinkInv, StreamsOK
  <1>2. k.hdr = h /\ r \in Pipes
    BY Topology DEF Message, Header
  <1> HIDE DEF r, k, u
  <1>3. \A q \in Pipes : \A n \in Messages(q) : n.hdr \in Header /\ (Owner(n.hdr) = u => q = p /\ n = m)
    BY OwnerIsServer DEF LinkInv, OneMessage, u
  <1>4. Owner(k.hdr) = u /\ Owner(m.hdr) = u
    BY <1>2 DEF u
  <1>5. \A v : v # u => OwnSame(v)
    BY <1>1, <1>4 DEF OwnSame
  <1>6. \A q \in Pipes : \A n \in Messages(q)' : n.hdr \in Header /\ (Owner(n.hdr) = u => q = r /\ n = k)
    BY <1>1, <1>2, <1>3
  <1>7. \A cmd : Has(u, cmd)' <=> cmd = k.hdr.cmd
    <2>1. k \in Messages(r)'
      BY <1>1, <1>2
    <2>2. \A cmd : Has(u, cmd)' <=> \E q \in Pipes : \E n \in Messages(q)' : Owner(n.hdr) = u /\ n.hdr.cmd = cmd
      BY DEF Has
    <2> QED
      BY <1>2, <1>4, <1>6, <2>1, <2>2
  <1>8. Sent(r, u, k)
    BY <1>1, <1>5, <1>6, <1>7 DEF Sent
  <1> QED
    BY <1>8 DEF r, u, k

(* What the set of write()s of a message is to its thread.                 *)
LastChunk(h, body) == IF h.full THEN Data(body) ELSE h

LEMMA LastOfWrites ==
  ASSUME NEW s, NEW h \in Header, NEW body
  PROVE  LET X == Writes(s, h, body) IN
         /\ X # << >> /\ X[Len(X)].pipe = Route(s, h.dst)
         /\ X[Len(X)].chunk = LastChunk(h, body)
  <1>1. CASE h.full
    BY <1>1 DEF Writes, Data, LastChunk
  <1>2. CASE ~h.full
    BY <1>2 DEF Writes, LastChunk
  <1> QED
    BY <1>1, <1>2

LEMMA MainSends ==
  ASSUME LinkInv, NEW s \in Servers, NEW h \in Header, NEW body, h.full => body \in Body,
         ~Live(Owner(h)), mout[s] = << >>, pout[s] = << >>,
         mout' = [mout EXCEPT ![s] = Writes(s, h, body)], UNCHANGED <<pout, cur, pipe>>
  PROVE  /\ mout' \in [Servers -> Seq(Entry)] /\ BroadcastOK'
         /\ Sent(Route(s, h.dst), Owner(h), Message(h, body))
  <1> DEFINE X == Writes(s, h, body)
  <1>1. mout \in [Servers -> Seq(Entry)] /\ X \in Seq(Entry)
    BY Topology, WritesMessage DEF LinkInv, LinkType, Header, IsWhole
  <1>2. OutGrows(s, X)
    <2>1. mout'[s] = X /\ (\A t \in Servers \ {s} : mout'[t] = mout[t]) /\ pout' = pout
      BY <1>1
    <2>2. Out(s) = << >> \o << >> /\ Out(s)' = X \o << >>
      BY <2>1 DEF Out
    <2>3. Out(s)' = Out(s) \o X
      <3>1. << >> \in Seq(Entry)
        OBVIOUS
      <3> QED
        BY <1>1, <2>2, <3>1, ConcatEmptySeq
    <2>4. \A t \in Servers \ {s} : Out(t)' = Out(t)
      BY <2>1 DEF Out
    <2> QED
      BY <2>3, <2>4 DEF OutGrows
  <1>3. BroadcastOK'
    BY DEF LinkInv, StreamsOK, BroadcastOK
  <1> QED
    BY <1>1, <1>2, <1>3, SendsOne

LEMMA ProgressSends ==
  ASSUME LinkInv, NEW s \in Servers, NEW h \in Header, NEW body, h.full => body \in Body,
         ~Live(Owner(h)), mout[s] = << >>, Free(s),
         s = 0 => h.dst = 0 \/ IsDmdx(LastChunk(h, body)),
         pout' = [pout EXCEPT ![s] = Writes(s, h, body)], UNCHANGED <<mpc, active, mout, cur, pipe>>
  PROVE  /\ pout' \in [Servers -> Seq(Entry)] /\ StreamsOK'
         /\ Sent(Route(s, h.dst), Owner(h), Message(h, body))
  <1> DEFINE X == Writes(s, h, body)
             r == Route(s, h.dst)
  <1>1. /\ pout \in [Servers -> Seq(Entry)] /\ X \in Seq(Entry)
        /\ r \in Pipes /\ Writer(r) = s /\ \A i \in DOMAIN X : X[i].pipe = r
    <2>1. r \in Pipes /\ Writer(r) = s
      BY Topology DEF Header
    <2>2. IsWhole(X, r, Message(h, body))
      BY <2>1, WritesMessage
    <2> HIDE DEF X, r
    <2> QED
      BY <2>1, <2>2 DEF LinkInv, LinkType, IsWhole
  <1>2. pout'[s] = X /\ (\A t \in Servers \ {s} : pout'[t] = pout[t]) /\ pout' \in [Servers -> Seq(Entry)]
    BY <1>1
  <1>3. OutGrows(s, X)
    <2>2. Out(s) = << >> \o << >> /\ Out(s)' = << >> \o X
      BY <1>2 DEF Out, Free
    <2>3. Out(s)' = Out(s) \o X
      <3>1. << >> \in Seq(Entry)
        OBVIOUS
      <3> QED
        BY <1>1, <2>2, <3>1, ConcatEmptySeq
    <2>4. \A t \in Servers \ {s} : Out(t)' = Out(t)
      BY <1>2 DEF Out
    <2> QED
      BY <2>3, <2>4 DEF OutGrows
  <1>4. Sent(r, Owner(h), Message(h, body))
    BY <1>3, SendsOne
  <1>5. \A t \in Servers : WritersOK(t)
    BY DEF LinkInv, StreamsOK
  <1>6. ASSUME NEW t \in Servers PROVE WritersOK(t)'
    <2>1. CASE t = s
      <3> HIDE DEF X
      <3>1. \A i \in DOMAIN pout'[s] : Writer(pout'[s][i].pipe) = s
        BY <1>1, <1>2
      <3> QED
        BY <1>5, <2>1, <3>1 DEF WritersOK, Free
    <2>2. CASE t # s
      BY <1>2, <1>5, <2>2, KeepsWriter
    <2> QED
      BY <2>1, <2>2
  <1>7. BroadcastOK'
    <2>1. CASE s = 0
      <3>1. X # << >> /\ X[Len(X)].pipe = r /\ X[Len(X)].chunk = LastChunk(h, body)
        BY LastOfWrites
      <3>2. r = h.dst
        BY <2>1 DEF Route
      <3> HIDE DEF X, r
      <3> QED
        BY <1>2, <2>1, <3>1, <3>2 DEF BroadcastOK
    <2>2. CASE s # 0
      BY <1>2, <2>2, Topology DEF BroadcastOK, LinkInv, StreamsOK
    <2> QED
      BY <2>1, <2>2
  <1> QED
    BY <1>2, <1>4, <1>6, <1>7 DEF Sent, StreamsOK

-----------------------------------------------------------------------------
(* The steps of the main thread and of the clients, and the first read().  *)

LEMMA OneServer ==
  ASSUME LinkInv, NEW u \in Servers, StepOf(u), LinkType', StreamsOK', OneMessage',
         UNCHANGED hub, u \in BarrierCounted' <=> u \in BarrierCounted, u \in Contributors => Same(u)
  PROVE  LinkInv'
  <1>1. CountersOK' /\ Contributors' = Contributors
    BY SameCounters DEF StepOf
  <1>2. Contributors' \subseteq Contributors \cup {u}
    BY <1>1
  <1> QED
    BY <1>1, <1>2, Elsewhere DEF LinkInv

LEMMA QuietStep ==
  ASSUME LinkInv, NEW u \in Servers, \A v \in Servers \ {u} : Unaffected(v), Same(u), ServerOK(u)',
         \A q \in Pipes : Messages(q)' = Messages(q), UNCHANGED <<hub, dmreq, denied>>, LinkType', StreamsOK'
  PROVE  LinkInv'
  <1>1. \A v \in Servers : OwnSame(v)
    BY DEF OwnSame
  <1>2. /\ Completed(u)' = Completed(u)
        /\ u \in BarrierCounted' <=> u \in BarrierCounted
    BY <1>1, KeepsCounts
  <1>3. Concerns(u)
    BY <1>1 DEF Concerns
  <1>4. CountersOK' /\ Contributors' = Contributors
    BY <1>2, <1>3, SameCounters
  <1>5. OneMessage'
    BY DEF LinkInv, OneMessage
  <1>6. ASSUME NEW q \in Pipes, NEW m \in Messages(q)'
        PROVE  m.hdr \in Header /\ (Owner(m.hdr) = u => MessageOK(q, m)')
    <2>1. MessageOK(q, m) /\ m.hdr \in Header /\ Owner(m.hdr) \in Servers
      BY OwnerIsServer DEF LinkInv, MessagesOK
    <2>2. \A t \in Servers : \A r \in dmreq'[t] : r.from = Owner(m.hdr) => r \in dmreq[t]
      OBVIOUS
    <2> QED
      BY <1>4, <2>1, <2>2, KeepsMessage
  <1>7. \A t \in Servers : \A r \in dmreq'[t] :
           IF r.from = u THEN Asks(u, t)' /\ r.proc = <<t, 1>> ELSE r \in dmreq[t]
    <2>1. dmreq' = dmreq /\ \A t : Asks(u, t)' <=> Asks(u, t)
      BY DEF Same, Asks
    <2> QED
      BY <2>1 DEF LinkInv, RequestsOK
  <1>8. StepOf(u)
    BY <1>2, <1>3, <1>6, <1>7 DEF StepOf
  <1> QED
    BY <1>2, <1>4, <1>5, <1>8, OneServer

LEMMA SameStreams ==
  ASSUME FramesOK, UNCHANGED link
  PROVE  FramesOK' /\ \A q \in Pipes : Messages(q)' = Messages(q)
  <1>1. \A q \in Pipes : Stream(q)' = Stream(q)
    BY DEF link, Stream, Unread, Begun, InPipe, Out
  <1> QED
    BY <1>1 DEF FramesOK, Messages

LEMMA MainWakesStep ==
  ASSUME LinkInv, NEW s \in Servers, MainWakes(s)
  PROVE  LinkInv'
  <1>1. /\ mout[s] = << >> /\ ~active[s] /\ mpc[s] \in {"barrier1", "procs", "barrier2"}
        /\ UNCHANGED <<link, active, slot, hub, dmreq, denied, known, cl, todo, faults>>
    BY DEF library, MainWakes
  <1>2. LinkType /\ FramesOK /\ (\A t \in Servers : WritersOK(t)) /\ BroadcastOK /\ ServerOK(s)
    BY DEF LinkInv, StreamsOK, ServersOK
  <1>3. /\ mpc' \in [Servers -> {"init", "barrier1", "launch", "procs", "run", "barrier2", "done"}]
        /\ \A t \in Servers \ {s} : mpc'[t] = mpc[t]
        /\ \/ mpc[s] = "barrier1" /\ mpc'[s] = "launch"
           \/ mpc[s] = "procs" /\ mpc'[s] = "run"
           \/ mpc[s] = "barrier2" /\ mpc'[s] = "done"
    BY <1>1, <1>2 DEF MainWakes, LinkType
  <1>4. LinkType'
    BY <1>1, <1>2, <1>3 DEF LinkType, link, hub
  <1>5. FramesOK' /\ \A q \in Pipes : Messages(q)' = Messages(q)
    BY <1>1, <1>2, SameStreams
  <1>6. StreamsOK'
    <2>1. ASSUME NEW t \in Servers PROVE WritersOK(t)'
      <3>1. CASE t = s
        BY <1>1, <1>2, <3>1 DEF WritersOK, link
      <3>2. CASE t # s
        BY <1>1, <1>2, <1>3, <3>2, KeepsWriter DEF link
      <3> QED
        BY <3>1, <3>2
    <2>2. BroadcastOK'
      BY <1>1, <1>2 DEF BroadcastOK, link
    <2> QED
      BY <1>5, <2>1, <2>2 DEF StreamsOK
  <1>7. \A v \in Servers \ {s} : Unaffected(v)
    BY <1>1, <1>3 DEF Unaffected
  <1>8. ProcsKnown(s)' <=> ProcsKnown(s)
    BY <1>1, <1>3 DEF ProcsKnown
  <1>9. Same(s)
    BY <1>1, <1>3, <1>8 DEF Same, InBarrierNow, Exchanged
  <1>10. ServerOK(s)'
    <2>1. todo[s] = {}
      BY <1>1, <1>2 DEF ServerOK, WaitsForProcs, WaitsForFence, WaitsForData
    <2>2. ClientsIdle(s)' <=> ClientsIdle(s)
      BY <1>1 DEF ClientsIdle
    <2> QED
      BY <1>1, <1>2, <1>3, <1>8, <2>1, <2>2 DEF ServerOK
  <1> QED
    BY <1>1, <1>4, <1>5, <1>6, <1>7, <1>9, <1>10, QuietStep

(* A server that waits for nothing, before the exchange of the process     *)
(* maps or while its clients run.                                          *)
LEMMA WaitsForNothing ==
  ASSUME LinkInv, NEW s \in Servers, todo[s] = {}, mpc[s] \in {"init", "launch", "run"}
  PROVE  /\ mout[s] = << >> /\ ~InBarrierNow(s) /\ ~InExchange(s) /\ ~Live(s)
         /\ s \notin Contributors /\ s \notin BarrierCounted
         /\ \A t \in Servers : \A r \in dmreq[t] : r.from # s
         /\ \A cmd : ~Has(s, cmd)
  <1>1. mout[s] = << >>
    BY DEF LinkInv, StreamsOK, WritersOK
  <1>2. ~InBarrierNow(s)
    BY DEF InBarrierNow, InBarrier
  <1>3. ~InExchange(s)
    BY DEF InExchange
  <1>4. ~Live(s)
    BY <1>2, NotLive
  <1>5. s \notin Contributors
    BY <1>3 DEF LinkInv, CountersOK, Contributors
  <1>6. s \notin BarrierCounted
    BY <1>2 DEF BarrierCounted
  <1>7. \A t \in Servers : \A r \in dmreq[t] : r.from # s
    <2> SUFFICES ASSUME NEW t \in Servers, NEW r \in dmreq[t], r.from = s PROVE FALSE
      OBVIOUS
    <2>1. Asks(s, t)
      BY DEF LinkInv, RequestsOK
    <2> QED
      BY <2>1 DEF Asks
  <1>8. \A cmd : ~Has(s, cmd)
    BY <1>4 DEF Has, Live
  <1> QED
    BY <1>1, <1>2, <1>3, <1>4, <1>5, <1>6, <1>7, <1>8

(* Nothing is asked for while a server is in a barrier or about to send    *)
(* its process map: its progress thread has nothing to write.              *)
LEMMA NoData ==
  ASSUME LinkInv, Undisturbed, NEW s \in Servers, mpc[s] \in {"init", "launch"} \/ Finalize, ~Live(s)
  PROVE  pout[s] = << >>
  <1> SUFFICES ASSUME NEW q \in Pipes, NEW n \in Messages(q), n.hdr.cmd \in {"DMDX_REQUEST", "DMDX_RESPONSE"}
               PROVE  FALSE
    BY ProgressPending
  <1>1. PICK t \in Servers : Owner(n.hdr) \in Servers /\ Asks(Owner(n.hdr), t)
    BY LiveMode
  <1>2. ~Finalize /\ mpc[s] \in {"procs", "run"}
    BY <1>1, Asked
  <1> QED
    BY <1>2

LEMMA CallBarrierStep ==
  ASSUME LinkInv, Undisturbed, NEW s \in Servers, CallBarrier(s)
  PROVE  LinkInv'
  <1> DEFINE h == Hdr("BARRIER_REQUEST", s, 0, FALSE)
             m == Message(h, NoBody)
  <1>1. /\ active' = [active EXCEPT ![s] = TRUE]
        /\ mout' = [mout EXCEPT ![s] = Writes(s, h, NoBody)]
        /\ UNCHANGED <<pout, cur, pipe, slot, hub, dmreq, denied, known, cl, todo, faults>>
        /\ \/ mpc[s] = "init" /\ mpc' = [mpc EXCEPT ![s] = "barrier1"]
           \/ /\ mpc[s] = "run" /\ Finalize /\ mpc' = [mpc EXCEPT ![s] = "barrier2"]
              /\ \A i \in 1 .. Local : cl[<<s, i>>].call = "exit"
    BY DEF library, CallBarrier, ArmAndSend
  <1>2. LinkType /\ (\A t \in Servers : WritersOK(t)) /\ ServerOK(s) /\ s \in Pipes
    BY Topology DEF LinkInv, StreamsOK, ServersOK
  <1>3. /\ mpc' \in [Servers -> {"init", "barrier1", "launch", "procs", "run", "barrier2", "done"}]
        /\ \A t \in Servers \ {s} : mpc'[t] = mpc[t] /\ active'[t] = active[t]
        /\ active' \in [Pipes -> BOOLEAN] /\ active'[s]
        /\ mpc'[s] = IF mpc[s] = "init" THEN "barrier1" ELSE "barrier2"
    BY <1>1, <1>2, Topology DEF LinkType
  <1>4. todo[s] = {}
    <2>1. 1 \in 1 .. Local
      BY ServerLinkAssumption
    <2> QED
      BY <1>1, <1>2, <2>1 DEF ServerOK, WaitsForProcs, WaitsForFence, WaitsForData
  <1>5. /\ mout[s] = << >> /\ ~InBarrierNow(s) /\ ~InExchange(s) /\ ~Live(s)
        /\ s \notin Contributors /\ s \notin BarrierCounted
        /\ \A t \in Servers : \A r \in dmreq[t] : r.from # s
        /\ \A cmd : ~Has(s, cmd)
    BY <1>1, <1>4, WaitsForNothing
  <1>6. pout[s] = << >>
    BY <1>1, <1>5, NoData
  <1>7. h \in Header /\ ~h.full /\ Owner(h) = s /\ Route(s, h.dst) = -s /\ m.hdr = h
    BY Topology, ServerLinkAssumption DEF Hdr, Header, Owner, Route, Message, Servers
  <1>8. Writes(s, h, NoBody) = <<Request(s)>>
    BY <1>7 DEF Writes, Request, Hdr
  <1>9. mout' \in [Servers -> Seq(Entry)] /\ BroadcastOK' /\ Sent(-s, s, m)
    <2> HIDE DEF h
    <2>1. h.full => NoBody \in Body
      BY <1>7
    <2>2. UNCHANGED <<pout, cur, pipe>>
      BY <1>1
    <2>3. mout' = [mout EXCEPT ![s] = Writes(s, h, NoBody)] /\ ~Live(Owner(h))
      BY <1>1, <1>5, <1>7
    <2>4. /\ mout' \in [Servers -> Seq(Entry)] /\ BroadcastOK'
          /\ Sent(Route(s, h.dst), Owner(h), Message(h, NoBody))
      BY <1>5, <1>6, <1>7, <2>1, <2>2, <2>3, MainSends
    <2> QED
      BY <1>7, <2>4
  <1> HIDE DEF m
  <1>10. mout'[s] = <<Request(s)>> /\ \A t \in Servers \ {s} : mout'[t] = mout[t]
    BY <1>1, <1>2, <1>8 DEF LinkType
  <1>11. LinkType'
    BY <1>1, <1>2, <1>3, <1>9 DEF LinkType, hub
  <1>12. StreamsOK'
    <2>1. ASSUME NEW t \in Servers PROVE WritersOK(t)'
      <3>1. CASE t = s
        BY ZenonT(30), <1>1, <1>2, <1>3, <1>6, <1>10, <3>1 DEF WritersOK
      <3>2. CASE t # s
        BY <1>1, <1>2, <1>3, <1>10, <3>2, KeepsWriter
      <3> QED
        BY <3>1, <3>2
    <2> QED
      BY <1>9, <2>1 DEF StreamsOK, Sent
  <1>13. ProcsKnown(s)' <=> ProcsKnown(s)
    BY <1>1, <1>3 DEF ProcsKnown
  <1>14. ServerOK(s)'
    <2>1. ClientsIdle(s)' <=> ClientsIdle(s)
      BY <1>1 DEF ClientsIdle
    <2> QED
      BY <1>1, <1>2, <1>3, <1>4, <1>13, <2>1 DEF ServerOK
  <1>15. InBarrierNow(s)'
    BY <1>3 DEF InBarrierNow, InBarrier
  <1>16. \A cmd : Has(s, cmd)' <=> cmd = "BARRIER_REQUEST"
    BY <1>7, <1>9 DEF Sent, Hdr
  <1>17. Completed(s)' = Completed(s)
    BY <1>1, <1>5, <1>13, <1>16 DEF Completed, Exchanged
  <1>18. s \notin BarrierCounted'
    BY <1>16 DEF BarrierCounted
  <1>19. Concerns(s)
    BY <1>1, <1>3, <1>9, Topology DEF Concerns, Unaffected, Sent
  <1>20. MessageOK(-s, m)'
    BY <1>7, <1>15 DEF MessageOK, Hdr
  <1>21. StepOf(s)
    BY <1>1, <1>5, <1>9, <1>14, <1>17, <1>19, <1>20 DEF StepOf, Sent
  <1>22. OneMessage'
    BY <1>9 DEF Sent
  <1> QED
    BY <1>1, <1>5, <1>11, <1>12, <1>18, <1>21, <1>22, OneServer

LEMMA SendProcsStep ==
  ASSUME LinkInv, Undisturbed, NEW s \in Servers, SendProcs(s)
  PROVE  LinkInv'
  <1> DEFINE h == Hdr("FENCE_CONTRIB", s, 0, TRUE)
             body == Contribution(s, 0)
             m == Message(h, body)
  <1>1. /\ mpc[s] = "launch" /\ mpc' = [mpc EXCEPT ![s] = "procs"]
        /\ active' = [active EXCEPT ![s] = TRUE]
        /\ slot' = [slot EXCEPT ![s] = Procs]
        /\ todo' = [todo EXCEPT ![s] = @ \cup {Procs}]
        /\ mout' = [mout EXCEPT ![s] = Writes(s, h, body)]
        /\ UNCHANGED <<pout, cur, pipe, hub, dmreq, denied, known, cl, faults>>
    BY DEF library, SendProcs, ArmAndSend
  <1>2. LinkType /\ (\A t \in Servers : WritersOK(t)) /\ ServerOK(s) /\ s \in Pipes
    BY Topology DEF LinkInv, StreamsOK, ServersOK
  <1>3. todo[s] = {}
    BY <1>1, <1>2 DEF ServerOK, WaitsForProcs, WaitsForFence, WaitsForData
  <1>4. /\ mpc' \in [Servers -> {"init", "barrier1", "launch", "procs", "run", "barrier2", "done"}]
        /\ \A t \in Servers \ {s} : mpc'[t] = mpc[t] /\ active'[t] = active[t] /\ todo'[t] = todo[t]
        /\ active' \in [Pipes -> BOOLEAN] /\ active'[s]
        /\ mpc'[s] = "procs" /\ todo'[s] = {Procs} /\ todo' \in [Servers -> SUBSET Op]
        /\ slot' \in [Pipes -> Op] /\ slot'[s] = Procs
        /\ \A p \in Pipes \ {s} : slot'[p] = slot[p]
    <2>1. Procs \in Op
      BY DEF Op
    <2>2. todo[s] \cup {Procs} = {Procs}
      BY <1>3
    <2> QED
      BY <1>1, <1>2, <2>1, <2>2, Topology DEF LinkType
  <1>5. /\ mout[s] = << >> /\ ~InBarrierNow(s) /\ ~InExchange(s) /\ ~Live(s)
        /\ s \notin Contributors /\ s \notin BarrierCounted
        /\ \A t \in Servers : \A r \in dmreq[t] : r.from # s
        /\ \A cmd : ~Has(s, cmd)
    BY <1>1, <1>3, WaitsForNothing
  <1>6. pout[s] = << >>
    BY <1>1, <1>5, NoData
  <1>7. /\ h \in Header /\ h.full /\ Owner(h) = s /\ Route(s, h.dst) = -s /\ m.hdr = h
        /\ body \in Body /\ m.body = body
    <2>1. body \in Part
      BY ServerLinkAssumption DEF Contribution, Part
    <2> QED
      BY <2>1, Topology, ServerLinkAssumption DEF Hdr, Header, Owner, Route, Message, Servers, Body
  <1>8. Writes(s, h, body) = <<Contrib(s), ProcsData(s)>>
    BY <1>7 DEF Writes, Contrib, ProcsData, Hdr
  <1>9. mout' \in [Servers -> Seq(Entry)] /\ BroadcastOK' /\ Sent(-s, s, m)
    BY <1>1, <1>5, <1>6, <1>7, MainSends
  <1> HIDE DEF m
  <1>10. mout'[s] = <<Contrib(s), ProcsData(s)>> /\ \A t \in Servers \ {s} : mout'[t] = mout[t]
    BY <1>1, <1>2, <1>8 DEF LinkType
  <1>11. LinkType'
    BY <1>1, <1>2, <1>4, <1>9 DEF LinkType, hub
  <1>12. StreamsOK'
    <2>1. ASSUME NEW t \in Servers PROVE WritersOK(t)'
      <3>1. CASE t = s
        <4>1. mout'[s] \in {<<Contrib(s), ProcsData(s)>>, <<ProcsData(s)>>}
          BY <1>10
        <4>2. pout'[s] = << >> /\ cur'[s] = cur[s] /\ mpc'[s] = "procs" /\ active'[s]
          BY <1>1, <1>4, <1>6
        <4>3. cur'[s] # Idle => Reader(cur'[s].pipe) = s /\ cur'[s].hdr.full
          BY <1>2, <4>2 DEF WritersOK
        <4> HIDE DEF h, body
        <4> QED
          BY <3>1, <4>1, <4>2, <4>3 DEF WritersOK
      <3>2. CASE t # s
        BY <1>1, <1>2, <1>4, <1>10, <3>2, KeepsWriter
      <3> QED
        BY <3>1, <3>2
    <2> QED
      BY <1>9, <2>1 DEF StreamsOK, Sent
  <1>13. ~ProcsKnown(s)' /\ ~ProcsKnown(s)
    BY <1>1, <1>4 DEF ProcsKnown
  <1>14. ServerOK(s)'
    <2>1. ClientsIdle(s)' <=> ClientsIdle(s)
      BY <1>1 DEF ClientsIdle
    <2>2. WaitsForProcs(s)'
      BY <1>4 DEF WaitsForProcs
    <2> QED
      BY <1>1, <1>2, <1>4, <1>13, <2>1, <2>2 DEF ServerOK
  <1>15. InExchange(s)' /\ Exchanged(s)' = 0 /\ ~InBarrierNow(s)' /\ Exchanged(s) = 0
    BY <1>4, <1>13 DEF InExchange, Exchanged, ExchangeOp, InBarrierNow, InBarrier
  <1>16. \A cmd : Has(s, cmd)' <=> cmd = "FENCE_CONTRIB"
    BY <1>7, <1>9 DEF Sent, Hdr
  <1>17. Completed(s)' = Completed(s)
    BY <1>5, <1>15, <1>16 DEF Completed
  <1>18. s \notin BarrierCounted'
    BY <1>15 DEF BarrierCounted
  <1>19. Concerns(s)
    <2>1. ASSUME NEW v \in Servers \ {s} PROVE Unaffected(v)
      <3>1. Reader(s) = s
        BY Topology
      <3> QED
        BY <1>1, <1>4, <3>1 DEF Unaffected
    <2> QED
      BY <1>9, <2>1 DEF Concerns, Sent
  <1>20. MessageOK(-s, m)'
    <2>1. s \notin Contributors'
      BY <1>1, <1>5 DEF Contributors, hub
    <2> QED
      BY <1>7, <1>15, <2>1 DEF MessageOK, Hdr
  <1>21. StepOf(s)
    BY <1>1, <1>5, <1>9, <1>14, <1>17, <1>19, <1>20 DEF StepOf, Sent
  <1>22. OneMessage'
    BY <1>9 DEF Sent
  <1> QED
    BY <1>1, <1>5, <1>11, <1>12, <1>18, <1>21, <1>22, OneServer

(* While a client of s makes no call, s waits for nothing.                 *)
LEMMA ClientCalls ==
  ASSUME LinkInv, Undisturbed, NEW s \in Servers, NEW i \in 1 .. Local,
         mpc[s] = "run", cl[<<s, i>>].call = "none"
  PROVE  todo[s] = {} /\ ProcsKnown(s) /\ known[s] = Servers
  <1>1. ServerOK(s) /\ ProcsKnown(s)
    BY DEF LinkInv, ServersOK, ProcsKnown
  <1>2. ~WaitsForProcs(s) /\ ~WaitsForFence(s)
    BY DEF WaitsForProcs, WaitsForFence
  <1>3. ~WaitsForData(s)
    <2>1. Askers # {} => i = 1
      BY DEF Undisturbed
    <2> QED
      BY <2>1 DEF WaitsForData
  <1> QED
    BY <1>1, <1>2, <1>3 DEF ServerOK

LEMMA ClientExitStep ==
  ASSUME LinkInv, Undisturbed, NEW c \in Client, ClientExit(c)
  PROVE  LinkInv'
  <1>0. PICK s \in Servers, i \in 1 .. Local : c = <<s, i>>
    BY DEF Client
  <1>1. /\ mpc[s] = "run" /\ cl[c] = [f |-> Fences, want |-> {}, call |-> "none"]
        /\ cl' = [cl EXCEPT ![c].call = "exit"]
        /\ UNCHANGED <<mpc, link, active, slot, hub, dmreq, denied, known, todo, faults>>
    BY <1>0 DEF library, ClientExit, Served
  <1>2. LinkType /\ StreamsOK /\ ServerOK(s)
    BY DEF LinkInv, ServersOK
  <1>3. todo[s] = {} /\ ProcsKnown(s)
    BY <1>0, <1>1, ClientCalls
  <1>4. /\ cl' \in [Client -> [f : 0 .. Fences, want : SUBSET Servers, call : {"none", "fence", "get", "exit"}]]
        /\ \A d \in Client : /\ cl'[d].f = cl[d].f /\ cl'[d].want = cl[d].want
                             /\ d # c => cl'[d] = cl[d]
    BY <1>1, <1>2 DEF LinkType
  <1>5. \A v \in Servers, j \in 1 .. Local : <<v, j>> \in Client /\ (<<v, j>> = c => v = s)
    BY <1>0 DEF Client
  <1>6. LinkType'
    BY <1>1, <1>2, <1>4 DEF LinkType, link, hub
  <1>7. FramesOK' /\ \A q \in Pipes : Messages(q)' = Messages(q)
    BY <1>1, <1>2, SameStreams DEF StreamsOK
  <1>8. StreamsOK'
    <2>1. \A t \in Servers : WritersOK(t)'
      BY <1>1, <1>2, KeepsWriter DEF link, StreamsOK
    <2>2. BroadcastOK'
      BY <1>1, <1>2 DEF StreamsOK, BroadcastOK, link
    <2> QED
      BY <1>7, <2>1, <2>2 DEF StreamsOK
  <1>9. \A v \in Servers \ {s} : Unaffected(v)
    BY <1>1, <1>4, <1>5 DEF Unaffected
  <1>10. 1 \in 1 .. Local /\ <<s, 1>> \in Client
    BY ServerLinkAssumption DEF Client
  <1>11. Same(s) /\ (ProcsKnown(s)' <=> ProcsKnown(s))
    BY <1>1, <1>4, <1>10 DEF Same, InBarrierNow, InBarrier, Exchanged, ProcsKnown
  <1>12. ServerOK(s)'
    BY <1>1, <1>2, <1>3, <1>4, <1>5, <1>10, <1>11 DEF ServerOK
  <1> QED
    BY <1>1, <1>6, <1>7, <1>8, <1>9, <1>11, <1>12, QuietStep

(* A client's call that makes the library of s send a message.             *)
ClientSends(s, h, body, r, op) ==
  /\ Free(s) /\ mpc[s] = "run" /\ todo[s] = {}
  /\ slot' = [slot EXCEPT ![r] = op]
  /\ todo' = [todo EXCEPT ![s] = @ \cup {op}]
  /\ pout' = [pout EXCEPT ![s] = Writes(s, h, body)]
  /\ UNCHANGED <<mpc, mout, cur, pipe, active, hub, dmreq, denied, known, faults>>
  /\ cl' \in [Client -> [f : 0 .. Fences, want : SUBSET Servers, call : {"none", "fence", "get", "exit"}]]
  /\ \A d \in Client : d[1] # s => cl'[d] = cl[d]
  /\ cl'[<<s, 1>>].f = cl[<<s, 1>>].f

LEMMA ClientSendsStep ==
  ASSUME LinkInv, NEW s \in Servers, NEW h \in Header, NEW body \in Body, h.full,
         Owner(h) = s, h.cmd \in {"FENCE_CONTRIB", "DMDX_REQUEST"}, s = 0 => h.dst = 0 \/ IsDmdx(Data(body)),
         NEW r \in Pipes, Reader(r) = s, NEW op \in Op, ClientSends(s, h, body, r, op),
         MessageOK(Route(s, h.dst), Message(h, body))', ServerOK(s)'
  PROVE  LinkInv'
  <1> DEFINE p == Route(s, h.dst)
             m == Message(h, body)
  <1>2. LinkType /\ StreamsOK /\ s \in Pipes
    BY Topology DEF LinkInv
  <1>3. /\ mout[s] = << >> /\ ~InBarrierNow(s) /\ ~InExchange(s) /\ ~Live(s)
        /\ s \notin Contributors /\ s \notin BarrierCounted
        /\ \A t \in Servers : \A q \in dmreq[t] : q.from # s
        /\ \A cmd : ~Has(s, cmd)
    BY WaitsForNothing DEF ClientSends
  <1>4. pout' \in [Servers -> Seq(Entry)] /\ StreamsOK' /\ Sent(p, s, m)
    <2>1. /\ Free(s) /\ pout' = [pout EXCEPT ![s] = Writes(s, h, body)]
          /\ UNCHANGED <<mpc, active, mout, cur, pipe>>
      BY DEF ClientSends
    <2>2. ~Live(Owner(h)) /\ mout[s] = << >>
      BY <1>3
    <2>3. /\ pout' \in [Servers -> Seq(Entry)] /\ StreamsOK'
          /\ Sent(Route(s, h.dst), Owner(h), Message(h, body))
      BY <2>1, <2>2, ProgressSends DEF LastChunk
    <2> QED
      BY <2>3
  <1>5. m.hdr = h
    BY DEF Message
  <1> HIDE DEF p, m
  <1>6. /\ todo' \in [Servers -> SUBSET Op] /\ \A v \in Servers \ {s} : todo'[v] = todo[v]
        /\ slot' \in [Pipes -> Op] /\ \A q \in Pipes : Reader(q) # s => slot'[q] = slot[q]
    BY <1>2 DEF ClientSends, LinkType
  <1>7. LinkType'
    BY <1>2, <1>4, <1>6 DEF LinkType, ClientSends, hub
  <1>8. Concerns(s)
    <2>1. ASSUME NEW v \in Servers \ {s} PROVE Unaffected(v)
      <3>1. \A i \in 1 .. Local : <<v, i>> \in Client /\ <<v, i>>[1] # s
        BY DEF Client
      <3> QED
        BY <1>6, <3>1, Topology DEF Unaffected, ClientSends
    <2> QED
      BY <1>4, <2>1 DEF Concerns, Sent
  <1>9. ~InBarrierNow(s)' /\ Exchanged(s)' = Exchanged(s)
    BY DEF ClientSends, InBarrierNow, InBarrier, Exchanged, ProcsKnown
  <1>10. \A cmd : Has(s, cmd)' <=> cmd = h.cmd
    BY <1>4, <1>5 DEF Sent
  <1>11. Completed(s)' = Completed(s)
    BY <1>3, <1>9, <1>10 DEF Completed
  <1>12. s \notin BarrierCounted'
    BY <1>9 DEF BarrierCounted
  <1>13. StepOf(s)
    <2>1. MessageOK(p, m)'
      BY DEF p, m
    <2>2. dmreq' = dmreq /\ denied' = denied
      BY DEF ClientSends
    <2> QED
      BY <1>3, <1>4, <1>8, <1>11, <2>1, <2>2 DEF StepOf, Sent
  <1>14. OneMessage' /\ UNCHANGED hub
    BY <1>4 DEF Sent, ClientSends
  <1> QED
    BY <1>3, <1>4, <1>7, <1>12, <1>13, <1>14, OneServer

LEMMA ClientFenceStep ==
  ASSUME LinkInv, Undisturbed, NEW c \in Client, ClientFence(c)
  PROVE  LinkInv'
  <1>0. PICK s \in Servers, i \in 1 .. Local : c = <<s, i>>
    BY DEF Client
  <1>a. PICK k \in Nat : k = cl[c].f + 1
    BY ServerLinkAssumption DEF LinkInv, LinkType
  <1> DEFINE all == \A j \in 1 .. Local : cl'[<<s, j>>].call = "fence"
  <1>1. /\ mpc[s] = "run" /\ Free(s)
        /\ cl[c].call = "none" /\ cl[c].want = {} /\ k <= Fences
        /\ cl' = [cl EXCEPT ![c].call = "fence"]
        /\ IF all THEN Start(s, Fence(k), 0, Hdr("FENCE_CONTRIB", s, 0, TRUE), Contribution(s, k))
                  ELSE UNCHANGED <<slot, todo, pout, faults>>
        /\ UNCHANGED <<mpc, mout, cur, pipe, active, hub, dmreq, denied, known>>
    BY <1>0, <1>a DEF library, ClientFence
  <1>2. LinkType /\ StreamsOK /\ ServerOK(s) /\ s \in Pipes
    BY Topology DEF LinkInv, ServersOK
  <1>3. todo[s] = {} /\ ProcsKnown(s)
    BY <1>0, <1>1, ClientCalls
  <1>4. /\ cl' \in [Client -> [f : 0 .. Fences, want : SUBSET Servers, call : {"none", "fence", "get", "exit"}]]
        /\ \A d \in Client : /\ cl'[d].f = cl[d].f /\ cl'[d].want = cl[d].want
                             /\ d # c => cl'[d] = cl[d]
    BY <1>1, <1>2 DEF LinkType
  <1>5. \A v \in Servers, j \in 1 .. Local : <<v, j>> \in Client /\ (<<v, j>> = c => v = s)
    BY <1>0 DEF Client
  <1>6. 1 \in 1 .. Local /\ <<s, 1>> \in Client
    BY ServerLinkAssumption DEF Client
  <1>7. ProcsKnown(s)' <=> ProcsKnown(s)
    BY <1>1 DEF ProcsKnown
  <1>8. CASE ~all
    <2>1. UNCHANGED <<slot, todo, pout, faults>>
      BY <1>1, <1>8
    <2>2. UNCHANGED <<mpc, link, active, slot, hub, dmreq, denied, known, todo, faults>>
      BY <1>1, <2>1 DEF link
    <2>3. LinkType'
      BY <1>2, <1>4, <2>2 DEF LinkType, link, hub
    <2>4. FramesOK' /\ \A q \in Pipes : Messages(q)' = Messages(q)
      BY <1>2, <2>2, SameStreams DEF StreamsOK
    <2>5. StreamsOK'
      <3>1. \A t \in Servers : WritersOK(t)'
        BY <1>2, <2>2, KeepsWriter DEF link, StreamsOK
      <3>2. BroadcastOK'
        BY <1>2, <2>2 DEF StreamsOK, BroadcastOK, link
      <3> QED
        BY <2>4, <3>1, <3>2 DEF StreamsOK
    <2>6. \A v \in Servers \ {s} : Unaffected(v)
      BY <1>4, <1>5, <2>2 DEF Unaffected
    <2>7. Same(s)
      BY <1>4, <1>6, <1>7, <2>2 DEF Same, InBarrierNow, InBarrier, Exchanged
    <2>8. ServerOK(s)'
      BY <1>1, <1>2, <1>3, <1>4, <1>5, <1>6, <1>7, <2>2 DEF ServerOK
    <2> QED
      BY <2>2, <2>3, <2>4, <2>5, <2>6, <2>7, <2>8, QuietStep
  <1>9. CASE all
    <2> DEFINE h == Hdr("FENCE_CONTRIB", s, 0, TRUE)
               body == Contribution(s, k)
    <2>1. /\ slot' = [slot EXCEPT ![s] = Fence(k)]
          /\ todo' = [todo EXCEPT ![s] = @ \cup {Fence(k)}]
          /\ pout' = [pout EXCEPT ![s] = Writes(s, h, body)]
          /\ faults' = faults
      <3>1. Record(s, 0) = s
        BY ServerLinkAssumption DEF Record, Servers
      <3> QED
        BY <1>1, <1>3, <1>9, <3>1 DEF Start
    <2>2. /\ k \in 1 .. Fences /\ k = cl[<<s, 1>>].f + 1 /\ k = cl'[<<s, 1>>].f + 1
          /\ cl'[<<s, 1>>].f < Fences /\ cl'[<<s, 1>>].f \in Nat
      <3>1. cl[c].f = cl[<<s, 1>>].f /\ cl[c].f \in 0 .. Fences
        BY <1>0, <1>2 DEF ServerOK, LinkType
      <3>2. cl'[<<s, 1>>].f = cl[<<s, 1>>].f
        BY <1>4, <1>6
      <3> QED
        BY <1>a, <1>1, <3>1, <3>2, ServerLinkAssumption
    <2>3. /\ h \in Header /\ h.full /\ Owner(h) = s /\ h.dst = 0 /\ h.src = s /\ h.cmd = "FENCE_CONTRIB"
          /\ Route(s, h.dst) = -s /\ body \in Body
      <3>1. body \in Part
        BY <2>2 DEF Contribution, Part
      <3> QED
        BY <3>1, Topology, ServerLinkAssumption DEF Hdr, Header, Owner, Route, Servers, Body
    <2>4. Reader(s) = s /\ Fence(k) \in Op
      <3>1. Fence(k) \in {Fence(j) : j \in 1 .. Fences}
        BY <2>2
      <3> QED
        BY <3>1, Topology DEF Op
    <2>5. ClientSends(s, h, body, s, Fence(k))
      <3>1. \A d \in Client : d[1] # s => cl'[d] = cl[d]
        BY <1>0, <1>4
      <3> QED
        BY <1>1, <1>3, <1>4, <1>6, <2>1, <3>1 DEF ClientSends
    <2>6. todo'[s] = {Fence(k)} /\ slot'[s] = Fence(k)
      BY <1>2, <1>3, <2>1 DEF LinkType
    <2>7. Exchanged(s)' = k /\ InExchange(s)'
      <3>1. Exchanged(s)' = k
        BY <1>3, <1>7, <2>2 DEF Exchanged
      <3>2. ExchangeOp(k) = Fence(k)
        BY <2>2 DEF ExchangeOp
      <3> QED
        BY <2>6, <3>1, <3>2 DEF InExchange
    <2>8. ServerOK(s)'
      <3>1. WaitsForFence(s)'
        BY <1>1, <1>9, <2>2, <2>6 DEF WaitsForFence
      <3> QED
        BY <1>1, <1>2, <1>4, <1>5, <1>6, <1>7, <3>1 DEF ServerOK
    <2>9. MessageOK(Route(s, h.dst), Message(h, body))'
      <3>1. s \notin Contributors'
        <4>1. s \notin Contributors
          BY <1>1, <1>3, WaitsForNothing
        <4> QED
          BY <1>1, <4>1 DEF Contributors, hub
      <3>2. Message(h, body) = [hdr |-> h, body |-> Contribution(s, k)]
        BY <2>3 DEF Message
      <3> HIDE DEF h
      <3> QED
        BY <2>3, <2>7, <3>1, <3>2 DEF MessageOK
    <2> HIDE DEF h, body
    <2> QED
      BY <1>2, <2>3, <2>4, <2>5, <2>8, <2>9, ClientSendsStep
  <1> QED
    BY <1>8, <1>9

LEMMA ClientGetStep ==
  ASSUME LinkInv, Undisturbed, NEW c \in Client, NEW t \in Servers, ClientGet(c, t)
  PROVE  LinkInv'
  <1>0. PICK s \in Servers, i \in 1 .. Local : c = <<s, i>>
    BY DEF Client
  <1> DEFINE h == Hdr("DMDX_REQUEST", s, t, TRUE)
             body == [what |-> "request", from |-> s, proc |-> <<t, 1>>]
             op == Dmdx(c, t)
             r == Record(s, t)
  <1>1. /\ mpc[s] = "run" /\ Free(s)
        /\ cl[c].call = "none" /\ t \in cl[c].want
        /\ UNCHANGED <<mpc, mout, cur, pipe, active, hub, dmreq, denied, known>>
    BY <1>0 DEF library, ClientGet
  <1>2. LinkType /\ StreamsOK /\ ServerOK(s) /\ s \in Pipes
    BY Topology DEF LinkInv, ServersOK
  <1>3. todo[s] = {} /\ ProcsKnown(s) /\ known[s] = Servers
    BY <1>0, <1>1, ClientCalls
  <1>4. Askers # {} /\ s # t /\ i = 1 /\ Local = 1 /\ c = <<s, 1>>
    <2>1. Askers # {} /\ s # t
      BY <1>0, <1>1, <1>2 DEF ServerOK
    <2>2. Local = 1
      BY <2>1 DEF Undisturbed
    <2> QED
      BY <1>0, <2>1, <2>2
  <1>5. /\ cl' = [cl EXCEPT ![c].call = "get"] /\ UNCHANGED faults
        /\ slot' = [slot EXCEPT ![r] = op]
        /\ todo' = [todo EXCEPT ![s] = @ \cup {op}]
        /\ pout' = [pout EXCEPT ![s] = Writes(s, h, body)]
    BY <1>3, <1>4 DEF ClientGet, Start
  <1>6. /\ cl' \in [Client -> [f : 0 .. Fences, want : SUBSET Servers, call : {"none", "fence", "get", "exit"}]]
        /\ \A d \in Client : /\ cl'[d].f = cl[d].f /\ cl'[d].want = cl[d].want
                             /\ d # c => cl'[d] = cl[d]
        /\ cl'[c].call = "get"
    BY <1>2, <1>5 DEF LinkType
  <1>7. \A v \in Servers, j \in 1 .. Local : <<v, j>> \in Client /\ (<<v, j>> = c => v = s)
    BY <1>0 DEF Client
  <1>8. 1 \in 1 .. Local /\ <<s, 1>> \in Client
    BY ServerLinkAssumption DEF Client
  <1>9. ProcsKnown(s)' <=> ProcsKnown(s)
    BY <1>1 DEF ProcsKnown
  <1>10. /\ h \in Header /\ h.full /\ Owner(h) = s /\ h.dst = t /\ h.src = s /\ h.cmd = "DMDX_REQUEST"
         /\ body \in Body /\ IsDmdx(Data(body)) /\ OnRoute(Route(s, t), h)
    <2>1. body \in Body
      BY <1>8 DEF Body, Client
    <2>2. OnRoute(Route(s, t), h)
      BY <1>4, ServerLinkAssumption DEF OnRoute, Route, Hdr, Servers
    <2> QED
      BY <2>1, <2>2 DEF Hdr, Header, Owner, IsDmdx, Data
  <1>11. r \in Pipes /\ Reader(r) = s /\ op \in Op
    BY ServerLinkAssumption DEF Record, Reader, Pipes, Servers, Op
  <1> HIDE DEF h, body, r, op
  <1>12. ClientSends(s, h, body, r, op)
    <2>1. \A d \in Client : d[1] # s => cl'[d] = cl[d]
      BY <1>0, <1>6
    <2> QED
      BY <1>1, <1>3, <1>5, <1>6, <1>8, <2>1 DEF ClientSends
  <1>13. todo'[s] = {op} /\ slot'[r] = op
    BY <1>2, <1>3, <1>5, <1>11 DEF LinkType
  <1>14. Asks(s, t)'
    BY <1>4, <1>13 DEF Asks, op
  <1>15. ServerOK(s)'
    <2>1. WaitsForData(s)'
      BY <1>1, <1>4, <1>6, <1>13 DEF WaitsForData, op, r
    <2> QED
      BY <1>1, <1>2, <1>3, <1>6, <1>7, <1>8, <1>9, <2>1 DEF ServerOK
  <1>16. MessageOK(Route(s, h.dst), Message(h, body))'
    <2>1. \A v \in Servers : \A q \in dmreq'[v] : q.from # s
      BY <1>1, <1>3, WaitsForNothing
    <2>2. Message(h, body) = [hdr |-> h, body |-> [what |-> "request", from |-> s, proc |-> <<t, 1>>]]
      BY <1>10 DEF Message, body
    <2> QED
      BY <1>10, <1>14, <2>1, <2>2 DEF MessageOK
  <1> QED
    BY <1>2, <1>10, <1>11, <1>12, <1>15, <1>16, ClientSendsStep

(* The first read() of a message with a payload moves nothing.             *)
LEMMA HeaderStep ==
  ASSUME LinkInv, NEW p \in Pipes, NEW h \in Header, h.full, NEW s \in Servers, s = Reader(p), pipe[p] # << >>,
         \A q \in Pipes : Unread(q)' = Unread(q), pout[s] = << >>,
         cur' = [cur EXCEPT ![s] = [what |-> "payload", pipe |-> p, hdr |-> h]],
         pipe' = [pipe EXCEPT ![p] = Tail(@)],
         UNCHANGED <<mpc, mout, pout, active, slot, hub, dmreq, denied, known, cl, todo, faults>>
  PROVE  LinkInv'
  <1>1. LinkType /\ FramesOK /\ (\A t \in Servers : WritersOK(t)) /\ BroadcastOK
    BY DEF LinkInv, StreamsOK
  <1>2. LinkType'
    <2>1. pipe' \in [Pipes -> Seq(Chunk)]
      <3>1. Tail(pipe[p]) \in Seq(Chunk)
        BY <1>1, HeadTailProperties DEF LinkType
      <3> QED
        BY <1>1, <3>1 DEF LinkType
    <2>2. cur' \in [Servers -> {Idle} \cup [what : {"payload"}, pipe : Pipes, hdr : Header]]
      BY <1>1 DEF LinkType
    <2> QED
      BY <1>1, <2>1, <2>2 DEF LinkType, hub
  <1>3. \A q \in Pipes : Stream(q)' = Stream(q)
    BY DEF Stream, Out
  <1>4. FramesOK' /\ \A q \in Pipes : Messages(q)' = Messages(q)
    BY <1>1, <1>3 DEF FramesOK, Messages
  <1>5. ASSUME NEW t \in Servers PROVE WritersOK(t)'
    <2>1. CASE t = s
      <3>1. cur'[s] = [what |-> "payload", pipe |-> p, hdr |-> h]
        BY <1>1 DEF LinkType
      <3>2. cur'[s].pipe = p /\ cur'[s].hdr = h
        BY <3>1
      <3> QED
        BY <1>1, <2>1, <3>2 DEF WritersOK
    <2>2. CASE t # s
      <3>1. cur'[t] = cur[t]
        BY <1>1, <2>2 DEF LinkType
      <3> QED
        BY <1>1, <3>1, KeepsWriter
    <2> QED
      BY <2>1, <2>2
  <1>6. BroadcastOK'
    BY <1>1 DEF BroadcastOK
  <1>7. MessagesOK' /\ OneMessage' /\ RequestsOK' /\ ServersOK' /\ CountersOK' /\ InStep'
    BY <1>4, Unmoved
  <1> QED
    BY <1>2, <1>4, <1>5, <1>6, <1>7 DEF LinkInv, StreamsOK

(* The end of a request for data: denied has grown if there is none.       *)
LEMMA RespondStep ==
  ASSUME LinkInv, Undisturbed, NEW s \in Servers, NEW r \in dmreq[s],
         NEW full \in BOOLEAN, NEW body, Respond(s, r, full, body),
         full => body = [what |-> "modex", proc |-> r.proc],
         ~full => body = NoBody /\ Denial("noData", r.from, r.proc) \in denied',
         denied \subseteq denied',
         denied' \subseteq [why : {"refused", "noData"}, from : Servers, proc : Client]
  PROVE  LinkInv'
  <1>1. PICK u \in Servers : u = r.from /\ Asks(u, s) /\ r = [from |-> u, proc |-> <<s, 1>>]
    <2>1. r \in [from : Servers, proc : Client] /\ Asks(r.from, s) /\ r.proc = <<s, 1>>
      BY DEF LinkInv, LinkType, RequestsOK
    <2> QED
      BY <2>1
  <1> DEFINE h == Hdr("DMDX_RESPONSE", s, u, full)
             m == Message(h, body)
  <1>2. /\ Free(s) /\ dmreq' = [dmreq EXCEPT ![s] = @ \ {r}]
        /\ pout' = [pout EXCEPT ![s] = Writes(s, h, body)]
        /\ UNCHANGED <<mpc, mout, cur, pipe, active, slot, hub, known, cl, todo, faults>>
    BY <1>1 DEF Respond
  <1>3. LinkType /\ \A v \in Servers : ServerOK(v)
    BY DEF LinkInv, ServersOK
  <1>4. u # s /\ ~InBarrierNow(u) /\ ~InExchange(u)
    BY <1>1, <1>3, Modes DEF Asks
  <1>5. ~Live(u)
    <2> SUFFICES ASSUME NEW q \in Pipes, NEW n \in Messages(q), Owner(n.hdr) = u PROVE FALSE
      BY DEF Live
    <2> QED
      BY <1>1, <1>4, LiveMode
  <1>6. mout[s] = << >>
    BY <1>1, Asked
  <1>7. /\ h \in Header /\ (h.full <=> full) /\ Owner(h) = u /\ h.dst = u /\ h.src = s /\ h.cmd = "DMDX_RESPONSE"
        /\ (h.full => body \in Body) /\ IsDmdx(LastChunk(h, body)) /\ OnRoute(Route(s, u), h)
        /\ m = [hdr |-> h, body |-> body]
    <2>1. full => body \in Body /\ body.what = "modex"
      BY <1>1, ServerLinkAssumption DEF Body, Client
    <2>2. OnRoute(Route(s, u), h)
      BY <1>4, ServerLinkAssumption DEF OnRoute, Route, Hdr, Servers
    <2> QED
      BY <2>1, <2>2 DEF Hdr, Header, Owner, IsDmdx, Data, Message, LastChunk
  <1> HIDE DEF h, m
  <1>8. pout' \in [Servers -> Seq(Entry)] /\ StreamsOK' /\ Sent(Route(s, u), u, m)
    <2>1. UNCHANGED <<mpc, active, mout, cur, pipe>>
      BY <1>2
    <2>2. ~Live(Owner(h))
      BY <1>5, <1>7
    <2>3. pout' \in [Servers -> Seq(Entry)] /\ StreamsOK' /\ Sent(Route(s, h.dst), Owner(h), Message(h, body))
      BY <1>2, <1>6, <1>7, <2>1, <2>2, ProgressSends
    <2> QED
      BY <1>7, <2>3 DEF m
  <1>9. /\ dmreq' \in [Servers -> SUBSET [from : Servers, proc : Client]]
        /\ \A t \in Servers : \A q \in dmreq'[t] : q \in dmreq[t] /\ q.from # u
    <2>1. \A t \in Servers : dmreq'[t] = IF t = s THEN dmreq[s] \ {r} ELSE dmreq[t]
      BY <1>2, <1>3 DEF LinkType
    <2>2. ASSUME NEW t \in Servers, NEW q \in dmreq[t], q.from = u PROVE t = s /\ q = r
      <3>1. Asks(u, t) /\ q.proc = <<t, 1>> /\ q \in [from : Servers, proc : Client]
        BY <1>3, <2>2 DEF LinkInv, RequestsOK, LinkType
      <3>2. Dmdx(<<u, 1>>, t) = Dmdx(<<u, 1>>, s)
        BY <1>1, <3>1 DEF Asks
      <3>3. t = s
        BY <3>2 DEF Dmdx
      <3> QED
        BY <1>1, <2>2, <3>1, <3>3
    <2> QED
      BY <1>2, <1>3, <2>1, <2>2 DEF LinkType
  <1>10. LinkType'
    BY <1>2, <1>3, <1>8, <1>9 DEF LinkType, hub
  <1>11. \A v \in Servers : Unaffected(v)
    BY <1>2 DEF Unaffected
  <1>12. \A v \in Servers : Same(v) /\ ServerOK(v)' /\ (\A t : Asks(v, t)' <=> Asks(v, t))
    BY <1>3, <1>11, UnaffectedSame
  <1>13. Completed(u)' = Completed(u)
    <2>1. ~Has(u, "FENCE_COMPLETE") /\ ~Has(u, "FENCE_COMPLETE")'
      BY <1>5, <1>7, <1>8 DEF Has, Live, Sent
    <2> QED
      BY <1>12, <2>1 DEF Completed, Same
  <1>14. u \notin BarrierCounted /\ u \notin BarrierCounted'
    BY <1>4, <1>12 DEF BarrierCounted, Same
  <1>15. MessageOK(Route(s, u), m)'
    <2>1. Asks(u, s)'
      BY <1>1, <1>12
    <2> QED
      BY <1>1, <1>7, <1>9, <2>1 DEF MessageOK
  <1>16. StepOf(u)
    <2>1. Concerns(u)
      BY <1>8, <1>11 DEF Concerns, Sent
    <2> QED
      BY <1>8, <1>9, <1>12, <1>13, <1>15, <2>1 DEF StepOf, Sent
  <1>17. OneMessage'
    BY <1>8 DEF Sent
  <1> QED
    BY <1>2, <1>8, <1>10, <1>12, <1>14, <1>16, <1>17, OneServer

LEMMA LibraryAnswersStep ==
  ASSUME LinkInv, Undisturbed, NEW s \in Servers, NEW r \in dmreq[s], LibraryAnswers(s, r)
  PROVE  LinkInv'
  <1> DEFINE body == [what |-> "modex", proc |-> r.proc]
  <1>1. Respond(s, r, TRUE, body) /\ denied' = denied
    BY DEF LibraryAnswers
  <1>2. denied \subseteq [why : {"refused", "noData"}, from : Servers, proc : Client]
    BY DEF LinkInv, LinkType
  <1> QED
    BY <1>1, <1>2, RespondStep

LEMMA LibraryFailsStep ==
  ASSUME LinkInv, Undisturbed, NEW s \in Servers, NEW r \in dmreq[s], LibraryFails(s, r)
  PROVE  LinkInv'
  <1>1. Respond(s, r, FALSE, NoBody) /\ denied' = denied \cup {Denial("noData", r.from, r.proc)}
    BY DEF LibraryFails
  <1>2. denied \subseteq [why : {"refused", "noData"}, from : Servers, proc : Client]
        /\ r \in [from : Servers, proc : Client]
    BY DEF LinkInv, LinkType
  <1>3. denied' \subseteq [why : {"refused", "noData"}, from : Servers, proc : Client]
    BY <1>1, <1>2 DEF Denial
  <1> QED
    BY <1>1, <1>3, RespondStep

-----------------------------------------------------------------------------
(* The handlers of server_read_cb, each with the message m it takes from   *)
(* pipe p.                                                                 *)

Handling(p, s, h, body, m) ==
  /\ p \in Pipes /\ s = Reader(p) /\ h \in Header /\ (h.full => body \in Body) /\ pout[s] = <<>>
  /\ m = Message(h, body) /\ m \in Messages(p) /\ Taken(p, m)
  /\ UNCHANGED <<mpc, mout, slot>>

(* The owner of m has no other message under way, and has written it all.  *)
LEMMA Handled ==
  ASSUME LinkInv, NEW p, NEW s, NEW h, NEW body, NEW m, NEW u, u = Owner(h), Handling(p, s, h, body, m)
  PROVE  /\ s \in Servers /\ u \in Servers /\ h.src \in Servers /\ h.dst \in Servers /\ m.hdr = h
         /\ MessageOK(p, m) /\ m.body = (IF h.full THEN body ELSE NoBody)
         /\ mout[u] = << >> /\ \A cmd : Has(u, cmd) <=> cmd = h.cmd
         /\ pipe' \in [Pipes -> Seq(Chunk)]
         /\ cur' \in [Servers -> {Idle} \cup [what : {"payload"}, pipe : Pipes, hdr : Header]]
         /\ cur'[s] = Idle /\ \A t \in Servers \ {s} : cur'[t] = cur[t]
  <1>1. LinkType /\ s \in Servers /\ p \in Pipes /\ m \in Messages(p) /\ Taken(p, m) /\ m = Message(h, body)
    BY Topology DEF LinkInv, Handling
  <1>2. m.hdr = h /\ m.body = (IF h.full THEN body ELSE NoBody)
    BY <1>1 DEF Message
  <1>3. MessageOK(p, m)
    BY <1>1 DEF LinkInv, MessagesOK
  <1>4. u \in Servers /\ h.src \in Servers /\ h.dst \in Servers
    BY <1>1, <1>2, OwnerIsServer DEF LinkInv
  <1>5. \A q \in Pipes : \A n \in Messages(q) : Owner(n.hdr) = u => q = p /\ n = m
    BY <1>1, <1>2 DEF LinkInv, OneMessage
  <1>6. mout[u] = << >>
    <2> SUFFICES ASSUME mout[u] # << >> PROVE FALSE
      OBVIOUS
    <2>1. PICK n \in Messages(-u) : Owner(n.hdr) = u /\ \A q \in Pipes : \A k : Taken(q, k) => n # k \/ q # -u
      BY <1>4, MainPending
    <2>2. -u \in Pipes
      BY <1>4, Topology
    <2> QED
      BY <1>1, <1>5, <2>1, <2>2
  <1>7. \A cmd : Has(u, cmd) <=> cmd = h.cmd
    BY <1>1, <1>2, <1>5 DEF Has
  <1>8. pipe' \in [Pipes -> Seq(Chunk)]
    <2>1. pipe[p] # << >> /\ pipe' = [pipe EXCEPT ![p] = Tail(@)]
      BY <1>1 DEF Taken
    <2>2. Tail(pipe[p]) \in Seq(Chunk)
      BY <1>1, <2>1, HeadTailProperties DEF LinkType
    <2> QED
      BY <1>1, <2>1, <2>2 DEF LinkType
  <1>9. /\ cur' \in [Servers -> {Idle} \cup [what : {"payload"}, pipe : Pipes, hdr : Header]]
        /\ cur'[s] = Idle /\ \A t \in Servers \ {s} : cur'[t] = cur[t]
    <2>1. cur' = [cur EXCEPT ![s] = Idle]
      BY <1>1 DEF Taken, Handling
    <2> QED
      BY <1>1, <2>1 DEF LinkType
  <1> QED
    BY <1>1, <1>2, <1>3, <1>4, <1>6, <1>7, <1>8, <1>9

(* A handler that writes nothing.                                          *)
LEMMA HandledQuietly ==
  ASSUME LinkInv, NEW p, NEW s, NEW h, NEW body, NEW m, NEW u, u = Owner(h), Handling(p, s, h, body, m),
         UNCHANGED pout, \A t \in Servers : active'[t] = active[t] \/ t = u
  PROVE  StreamsOK' /\ OneMessage' /\ Gone(u)
  <1>1. /\ s \in Servers /\ m.hdr = h /\ mout[u] = << >>
        /\ cur'[s] = Idle /\ \A t \in Servers \ {s} : cur'[t] = cur[t]
    BY Handled
  <1>2. Gone(u)
    <2>1. \A t \in Servers : Out(t)' = Out(t)
      BY DEF Handling, Out
    <2>2. p \in Pipes /\ m \in Messages(p) /\ Taken(p, m)
      BY DEF Handling
    <2> QED
      BY <1>1, <2>1, <2>2, TakesOne
  <1>3. ASSUME NEW t \in Servers PROVE WritersOK(t)'
    <2>1. WritersOK(t) /\ mout' = mout /\ mpc' = mpc /\ pout' = pout
      BY DEF LinkInv, StreamsOK, Handling
    <2>2. cur'[t] = cur[t] \/ cur'[t] = Idle
      BY <1>1
    <2>3. active'[t] = active[t] \/ mout[t] = << >>
      BY <1>1
    <2> QED
      BY <2>1, <2>2, <2>3 DEF WritersOK
  <1>4. BroadcastOK'
    BY DEF LinkInv, StreamsOK, BroadcastOK
  <1> QED
    BY <1>2, <1>3, <1>4 DEF StreamsOK, Gone

LEMMA BarrierResponseStep ==
  ASSUME LinkInv, NEW p, NEW s, NEW h, NEW body, NEW m, Handling(p, s, h, body, m),
         h.cmd = "BARRIER_RESPONSE", BarrierResponse(p)
  PROVE  LinkInv'
  <1> DEFINE u == h.dst
  <1>0. u = Owner(h)
    BY DEF Owner
  <1>1. /\ s \in Servers /\ u \in Servers /\ m.hdr = h /\ MessageOK(p, m)
        /\ \A cmd : Has(u, cmd) <=> cmd = h.cmd
        /\ pipe' \in [Pipes -> Seq(Chunk)]
        /\ cur' \in [Servers -> {Idle} \cup [what : {"payload"}, pipe : Pipes, hdr : Header]]
    BY <1>0, Handled
  <1>2. /\ active' = [active EXCEPT ![p] = FALSE]
        /\ UNCHANGED <<mpc, mout, slot, pout, hub, dmreq, denied, known, cl, todo, faults>>
    BY DEF library, BarrierResponse, Handling
  <1>3. p = u /\ InBarrierNow(u) /\ u \in Pipes
    BY <1>1, Topology DEF MessageOK
  <1>4. LinkType /\ (\A v \in Servers : ServerOK(v))
    BY DEF LinkInv, ServersOK
  <1>5. /\ active' \in [Pipes -> BOOLEAN] /\ ~active'[u] /\ \A t \in Servers \ {u} : active'[t] = active[t]
    BY <1>2, <1>3, <1>4, Topology DEF LinkType
  <1>6. LinkType'
    BY <1>1, <1>2, <1>4, <1>5 DEF LinkType, hub
  <1>7. StreamsOK' /\ OneMessage' /\ Gone(u)
    BY <1>0, <1>2, <1>5, HandledQuietly
  <1>8. todo[u] = {} /\ ~InExchange(u) /\ \A t : ~Asks(u, t)
    BY <1>1, <1>3, <1>4, Modes
  <1>9. ProcsKnown(u)' <=> ProcsKnown(u)
    BY <1>2, <1>3 DEF ProcsKnown, InBarrierNow, InBarrier
  <1>10. ServerOK(u)'
    <2>1. ClientsIdle(u)' <=> ClientsIdle(u)
      BY <1>2 DEF ClientsIdle
    <2> QED
      BY <1>1, <1>2, <1>4, <1>8, <1>9, <2>1 DEF ServerOK
  <1>11. Completed(u)' = Completed(u)
    <2>1. ~Has(u, "FENCE_COMPLETE") /\ ~Has(u, "FENCE_COMPLETE")'
      BY <1>1, <1>7 DEF Gone
    <2> QED
      BY <1>2, <1>9, <2>1 DEF Completed, Exchanged
  <1>12. u \notin BarrierCounted /\ u \notin BarrierCounted'
    BY <1>1, <1>5 DEF BarrierCounted, InBarrierNow
  <1>13. Concerns(u)
    BY <1>2, <1>5, <1>7 DEF Concerns, Unaffected, Gone
  <1>14. \A t \in Servers : \A r \in dmreq[t] : r.from # u
    BY <1>8 DEF LinkInv, RequestsOK
  <1>15. StepOf(u)
    BY <1>2, <1>7, <1>10, <1>11, <1>13, <1>14 DEF StepOf, Gone
  <1>16. u \notin Contributors
    BY <1>1, <1>8 DEF LinkInv, CountersOK, Contributors
  <1> QED
    BY <1>1, <1>2, <1>6, <1>7, <1>12, <1>15, <1>16, OneServer

LEMMA DmdxRequestStep ==
  ASSUME LinkInv, NEW p, NEW s, NEW h, NEW body, NEW m, Handling(p, s, h, body, m),
         h.cmd = "DMDX_REQUEST", h.dst = s, DmdxRequest(s, body)
  PROVE  LinkInv'
  <1> DEFINE u == h.src
             r == [from |-> u, proc |-> <<s, 1>>]
  <1>0. u = Owner(h) /\ h.full
    BY DEF Owner, Handling, Header
  <1>1. /\ s \in Servers /\ u \in Servers /\ m.hdr = h /\ MessageOK(p, m) /\ m.body = body
        /\ \A cmd : Has(u, cmd) <=> cmd = h.cmd
        /\ pipe' \in [Pipes -> Seq(Chunk)]
        /\ cur' \in [Servers -> {Idle} \cup [what : {"payload"}, pipe : Pipes, hdr : Header]]
    BY <1>0, Handled
  <1>2. /\ Asks(u, s) /\ body = [what |-> "request", from |-> u, proc |-> <<s, 1>>]
        /\ \A t \in Servers : \A q \in dmreq[t] : q.from # u
    BY <1>1 DEF MessageOK
  <1>3. /\ dmreq' = [dmreq EXCEPT ![s] = @ \cup {r}] \/ dmreq' = dmreq
        /\ denied' = denied \/ denied' = denied \cup {Denial("refused", u, <<s, 1>>)}
        /\ UNCHANGED <<mpc, mout, slot, active, pout, hub, known, cl, todo, faults>>
    BY <1>2 DEF DmdxRequest, Handling
  <1>4. LinkType /\ (\A v \in Servers : ServerOK(v))
    BY DEF LinkInv, ServersOK
  <1>5. /\ dmreq' \in [Servers -> SUBSET [from : Servers, proc : Client]]
        /\ \A t \in Servers : \A q \in dmreq'[t] : q \in dmreq[t] \/ (t = s /\ q = r)
        /\ denied' \subseteq [why : {"refused", "noData"}, from : Servers, proc : Client]
        /\ denied \subseteq denied'
    <2>1. r \in [from : Servers, proc : Client]
      BY <1>1, ServerLinkAssumption DEF Client
    <2>2. Denial("refused", u, <<s, 1>>) \in [why : {"refused", "noData"}, from : Servers, proc : Client]
      BY <1>1, ServerLinkAssumption DEF Client, Denial
    <2>3. CASE dmreq' = dmreq
      BY <1>3, <1>4, <2>2, <2>3 DEF LinkType
    <2>4. CASE dmreq' = [dmreq EXCEPT ![s] = @ \cup {r}]
      BY <1>1, <1>3, <1>4, <2>1, <2>2, <2>4 DEF LinkType
    <2> QED
      BY <1>3, <2>3, <2>4
  <1>6. LinkType'
    BY <1>1, <1>3, <1>4, <1>5 DEF LinkType, hub
  <1>7. StreamsOK' /\ OneMessage' /\ Gone(u)
    BY <1>0, <1>3, HandledQuietly
  <1>8. \A v \in Servers : Unaffected(v)
    BY <1>3 DEF Unaffected
  <1>9. \A v \in Servers : Same(v) /\ ServerOK(v)' /\ (\A t : Asks(v, t)' <=> Asks(v, t))
    BY <1>4, <1>8, UnaffectedSame
  <1>10. Completed(u)' = Completed(u)
    <2>1. ~Has(u, "FENCE_COMPLETE") /\ ~Has(u, "FENCE_COMPLETE")'
      BY <1>1, <1>7 DEF Gone
    <2> QED
      BY <1>1, <1>9, <2>1 DEF Completed, Same
  <1>11. u \notin BarrierCounted /\ u \notin BarrierCounted'
    <2>1. ~InBarrierNow(u)
      BY <1>1, <1>2, <1>4, Modes
    <2> QED
      BY <1>1, <1>9, <2>1 DEF BarrierCounted, Same
  <1>12. Concerns(u)
    BY <1>7, <1>8 DEF Concerns, Gone
  <1>13. StepOf(u)
    <2>1. ASSUME NEW t \in Servers, NEW q \in dmreq'[t]
          PROVE  IF q.from = u THEN Asks(u, t)' /\ q.proc = <<t, 1>> ELSE q \in dmreq[t]
      <3>1. CASE q \in dmreq[t]
        BY <1>2, <3>1
      <3>2. CASE t = s /\ q = r
        BY <1>1, <1>2, <1>9, <3>2
      <3> QED
        BY <1>5, <3>1, <3>2
    <2> QED
      BY <1>1, <1>5, <1>7, <1>9, <1>10, <1>12, <2>1 DEF StepOf, Gone
  <1> QED
    BY <1>1, <1>3, <1>6, <1>7, <1>9, <1>11, <1>13, OneServer

(* The hub passes a request for data, or the data, on to another server.   *)
LEMMA ForwardStep ==
  ASSUME LinkInv, Undisturbed, NEW p, NEW s, NEW h, NEW body, NEW m, Handling(p, s, h, body, m),
         h.dst # s, pout' = [pout EXCEPT ![s] = Writes(s, h, body)],
         UNCHANGED <<active, hub, dmreq, denied, known, cl, todo, faults>>
  PROVE  LinkInv'
  <1> DEFINE u == Owner(h)
             d == h.dst
             X == Writes(s, h, body)
  <1>1. /\ s \in Servers /\ u \in Servers /\ h.src \in Servers /\ d \in Servers
        /\ m.hdr = h /\ MessageOK(p, m) /\ m.body = (IF h.full THEN body ELSE NoBody)
        /\ \A cmd : Has(u, cmd) <=> cmd = h.cmd
        /\ pipe' \in [Pipes -> Seq(Chunk)]
        /\ cur' \in [Servers -> {Idle} \cup [what : {"payload"}, pipe : Pipes, hdr : Header]]
        /\ cur'[s] = Idle /\ \A t \in Servers \ {s} : cur'[t] = cur[t]
    BY Handled
  <1>2. /\ p \in Pipes /\ s = Reader(p) /\ h \in Header /\ (h.full => body \in Body) /\ pout[s] = << >>
        /\ m \in Messages(p) /\ Taken(p, m) /\ UNCHANGED <<mpc, mout, slot>> /\ m = Message(h, body)
    BY DEF Handling
  <1>3. h.cmd \in {"DMDX_REQUEST", "DMDX_RESPONSE"} /\ OnRoute(p, h)
    <2>1. p = d \/ p = 0 => Reader(p) = p
      BY ServerLinkAssumption, <1>1 DEF Reader, Servers
    <2>2. d = 0 /\ p = -h.src => Reader(p) = d
      BY ServerLinkAssumption, <1>1 DEF Reader, Servers
    <2>3. h.cmd \in {"BARRIER_REQUEST", "BARRIER_RESPONSE", "FENCE_CONTRIB",
                     "FENCE_COMPLETE", "DMDX_REQUEST", "DMDX_RESPONSE"}
      BY <1>2 DEF Header
    <2> QED
      BY <1>1, <1>2, <2>1, <2>2, <2>3 DEF MessageOK
  <1>4. s = 0 /\ d # 0 /\ Route(s, d) = d /\ d \in Pipes
    <2>1. p # d
      BY <1>1, <1>2, Topology
    <2>2. p = -h.src /\ p # 0
      BY <1>3, <2>1 DEF OnRoute
    <2>3. s = 0
      BY <1>1, <1>2, <2>2 DEF Reader, Servers
    <2> QED
      BY <1>1, <2>3, Topology DEF Route
  <1>5. IsDmdx(LastChunk(h, body)) /\ \E t \in Servers : Asks(u, t)
    <2>1. h.full => body.what \in {"request", "modex"}
      BY <1>1, <1>3 DEF MessageOK
    <2>2. h.chunk = "hdr"
      BY <1>2 DEF Header
    <2> QED
      BY <1>1, <1>2, <1>3, <2>1, <2>2, LiveMode DEF IsDmdx, Data, LastChunk
  <1>6. mout[s] = << >>
    BY <1>1, <1>5, Asked
  <1>7. LinkType /\ (\A v \in Servers : ServerOK(v) /\ WritersOK(v)) /\ X \in Seq(Entry)
    <2>1. IsWhole(X, Route(s, h.dst), m)
      BY <1>2, <1>4, WritesMessage
    <2> QED
      BY <2>1 DEF LinkInv, ServersOK, StreamsOK, IsWhole
  <1>8. /\ pout' \in [Servers -> Seq(Entry)] /\ pout'[s] = X
        /\ \A t \in Servers \ {s} : pout'[t] = pout[t]
    BY <1>1, <1>7 DEF LinkType
  <1>9. OutGrows(s, X)
    <2>1. Out(s) = << >> \o << >> /\ Out(s)' = << >> \o X
      BY <1>2, <1>6, <1>8 DEF Out
    <2>2. Out(s)' = Out(s) \o X
      <3>1. << >> \in Seq(Entry)
        OBVIOUS
      <3> QED
        BY <1>7, <2>1, <3>1, ConcatEmptySeq
    <2>3. \A t \in Servers \ {s} : Out(t)' = Out(t)
      BY <1>2, <1>8 DEF Out
    <2> QED
      BY <2>2, <2>3 DEF OutGrows
  <1>10. Sent(d, u, m)
    <2>1. Sent(Route(s, h.dst), Owner(h), Message(h, body))
      BY <1>1, <1>2, <1>9, ForwardsOne
    <2> QED
      BY <1>2, <1>4, <2>1
  <1>11. \A i \in DOMAIN X : X[i].pipe = d
    <2>1. IsWhole(X, d, m)
      BY <1>2, <1>4, WritesMessage
    <2> QED
      BY <2>1 DEF IsWhole
  <1>12. X[Len(X)].chunk = LastChunk(h, body)
    BY <1>2, LastOfWrites
  <1> HIDE DEF X, u
  <1>13. StreamsOK'
    <2>1. ASSUME NEW t \in Servers PROVE WritersOK(t)'
      <3>1. CASE t = s
        <4>1. \A i \in DOMAIN pout'[s] : Writer(pout'[s][i].pipe) = s
          BY <1>1, <1>4, <1>8, <1>11, Topology
        <4>2. mout'[s] = << >> /\ cur'[s] = Idle
          BY <1>1, <1>2, <1>6
        <4> QED
          BY <3>1, <4>1, <4>2 DEF WritersOK
      <3>2. CASE t # s
        BY <1>1, <1>2, <1>7, <1>8, <3>2, KeepsWriter
      <3> QED
        BY <3>1, <3>2
    <2>2. BroadcastOK'
      BY <1>4, <1>5, <1>8, <1>12 DEF BroadcastOK
    <2> QED
      BY <1>10, <2>1, <2>2 DEF StreamsOK, Sent
  <1>14. LinkType'
    BY <1>1, <1>2, <1>7, <1>8 DEF LinkType, hub
  <1>15. \A v \in Servers : Unaffected(v)
    BY <1>2 DEF Unaffected
  <1>16. /\ \A v \in Servers : Same(v) /\ ServerOK(v)' /\ (\A t : Asks(v, t)' <=> Asks(v, t))
         /\ ~InBarrierNow(u) /\ u \in Servers
    BY <1>1, <1>5, <1>7, <1>15, UnaffectedSame, Modes
  <1>17. Completed(u)' = Completed(u)
    <2>1. ~Has(u, "FENCE_COMPLETE") /\ ~Has(u, "FENCE_COMPLETE")'
      BY <1>1, <1>3, <1>10 DEF Sent
    <2> QED
      BY <1>16, <2>1 DEF Completed, Same
  <1>18. u \notin BarrierCounted /\ u \notin BarrierCounted'
    BY <1>16 DEF BarrierCounted, Same
  <1>19. MessageOK(d, m)'
    <2>1. OnRoute(d, h)
      BY <1>4 DEF OnRoute
    <2>2. Asks(h.src, h.dst)' <=> Asks(h.src, h.dst)
      BY <1>1, <1>16
    <2>3. Asks(h.dst, h.src)' <=> Asks(h.dst, h.src)
      BY <1>1, <1>16
    <2> QED
      BY <1>1, <1>2, <1>3, <2>1, <2>2, <2>3 DEF MessageOK
  <1>20. StepOf(u)
    <2>1. Concerns(u)
      BY <1>10, <1>15 DEF Concerns, Sent
    <2>2. \A t \in Servers : \A q \in dmreq'[t] :
             IF q.from = u THEN Asks(u, t)' /\ q.proc = <<t, 1>> ELSE q \in dmreq[t]
      BY <1>16 DEF LinkInv, RequestsOK
    <2> QED
      BY <1>10, <1>16, <1>17, <1>19, <2>1, <2>2 DEF StepOf, Sent
  <1>21. OneMessage'
    BY <1>10 DEF Sent
  <1> QED
    BY <1>13, <1>14, <1>16, <1>18, <1>20, <1>21, OneServer

(* Counting the servers.                                                   *)
LEMMA CountServers ==
  ASSUME NEW S \in SUBSET Servers, NEW u \in Servers, u \notin S
  PROVE  /\ Cardinality(S) \in Nat /\ Cardinality(S \cup {u}) = Cardinality(S) + 1
         /\ Cardinality(S) + 1 = N => S = Servers \ {u}
  <1>1. IsFiniteSet(Servers) /\ Cardinality(Servers) = N
    <2>1. N - 1 \in Int /\ 0 \in Int /\ ~(0 > N - 1) /\ N - 1 - 0 + 1 = N
      BY ServerLinkAssumption
    <2> QED
      BY <2>1, FS_Interval DEF Servers
  <1>2. IsFiniteSet(S)
    BY <1>1, FS_Subset
  <1>3. Cardinality(S) \in Nat /\ Cardinality(S \cup {u}) = Cardinality(S) + 1
    BY <1>2, FS_CardinalityType, FS_AddElement
  <1>4. ASSUME Cardinality(S) + 1 = N PROVE S = Servers \ {u}
    <2>1. S \cup {u} \in SUBSET Servers /\ Cardinality(S \cup {u}) = Cardinality(Servers)
      BY <1>1, <1>3, <1>4
    <2>2. S \cup {u} = Servers
      BY <1>1, <2>1, FS_Subset
    <2> QED
      BY <2>2
  <1> QED
    BY <1>3, <1>4

(* A request or contribution that is counted, and not the last one.        *)
LEMMA BarrierCountedStep ==
  ASSUME LinkInv, NEW p, NEW s, NEW h, NEW body, NEW m, Handling(p, s, h, body, m),
         h.cmd = "BARRIER_REQUEST", ~IsLast(bcnt), BarrierRequest(s)
  PROVE  LinkInv'
  <1> DEFINE u == h.src
  <1>0. u = Owner(h)
    BY DEF Owner
  <1>1. /\ s \in Servers /\ u \in Servers /\ m.hdr = h /\ MessageOK(p, m)
        /\ \A cmd : Has(u, cmd) <=> cmd = h.cmd
        /\ pipe' \in [Pipes -> Seq(Chunk)]
        /\ cur' \in [Servers -> {Idle} \cup [what : {"payload"}, pipe : Pipes, hdr : Header]]
    BY <1>0, Handled
  <1>2. /\ bcnt' = bcnt + 1
        /\ UNCHANGED <<mpc, mout, slot, active, pout, parts, ccnt, dmreq, denied, known, cl, todo, faults>>
    BY DEF library, BarrierRequest, Handling
  <1>3. InBarrierNow(u)
    BY <1>1 DEF MessageOK
  <1>4. LinkType /\ (\A v \in Servers : ServerOK(v)) /\ CountersOK
    BY DEF LinkInv, ServersOK
  <1>5. LinkType'
    <2>1. bcnt + 1 \in 0 .. N - 1
      BY <1>4, ServerLinkAssumption DEF LinkType, IsLast
    <2> QED
      BY <1>1, <1>2, <1>4, <2>1 DEF LinkType
  <1>6. StreamsOK' /\ OneMessage' /\ Gone(u)
    BY <1>0, <1>2, HandledQuietly
  <1>7. ~InExchange(u) /\ \A t : ~Asks(u, t)
    BY <1>1, <1>3, <1>4, Modes
  <1>8. \A v \in Servers : Unaffected(v)
    BY <1>2 DEF Unaffected
  <1>9. \A v \in Servers : Same(v) /\ ServerOK(v)'
    BY <1>4, <1>8, UnaffectedSame
  <1>10. Completed(u)' = Completed(u)
    <2>1. ~Has(u, "FENCE_COMPLETE") /\ ~Has(u, "FENCE_COMPLETE")'
      BY <1>1, <1>6 DEF Gone
    <2> QED
      BY <1>1, <1>9, <2>1 DEF Completed, Same
  <1>11. Concerns(u)
    BY <1>6, <1>8 DEF Concerns, Gone
  <1>12. BarrierCounted' = BarrierCounted \cup {u} /\ u \notin BarrierCounted
    <2>1. u \in BarrierCounted' /\ u \notin BarrierCounted
      BY <1>1, <1>3, <1>6, <1>9 DEF BarrierCounted, Gone, Same
    <2>2. \A v \in Servers \ {u} : v \in BarrierCounted' <=> v \in BarrierCounted
      BY <1>9, <1>11, KeepsCounts DEF Concerns
    <2>3. BarrierCounted' \subseteq Servers /\ BarrierCounted \subseteq Servers
      BY DEF BarrierCounted
    <2> QED
      BY <1>1, <2>1, <2>2, <2>3
  <1>13. CountersOK' /\ Contributors' = Contributors
    <2>1. Contributors' = Contributors
      BY <1>2 DEF Contributors
    <2>2. Cardinality(BarrierCounted') = Cardinality(BarrierCounted) + 1
      <3>1. BarrierCounted \in SUBSET Servers
        BY DEF BarrierCounted
      <3> QED
        BY <1>1, <1>12, <3>1, CountServers
    <2>3. ASSUME NEW i \in DOMAIN parts', NEW v \in Servers, parts'[i].src = v
          PROVE  InExchange(v)' /\ parts'[i] = Contribution(v, Exchanged(v)')
      <3>1. i \in DOMAIN parts /\ parts'[i] = parts[i] /\ parts[i].src = v
        BY <1>2, <2>3
      <3>2. InExchange(v) /\ parts[i] = Contribution(v, Exchanged(v))
        BY <1>4, <3>1 DEF CountersOK
      <3> QED
        BY <1>9, <3>1, <3>2 DEF Same, InExchange
    <2> QED
      BY <1>2, <1>4, <2>1, <2>2, <2>3 DEF CountersOK
  <1>14. StepOf(u)
    <2>1. \A t \in Servers : \A r \in dmreq[t] : r.from # u
      BY <1>7 DEF LinkInv, RequestsOK
    <2> QED
      BY <1>1, <1>2, <1>6, <1>9, <1>10, <1>11, <2>1 DEF StepOf, Gone
  <1> QED
    BY <1>1, <1>5, <1>6, <1>13, <1>14, Elsewhere DEF LinkInv

LEMMA ContributorsAreServers ==
  ASSUME parts \in Seq(Part)
  PROVE  Contributors \in SUBSET Servers
  <1> SUFFICES ASSUME NEW i \in DOMAIN parts PROVE parts[i].src \in Servers
    BY DEF Contributors
  <1>1. parts[i] \in Part
    BY ElementOfSeq, LenProperties
  <1> QED
    BY <1>1 DEF Part

LEMMA Contributed ==
  ASSUME NEW b \in Part, parts \in Seq(Part), parts' = Append(parts, b)
  PROVE  /\ parts' \in Seq(Part) /\ Len(parts') = Len(parts) + 1
         /\ Contributors' = Contributors \cup {b.src}
         /\ \A i \in DOMAIN parts' : (i \in DOMAIN parts /\ parts'[i] = parts[i]) \/ parts'[i] = b
  <1>1. /\ parts' \in Seq(Part) /\ Len(parts') = Len(parts) + 1 /\ Len(parts) \in Nat
        /\ DOMAIN parts' = 1 .. Len(parts) + 1 /\ DOMAIN parts = 1 .. Len(parts)
        /\ parts'[Len(parts) + 1] = b /\ \A i \in 1 .. Len(parts) : parts'[i] = parts[i]
    BY AppendProperties, LenProperties
  <1>2. \A i \in DOMAIN parts' : (i \in DOMAIN parts /\ parts'[i] = parts[i]) \/ parts'[i] = b
    BY <1>1
  <1>3. b.src \in Contributors' /\ \A i \in DOMAIN parts : parts[i].src \in Contributors'
    BY <1>1 DEF Contributors
  <1>4. Contributors \subseteq Contributors' /\ Contributors' \subseteq Contributors \cup {b.src}
    BY <1>2, <1>3 DEF Contributors
  <1> QED
    BY <1>1, <1>2, <1>3, <1>4

LEMMA ContributionCountedStep ==
  ASSUME LinkInv, NEW p, NEW s, NEW h, NEW body, NEW m, Handling(p, s, h, body, m),
         h.cmd = "FENCE_CONTRIB", ~IsLast(ccnt), FenceContrib(s, body)
  PROVE  LinkInv'
  <1> DEFINE u == h.src
  <1>0. u = Owner(h) /\ h.full
    BY DEF Owner, Handling, Header
  <1>1. /\ s \in Servers /\ u \in Servers /\ m.hdr = h /\ MessageOK(p, m) /\ m.body = body
        /\ \A cmd : Has(u, cmd) <=> cmd = h.cmd
        /\ pipe' \in [Pipes -> Seq(Chunk)]
        /\ cur' \in [Servers -> {Idle} \cup [what : {"payload"}, pipe : Pipes, hdr : Header]]
    BY <1>0, Handled
  <1>2. /\ ccnt' = ccnt + 1 /\ parts' = Append(parts, body)
        /\ UNCHANGED <<mpc, mout, slot, active, pout, bcnt, dmreq, denied, known, cl, todo, faults>>
    BY DEF library, FenceContrib, Handling
  <1>3. InExchange(u) /\ u \notin Contributors /\ body = Contribution(u, Exchanged(u))
    BY <1>1 DEF MessageOK
  <1>4. LinkType /\ (\A v \in Servers : ServerOK(v)) /\ CountersOK
    BY DEF LinkInv, ServersOK
  <1>5. body \in Part /\ body.src = u
    <2>1. body \in Body /\ body.what = "part" /\ body.src = u
      BY <1>0, <1>3 DEF Handling, Contribution
    <2> QED
      BY <2>1 DEF Body
  <1>6. /\ parts' \in Seq(Part) /\ Len(parts') = Len(parts) + 1
        /\ Contributors' = Contributors \cup {u}
        /\ \A i \in DOMAIN parts' : (i \in DOMAIN parts /\ parts'[i] = parts[i]) \/ parts'[i] = body
    BY <1>2, <1>4, <1>5, Contributed DEF LinkType
  <1>7. LinkType'
    <2>1. ccnt + 1 \in 0 .. N - 1
      BY <1>4, ServerLinkAssumption DEF LinkType, IsLast
    <2> QED
      BY <1>1, <1>2, <1>4, <1>6, <2>1 DEF LinkType
  <1>8. StreamsOK' /\ OneMessage' /\ Gone(u)
    BY <1>0, <1>2, HandledQuietly
  <1>9. ~InBarrierNow(u) /\ \A t : ~Asks(u, t)
    BY <1>1, <1>3, <1>4, Modes
  <1>10. \A v \in Servers : Unaffected(v)
    BY <1>2 DEF Unaffected
  <1>11. \A v \in Servers : Same(v) /\ ServerOK(v)'
    BY <1>4, <1>10, UnaffectedSame
  <1>12. Completed(u)' = Completed(u)
    <2>1. ~Has(u, "FENCE_COMPLETE") /\ ~Has(u, "FENCE_COMPLETE")'
      BY <1>1, <1>8 DEF Gone
    <2> QED
      BY <1>1, <1>11, <2>1 DEF Completed, Same
  <1>13. Concerns(u)
    BY <1>8, <1>10 DEF Concerns, Gone
  <1>14. BarrierCounted' = BarrierCounted
    <2>1. u \notin BarrierCounted' /\ u \notin BarrierCounted
      BY <1>1, <1>9, <1>11 DEF BarrierCounted, Same
    <2>2. \A v \in Servers \ {u} : v \in BarrierCounted' <=> v \in BarrierCounted
      BY <1>11, <1>13, KeepsCounts DEF Concerns
    <2>3. BarrierCounted' \subseteq Servers /\ BarrierCounted \subseteq Servers
      BY DEF BarrierCounted
    <2> QED
      BY <2>1, <2>2, <2>3
  <1>15. CountersOK'
    <2>1. Cardinality(Contributors') = Cardinality(Contributors) + 1
      <3>1. Contributors \in SUBSET Servers
        BY <1>4, ContributorsAreServers DEF LinkType
      <3> QED
        BY <1>1, <1>3, <1>6, <3>1, CountServers
    <2>2. ASSUME NEW i \in DOMAIN parts', NEW v \in Servers, parts'[i].src = v
          PROVE  InExchange(v)' /\ parts'[i] = Contribution(v, Exchanged(v)')
      <3>1. InExchange(v) /\ parts'[i] = Contribution(v, Exchanged(v))
        <4>1. CASE i \in DOMAIN parts /\ parts'[i] = parts[i]
          BY <1>4, <2>2, <4>1 DEF CountersOK
        <4>2. CASE parts'[i] = body
          BY <1>3, <1>5, <2>2, <4>2
        <4> QED
          BY <1>6, <4>1, <4>2
      <3> QED
        BY <1>11, <3>1 DEF Same, InExchange
    <2> QED
      BY <1>2, <1>4, <1>14, <2>1, <2>2 DEF CountersOK
  <1>16. StepOf(u)
    <2>1. \A t \in Servers : \A r \in dmreq[t] : r.from # u
      BY <1>9 DEF LinkInv, RequestsOK
    <2> QED
      BY <1>1, <1>2, <1>8, <1>11, <1>12, <1>13, <2>1 DEF StepOf, Gone
  <1> QED
    BY <1>1, <1>6, <1>7, <1>8, <1>15, <1>16, Elsewhere DEF LinkInv

(* The last request or contribution: no other message is under way, and    *)
(* the hub answers all servers.                                            *)
Answer(cmd, q) == Hdr(cmd, 0, q, cmd = "FENCE_COMPLETE")

LEMMA Answered ==
  ASSUME LinkInv, NEW p, NEW h, NEW body, NEW m, Handling(p, 0, h, body, m),
         \A v : Live(v) => v = Owner(h), UNCHANGED active,
         NEW cmd \in {"BARRIER_RESPONSE", "FENCE_COMPLETE"}, NEW b, cmd = "FENCE_COMPLETE" => b \in Body,
         pout' = [pout EXCEPT ![0] = Broadcast(Answer(cmd, 0), b)]
  PROVE  /\ pout' \in [Servers -> Seq(Entry)] /\ StreamsOK' /\ OneMessage'
         /\ \A q \in Pipes : \A n \in Messages(q)' : q \in Servers /\ n = Message(Answer(cmd, q), b)
         /\ \A v \in Servers : \A c : Has(v, c)' <=> c = cmd
  <1> DEFINE a == Answer(cmd, 0)
             X == Broadcast(a, b)
             u == Owner(h)
  <1>1. /\ 0 \in Servers /\ m.hdr = h /\ mout[u] = << >> /\ u \in Servers
        /\ cur'[0] = Idle /\ \A t \in Servers \ {0} : cur'[t] = cur[t]
    BY Handled
  <1>2. /\ p \in Pipes /\ pout[0] = << >> /\ m \in Messages(p) /\ Taken(p, m) /\ UNCHANGED <<mpc, mout, slot>>
    BY DEF Handling
  <1>3. LinkType /\ \A t \in Servers : WritersOK(t)
    BY DEF LinkInv, StreamsOK
  <1>4. mout[0] = << >>
    <2> SUFFICES ASSUME mout[0] # << >> PROVE FALSE
      OBVIOUS
    <2>1. PICK n \in Messages(-0) : Owner(n.hdr) = 0
      BY <1>1, MainPending
    <2>2. Live(0)
      BY <1>1, <2>1, Topology DEF Live
    <2> QED
      BY <1>1, <2>2
  <1>5. ASSUME NEW q \in Servers
        PROVE  [a EXCEPT !.dst = q] = Answer(cmd, q) /\ Answer(cmd, q) \in Header /\ Answer(cmd, q).cmd = cmd
               /\ Owner(Answer(cmd, q)) = q
    <2>1. [a EXCEPT !.dst = q] = Answer(cmd, q)
      BY DEF Answer, Hdr
    <2>2. CASE cmd = "BARRIER_RESPONSE"
      BY <1>1, <2>1, <2>2 DEF Answer, Hdr, Header, Owner
    <2>3. CASE cmd = "FENCE_COMPLETE"
      BY <1>1, <2>1, <2>3 DEF Answer, Hdr, Header, Owner
    <2> QED
      BY <2>2, <2>3
  <1>6. a \in Header /\ a.cmd = cmd /\ (a.full => b \in Body)
    <2>1. a.full <=> cmd = "FENCE_COMPLETE"
      BY DEF Answer, Hdr
    <2> QED
      BY <1>1, <1>5, <2>1
  <1> HIDE DEF a
  <1>7. /\ X \in Seq(Entry) /\ X # << >> /\ X[Len(X)].pipe = 0
        /\ \A i \in DOMAIN X : X[i].pipe \in Servers
    BY <1>6, BroadcastMessages
  <1> HIDE DEF X
  <1>8. /\ pout' \in [Servers -> Seq(Entry)] /\ pout'[0] = X
        /\ \A t \in Servers \ {0} : pout'[t] = pout[t]
    BY <1>1, <1>3, <1>7 DEF LinkType, X, a
  <1>9. OutGrows(0, X)
    <2>1. Out(0) = << >> \o << >> /\ Out(0)' = << >> \o X
      BY <1>2, <1>4, <1>8 DEF Out
    <2>2. Out(0)' = Out(0) \o X
      <3>1. << >> \in Seq(Entry)
        OBVIOUS
      <3> QED
        BY <1>7, <2>1, <3>1, ConcatEmptySeq
    <2>3. \A t \in Servers \ {0} : Out(t)' = Out(t)
      BY <1>2, <1>8 DEF Out
    <2> QED
      BY <2>2, <2>3 DEF OutGrows
  <1>10. /\ FramesOK' /\ OneMessage'
         /\ \A q \in Pipes : Messages(q)' = IF q \in Servers THEN {Message([a EXCEPT !.dst = q], b)} ELSE {}
    <2>1. \A v : Live(v) => v = Owner(m.hdr)
      BY <1>1
    <2>2. OutGrows(0, Broadcast(a, b))
      BY <1>9 DEF X
    <2>3. FramesOK /\ OneMessage
      BY DEF LinkInv, StreamsOK
    <2> QED
      BY <1>2, <1>3, <1>6, <2>1, <2>2, <2>3, Broadcasts
  <1>11. \A q \in Pipes : Messages(q)' = IF q \in Servers THEN {Message(Answer(cmd, q), b)} ELSE {}
    BY <1>5, <1>10
  <1>12. ASSUME NEW t \in Servers PROVE WritersOK(t)'
    <2>1. CASE t = 0
      <3>1. \A i \in DOMAIN pout'[0] : Writer(pout'[0][i].pipe) = 0
        BY <1>7, <1>8, Topology
      <3> QED
        BY <1>1, <1>2, <1>4, <2>1, <3>1 DEF WritersOK
    <2>2. CASE t # 0
      BY <1>1, <1>2, <1>3, <1>8, <2>2, KeepsWriter
    <2> QED
      BY <2>1, <2>2
  <1>13. BroadcastOK'
    BY <1>7, <1>8 DEF BroadcastOK
  <1>14. ASSUME NEW v \in Servers, NEW c PROVE Has(v, c)' <=> c = cmd
    <2>1. \A q \in Servers : Message(Answer(cmd, q), b).hdr = Answer(cmd, q)
      BY DEF Message
    <2>2. \A q \in Servers : q \in Pipes
      BY Topology
    <2>3. Has(v, c)' <=> \E q \in Pipes : \E n \in Messages(q)' : Owner(n.hdr) = v /\ n.hdr.cmd = c
      BY DEF Has
    <2> QED
      BY <1>5, <1>11, <2>1, <2>2, <2>3
  <1>15. \A q \in Pipes : \A n \in Messages(q)' : q \in Servers /\ n = Message(Answer(cmd, q), b)
    BY <1>11
  <1> QED
    BY <1>8, <1>10, <1>12, <1>13, <1>14, <1>15 DEF StreamsOK

LEMMA BarrierCompleteStep ==
  ASSUME LinkInv, NEW p, NEW s, NEW h, NEW body, NEW m, Handling(p, s, h, body, m),
         h.cmd = "BARRIER_REQUEST", h.dst = s, IsLast(bcnt), BarrierRequest(s)
  PROVE  LinkInv'
  <1> DEFINE u == h.src
  <1>0. u = Owner(h)
    BY DEF Owner
  <1>1. /\ s \in Servers /\ u \in Servers /\ m.hdr = h /\ MessageOK(p, m)
        /\ \A cmd : Has(u, cmd) <=> cmd = h.cmd
        /\ pipe' \in [Pipes -> Seq(Chunk)]
        /\ cur' \in [Servers -> {Idle} \cup [what : {"payload"}, pipe : Pipes, hdr : Header]]
    BY <1>0, Handled
  <1>2. s = 0 /\ InBarrierNow(u) /\ Handling(p, 0, h, body, m)
    BY <1>1 DEF MessageOK
  <1>3. /\ bcnt' = 0 /\ pout' = [pout EXCEPT ![0] = Broadcast(Answer("BARRIER_RESPONSE", 0), NoBody)]
        /\ UNCHANGED <<mpc, mout, slot, active, parts, ccnt, dmreq, denied, known, cl, todo, faults>>
    BY <1>2 DEF library, BarrierRequest, Handling, Answer
  <1>4. LinkType /\ (\A v \in Servers : ServerOK(v)) /\ CountersOK
    BY DEF LinkInv, ServersOK
  <1>5. BarrierCounted = Servers \ {u}
    <2>1. u \notin BarrierCounted /\ BarrierCounted \in SUBSET Servers
      BY <1>1 DEF BarrierCounted
    <2> QED
      BY <1>1, <1>4, <2>1, CountServers DEF CountersOK, IsLast
  <1>6. \A v \in Servers : InBarrierNow(v) /\ ~InExchange(v) /\ (\A t : ~Asks(v, t)) /\ ~Has(v, "FENCE_COMPLETE")
    <2>1. \A v \in Servers : InBarrierNow(v)
      BY <1>2, <1>5 DEF BarrierCounted
    <2>2. \A v \in Servers : ~InExchange(v) /\ \A t : ~Asks(v, t)
      BY <1>4, <2>1, Modes
    <2>3. ASSUME NEW v \in Servers, Has(v, "FENCE_COMPLETE") PROVE FALSE
      <3>1. PICK q \in Pipes : \E n \in Messages(q) : Owner(n.hdr) = v /\ n.hdr.cmd = "FENCE_COMPLETE"
        BY <2>3 DEF Has
      <3>2. PICK n \in Messages(q) : Owner(n.hdr) = v /\ n.hdr.cmd = "FENCE_COMPLETE"
        BY <3>1
      <3> QED
        BY <2>2, <3>2, LiveMode
    <2> QED
      BY <2>1, <2>2, <2>3
  <1>7. ASSUME NEW v, Live(v) PROVE v = u
    <2>1. PICK q \in Pipes : \E n \in Messages(q) : Owner(n.hdr) = v
      BY <1>7 DEF Live
    <2>2. PICK n \in Messages(q) : Owner(n.hdr) = v
      BY <2>1
    <2>3. v \in Servers /\ n.hdr.cmd \in {"BARRIER_REQUEST", "BARRIER_RESPONSE"}
      BY <1>6, <2>2, LiveMode
    <2>4. v \notin BarrierCounted
      BY <2>2, <2>3 DEF BarrierCounted, Has
    <2> QED
      BY <1>5, <2>3, <2>4
  <1>8. /\ pout' \in [Servers -> Seq(Entry)] /\ StreamsOK' /\ OneMessage'
        /\ \A q \in Pipes : \A n \in Messages(q)' :
             q \in Servers /\ n = Message(Answer("BARRIER_RESPONSE", q), NoBody)
        /\ \A v \in Servers : \A c : Has(v, c)' <=> c = "BARRIER_RESPONSE"
    BY <1>0, <1>2, <1>3, <1>7, Answered
  <1>9. LinkType'
    BY <1>1, <1>3, <1>4, <1>8, ServerLinkAssumption DEF LinkType
  <1>10. \A v \in Servers : Same(v) /\ ServerOK(v)' /\ (\A t : Asks(v, t)' <=> Asks(v, t))
    <2>1. \A v \in Servers : Unaffected(v)
      BY <1>3 DEF Unaffected
    <2> QED
      BY <1>4, <2>1, UnaffectedSame
  <1>11. MessagesOK'
    <2> SUFFICES ASSUME NEW q \in Servers PROVE MessageOK(q, Message(Answer("BARRIER_RESPONSE", q), NoBody))'
      BY <1>8 DEF MessagesOK
    <2>1. InBarrierNow(q)'
      BY <1>6, <1>10 DEF Same
    <2> QED
      BY <2>1, Topology DEF MessageOK, Message, Answer, Hdr, Header
  <1>12. RequestsOK'
    BY <1>3, <1>6 DEF RequestsOK, LinkInv, LinkType
  <1>13. InStep'
    <2>1. \A v \in Servers : Completed(v)' = Completed(v)
      BY <1>6, <1>8, <1>10 DEF Completed, Same
    <2> QED
      BY <2>1 DEF LinkInv, InStep
  <1>14. CountersOK'
    <2>1. BarrierCounted' = {}
      BY <1>8 DEF BarrierCounted
    <2>2. Contributors' = Contributors
      BY <1>3 DEF Contributors
    <2>3. \A i \in DOMAIN parts' : \A v \in Servers : parts'[i].src # v
      BY <1>3, <1>4, <1>6 DEF CountersOK
    <2>4. Cardinality(BarrierCounted') = 0
      BY <2>1, FS_EmptySet
    <2> QED
      BY <1>3, <1>4, <2>2, <2>3, <2>4 DEF CountersOK
  <1>15. ServersOK'
    BY <1>10 DEF ServersOK
  <1> QED
    BY <1>8, <1>9, <1>11, <1>12, <1>13, <1>14, <1>15 DEF LinkInv

LEMMA ExchangeCompleteStep ==
  ASSUME LinkInv, NEW p, NEW s, NEW h, NEW body, NEW m, Handling(p, s, h, body, m),
         h.cmd = "FENCE_CONTRIB", h.dst = s, IsLast(ccnt), FenceContrib(s, body)
  PROVE  LinkInv'
  <1> DEFINE u == h.src
  <1>0. u = Owner(h) /\ h.full
    BY DEF Owner, Handling, Header
  <1>1. /\ s \in Servers /\ u \in Servers /\ m.hdr = h /\ MessageOK(p, m) /\ m.body = body
        /\ \A cmd : Has(u, cmd) <=> cmd = h.cmd
        /\ pipe' \in [Pipes -> Seq(Chunk)]
        /\ cur' \in [Servers -> {Idle} \cup [what : {"payload"}, pipe : Pipes, hdr : Header]]
    BY <1>0, Handled
  <1>2. /\ s = 0 /\ Handling(p, 0, h, body, m)
        /\ InExchange(u) /\ u \notin Contributors /\ body = Contribution(u, Exchanged(u))
    BY <1>1 DEF MessageOK
  <1>3. PICK all : all = Append(parts, body)
    OBVIOUS
  <1> DEFINE b == [what |-> "all", parts |-> all]
  <1>4. /\ ccnt' = 0 /\ parts' = <<>> /\ pout' = [pout EXCEPT ![0] = Broadcast(Answer("FENCE_COMPLETE", 0), b)]
        /\ UNCHANGED <<mpc, mout, slot, active, bcnt, dmreq, denied, known, cl, todo, faults>>
    BY <1>2, <1>3 DEF library, FenceContrib, Handling, Answer
  <1>5. LinkType /\ (\A v \in Servers : ServerOK(v)) /\ CountersOK
    BY DEF LinkInv, ServersOK
  <1>6. body \in Part /\ body.src = u
    <2>1. body \in Body /\ body.what = "part" /\ body.src = u
      BY <1>0, <1>2 DEF Handling, Contribution
    <2> QED
      BY <2>1 DEF Body
  <1>7. /\ all \in Seq(Part) /\ Len(all) = N /\ DOMAIN all = 1 .. N
        /\ all[N] = body /\ \A i \in DOMAIN parts : i \in 1 .. N /\ all[i] = parts[i]
        /\ \A i \in 1 .. N : all[i] = body \/ (i \in DOMAIN parts /\ all[i] = parts[i])
    <2>1. parts \in Seq(Part) /\ Len(parts) + 1 = N /\ N \in Nat
      BY <1>5, ServerLinkAssumption DEF LinkType, IsLast
    <2> QED
      BY <1>3, <1>6, <2>1, AppendProperties, LenProperties
  <1>8. Contributors = Servers \ {u}
    <2>1. Contributors \in SUBSET Servers
      BY <1>5, ContributorsAreServers DEF LinkType
    <2> QED
      BY <1>1, <1>2, <1>5, <2>1, CountServers DEF CountersOK, IsLast
  <1>9. ASSUME NEW v \in Servers
        PROVE  /\ InExchange(v) /\ ~InBarrierNow(v) /\ (\A t : ~Asks(v, t))
               /\ Contribution(v, Exchanged(v)) \in {all[i] : i \in 1 .. N}
    <2>1. CASE v = u
      <3>1. N \in 1 .. N
        BY ServerLinkAssumption
      <3> QED
        BY <1>1, <1>2, <1>5, <1>7, <2>1, <3>1, Modes
    <2>2. CASE v # u
      <3>1. PICK i \in DOMAIN parts : parts[i].src = v
        BY <1>8, <2>2 DEF Contributors
      <3>2. InExchange(v) /\ parts[i] = Contribution(v, Exchanged(v))
        BY <1>5, <3>1 DEF CountersOK
      <3> QED
        BY <1>5, <1>7, <3>2, Modes
    <2> QED
      BY <2>1, <2>2
  <1>10. ASSUME NEW i \in 1 .. N
         PROVE  \E v \in Servers : all[i] = Contribution(v, Exchanged(v))
    <2>1. CASE all[i] = body
      BY <1>1, <1>2, <2>1
    <2>2. CASE i \in DOMAIN parts /\ all[i] = parts[i]
      <3>1. parts[i].src \in Servers
        BY <1>8, <2>2 DEF Contributors
      <3> QED
        BY <1>5, <2>2, <3>1 DEF CountersOK
    <2> QED
      BY <1>7, <2>1, <2>2
  <1>11. \A v \in Servers : Live(v) => v = u
    <2> SUFFICES ASSUME NEW v \in Servers, Live(v), v # u PROVE FALSE
      OBVIOUS
    <2>1. PICK q \in Pipes : \E n \in Messages(q) : Owner(n.hdr) = v
      BY DEF Live
    <2>2. PICK n \in Messages(q) : Owner(n.hdr) = v
      BY <2>1
    <2> QED
      BY <1>8, <1>9, <2>2, LiveMode
  <1>12. \A v : Live(v) => v = u
    <2>1. \A v : Live(v) => v \in Servers
      BY OwnerIsServer DEF Live, LinkInv
    <2> QED
      BY <1>11, <2>1
  <1>13. \A v \in Servers : ~Has(v, "FENCE_COMPLETE")
    <2>1. ~Has(u, "FENCE_COMPLETE")
      BY <1>1
    <2>2. \A v \in Servers : Has(v, "FENCE_COMPLETE") => Live(v)
      BY DEF Has, Live
    <2> QED
      BY <1>12, <2>1, <2>2
  <1>14. PICK k \in Nat : \A v \in Servers : Exchanged(v) = k
    <2>1. \A v \in Servers : Exchanged(v) \in Nat
      <3>1. 1 \in 1 .. Local
        BY ServerLinkAssumption
      <3> QED
        BY <1>5, <3>1, ServerLinkAssumption DEF Exchanged, LinkType, Client
    <2>2. \A v \in Servers : Completed(v) = Exchanged(v)
      BY <1>13, <2>1 DEF Completed
    <2>3. \A v \in Servers : Exchanged(v) = Exchanged(u)
      BY <1>1, <2>2 DEF LinkInv, InStep
    <2> QED
      BY <1>1, <2>1, <2>3
  <1>15. b \in Body /\ b \in [what : {"all"}, parts : Seq(Part)]
    BY <1>7 DEF Body
  <1>16. AllContributed(k, b)
    <2>1. {all[i] : i \in 1 .. N} = {Contribution(t, k) : t \in Servers}
      BY <1>9, <1>10, <1>14
    <2> QED
      BY <1>7, <2>1 DEF AllContributed
  <1> HIDE DEF b
  <1>17. /\ pout' \in [Servers -> Seq(Entry)] /\ StreamsOK' /\ OneMessage'
         /\ \A q \in Pipes : \A n \in Messages(q)' :
              q \in Servers /\ n = Message(Answer("FENCE_COMPLETE", q), b)
         /\ \A v \in Servers : \A c : Has(v, c)' <=> c = "FENCE_COMPLETE"
    BY <1>0, <1>2, <1>4, <1>12, <1>15, Answered
  <1>18. LinkType'
    <2>1. parts' \in Seq(Part) /\ Len(parts') = 0
      BY <1>4
    <2>2. 0 \in 0 .. N - 1
      BY ServerLinkAssumption
    <2> QED
      BY <1>1, <1>4, <1>5, <1>17, <2>1, <2>2 DEF LinkType
  <1>19. \A v \in Servers : Same(v) /\ ServerOK(v)' /\ (\A t : Asks(v, t)' <=> Asks(v, t))
    <2>1. \A v \in Servers : Unaffected(v)
      BY <1>4 DEF Unaffected
    <2> QED
      BY <1>5, <2>1, UnaffectedSame
  <1>20. Contributors' = {}
    BY <1>4 DEF Contributors
  <1>21. MessagesOK'
    <2> SUFFICES ASSUME NEW q \in Servers PROVE MessageOK(q, Message(Answer("FENCE_COMPLETE", q), b))'
      BY <1>17 DEF MessagesOK
    <2>1. InExchange(q)' /\ Exchanged(q)' = k
      BY <1>9, <1>14, <1>19 DEF Same, InExchange
    <2>2. Message(Answer("FENCE_COMPLETE", q), b) = [hdr |-> Answer("FENCE_COMPLETE", q), body |-> b]
      BY DEF Message, Answer, Hdr
    <2>3. /\ Answer("FENCE_COMPLETE", q) \in Header /\ Answer("FENCE_COMPLETE", q).dst = q
          /\ Answer("FENCE_COMPLETE", q).cmd = "FENCE_COMPLETE"
      BY Topology DEF Answer, Hdr, Header
    <2> QED
      BY <1>15, <1>16, <1>20, <2>1, <2>2, <2>3 DEF MessageOK
  <1>22. RequestsOK'
    BY <1>4, <1>9 DEF RequestsOK, LinkInv, LinkType
  <1>23. InStep'
    <2>1. \A v \in Servers : Completed(v)' = k + 1
      BY <1>14, <1>17, <1>19 DEF Completed, Same
    <2> QED
      BY <2>1 DEF InStep
  <1>24. CountersOK'
    <2>1. BarrierCounted' = {} /\ BarrierCounted = {}
      BY <1>9, <1>19 DEF BarrierCounted, Same
    <2>2. Cardinality(Contributors') = 0
      BY <1>20, FS_EmptySet
    <2>3. \A i \in DOMAIN parts' : FALSE
      BY <1>4
    <2> QED
      BY <1>4, <1>5, <2>1, <2>2, <2>3 DEF CountersOK
  <1>25. ServersOK'
    BY <1>19 DEF ServersOK
  <1> QED
    BY <1>17, <1>18, <1>21, <1>22, <1>23, <1>24, <1>25 DEF LinkInv

(* A callback that completes what server u waited for.                     *)
LEMMA CallbackStep ==
  ASSUME LinkInv, NEW p, NEW s, NEW h, NEW body, NEW m, NEW u, u = Owner(h), u = s, Handling(p, s, h, body, m),
         h.cmd \in {"FENCE_COMPLETE", "DMDX_RESPONSE"}, ~InBarrierNow(u), ~InBarrierNow(u)', todo'[u] = {},
         \A v \in Servers \ {u} : Unaffected(v), UNCHANGED <<pout, hub, dmreq, denied, faults>>,
         active' \in [Pipes -> BOOLEAN], known' \in [Servers -> SUBSET Servers],
         cl' \in [Client -> [f : 0 .. Fences, want : SUBSET Servers, call : {"none", "fence", "get", "exit"}]],
         todo' \in [Servers -> SUBSET Op],
         Exchanged(u)' = Completed(u), ServerOK(u)'
  PROVE  LinkInv'
  <1>1. /\ s \in Servers /\ m.hdr = h /\ MessageOK(p, m)
        /\ \A cmd : Has(u, cmd) <=> cmd = h.cmd
        /\ pipe' \in [Pipes -> Seq(Chunk)]
        /\ cur' \in [Servers -> {Idle} \cup [what : {"payload"}, pipe : Pipes, hdr : Header]]
    BY ZenonT(30), Handled
  <1>2. LinkType /\ \A v \in Servers : ServerOK(v)
    BY DEF LinkInv, ServersOK
  <1>3. LinkType'
    BY <1>1, <1>2 DEF LinkType, Handling, hub
  <1>4. StreamsOK' /\ OneMessage' /\ Gone(u)
    BY HandledQuietly DEF Unaffected
  <1>5. Completed(u)' = Completed(u)
    <2>1. ~Has(u, "FENCE_COMPLETE")'
      BY <1>4 DEF Gone
    <2>2. Exchanged(u)' \in Nat
      <3>1. 1 \in 1 .. Local
        BY ServerLinkAssumption
      <3> QED
        BY <1>1, <1>3, <3>1, ServerLinkAssumption DEF Exchanged, LinkType, Client
    <2> QED
      BY <2>1, <2>2 DEF Completed
  <1>6. u \notin BarrierCounted /\ u \notin BarrierCounted'
    BY DEF BarrierCounted
  <1>7. Concerns(u)
    BY <1>4 DEF Concerns, Gone
  <1>8. u \notin Contributors
    <2>1. CASE h.cmd = "FENCE_COMPLETE"
      BY <1>1, <2>1 DEF MessageOK, Owner
    <2>2. CASE h.cmd = "DMDX_RESPONSE"
      <3>1. ~InExchange(u)
        BY <1>1, <1>2, <2>2, Modes DEF MessageOK, Owner
      <3> QED
        BY <1>1, <3>1 DEF LinkInv, CountersOK, Contributors
    <2> QED
      BY <2>1, <2>2
  <1>9. \A t \in Servers : \A r \in dmreq[t] : r.from # u
    <2>1. CASE h.cmd = "FENCE_COMPLETE"
      <3>1. \A t : ~Asks(u, t)
        BY <1>1, <1>2, <2>1, Modes DEF MessageOK, Owner
      <3> QED
        BY <3>1 DEF LinkInv, RequestsOK
    <2>2. CASE h.cmd = "DMDX_RESPONSE"
      BY <1>1, <2>2 DEF MessageOK, Owner
    <2> QED
      BY <2>1, <2>2
  <1>10. StepOf(u)
    BY <1>4, <1>5, <1>7, <1>9 DEF StepOf, Gone
  <1> QED
    BY <1>1, <1>3, <1>4, <1>6, <1>8, <1>10, OneServer

(* The callback of the exchange of the process maps, and of a fence.       *)
LEMMA FenceCompleteStep ==
  ASSUME LinkInv, NEW p, NEW s, NEW h, NEW body, NEW m, Handling(p, s, h, body, m),
         h.cmd = "FENCE_COMPLETE", h.dst = s, Callback(s, p, body)
  PROVE  LinkInv'
  <1> DEFINE k == Exchanged(s)
  <1>0. s = Owner(h) /\ h.full
    BY DEF Owner, Handling, Header
  <1>1. /\ s \in Servers /\ m.hdr = h /\ MessageOK(p, m) /\ m.body = body
        /\ \A cmd : Has(s, cmd) <=> cmd = h.cmd
    BY <1>0, Handled
  <1>2. /\ p = s /\ InExchange(s) /\ body \in [what : {"all"}, parts : Seq(Part)]
        /\ AllContributed(k, body) /\ s \in Pipes /\ Reader(s) = s
    BY <1>1, Topology DEF MessageOK
  <1>3. LinkType /\ ServerOK(s)
    BY <1>1 DEF LinkInv, ServersOK
  <1>4. (WaitsForProcs(s) \/ WaitsForFence(s)) /\ ~InBarrierNow(s)
    BY <1>1, <1>2, <1>3, Modes
  <1>5. \A v \in Servers, j \in 1 .. Local : <<v, j>> \in Client
    BY DEF Client
  <1>6. 1 \in 1 .. Local
    BY ServerLinkAssumption
  <1>7. k \in Nat /\ Completed(s) = k + 1
    BY <1>1, <1>3, <1>5, <1>6, ServerLinkAssumption DEF Completed, Exchanged, LinkType
  <1>8. slot[s] = ExchangeOp(k) /\ todo[s] = {ExchangeOp(k)}
    <2>1. todo[s] = {ExchangeOp(k)}
      BY <1>2 DEF InExchange
    <2>2. todo[s] = {slot[s]}
      BY <1>4 DEF WaitsForProcs, WaitsForFence
    <2> QED
      BY <2>1, <2>2
  <1>9. /\ todo' = [todo EXCEPT ![s] = @ \ {slot[s]}]
        /\ faults' = faults
        /\ active' = IF slot[s] = Procs THEN [active EXCEPT ![s] = FALSE] ELSE active
        /\ known' = IF slot[s] = Procs /\ body.what = "all"
                      THEN [known EXCEPT ![s] = @ \cup Learned(body)] ELSE known
        /\ cl' = CASE slot[s].op = "fence" ->
                        [c \in Client |-> IF c[1] = s THEN AfterFence(s, cl[c]) ELSE cl[c]]
                   [] slot[s].op = "dmdx" -> [cl EXCEPT ![slot[s].client] = AfterGet(slot[s].target, @)]
                   [] OTHER -> cl
        /\ UNCHANGED <<mpc, mout, slot, pout, hub, dmreq, denied>>
    <2>1. Matches(ExchangeOp(k), body)
      <3>1. Procs.op = "procs" /\ Procs # None /\ Fence(k).op = "fence" /\ Fence(k) # None /\ Fence(k).round = k
        BY DEF Procs, Fence, None
      <3> HIDE DEF k
      <3> QED
        BY <1>2, <3>1 DEF Matches, ExchangeOp
    <2>2. slot[s] \in todo[s] /\ Matches(slot[s], body)
      BY <1>8, <2>1
    <2> QED
      BY <1>2, <2>2 DEF library, Callback, Handling
  <1>10. /\ todo'[s] = {} /\ todo' \in [Servers -> SUBSET Op]
         /\ \A v \in Servers \ {s} : todo'[v] = todo[v]
    BY <1>1, <1>3, <1>8, <1>9 DEF LinkType
  <1>11. CASE WaitsForProcs(s)
    <2>1. slot[s] = Procs /\ Procs.op = "procs" /\ k = 0
      <3>1. slot[s] = Procs /\ Procs.op = "procs"
        BY <1>11 DEF WaitsForProcs, Procs
      <3>2. \A j : Fence(j) # Procs
        BY DEF Fence, Procs
      <3> QED
        BY <1>8, <3>1, <3>2 DEF ExchangeOp
    <2>2. /\ active' = [active EXCEPT ![s] = FALSE] /\ cl' = cl
          /\ known' = [known EXCEPT ![s] = @ \cup Learned(body)]
      BY <1>2, <1>9, <2>1
    <2>3. Learned(body) = Servers
      <3>1. /\ body.what = "all" /\ Len(body.parts) = N
            /\ {body.parts[i] : i \in 1 .. N} = {Contribution(t, 0) : t \in Servers}
        BY <1>2, <2>1 DEF AllContributed
      <3>2. \A t \in Servers : \E i \in 1 .. N : body.parts[i].src = t
        <4> SUFFICES ASSUME NEW t \in Servers PROVE \E i \in 1 .. N : body.parts[i].src = t
          OBVIOUS
        <4>1. Contribution(t, 0) \in {body.parts[i] : i \in 1 .. N} /\ Contribution(t, 0).src = t
          BY <3>1 DEF Contribution
        <4> QED
          BY <4>1
      <3>3. \A i \in 1 .. N : body.parts[i].src \in Servers
        <4> SUFFICES ASSUME NEW i \in 1 .. N PROVE body.parts[i].src \in Servers
          OBVIOUS
        <4>1. body.parts[i] \in {Contribution(t, 0) : t \in Servers}
          BY <3>1
        <4> QED
          BY <4>1 DEF Contribution
      <3> QED
        BY <3>1, <3>2, <3>3 DEF Learned
    <2>4. /\ known' \in [Servers -> SUBSET Servers] /\ known'[s] = Servers
          /\ active' \in [Pipes -> BOOLEAN] /\ ~active'[s]
          /\ \A v \in Servers \ {s} : known'[v] = known[v] /\ active'[v] = active[v]
      <3>1. /\ known' \in [Servers -> SUBSET Servers] /\ known'[s] = Servers
            /\ \A v \in Servers \ {s} : known'[v] = known[v]
        <4>1. known[s] \cup Learned(body) = Servers
          BY <1>1, <1>3, <2>3 DEF LinkType
        <4> HIDE DEF k
        <4> QED
          BY <1>1, <1>3, <2>2, <4>1 DEF LinkType
      <3>2. /\ active' \in [Pipes -> BOOLEAN] /\ ~active'[s]
            /\ \A v \in Servers \ {s} : active'[v] = active[v]
        BY <1>2, <1>3, <2>2, Topology DEF LinkType
      <3> QED
        BY <3>1, <3>2
    <2>5. mpc[s] = "procs" /\ ClientsIdle(s) /\ mpc'[s] = "procs"
      BY <1>3, <1>9, <1>11 DEF WaitsForProcs, ServerOK
    <2>6. ProcsKnown(s)' /\ ~InBarrierNow(s)' /\ Exchanged(s)' = 1
      <3>1. cl[<<s, 1>>].f = 0
        BY <1>6, <2>5 DEF ClientsIdle
      <3> QED
        BY <2>2, <2>4, <2>5, <3>1 DEF ProcsKnown, InBarrierNow, InBarrier, Exchanged
    <2>7. ServerOK(s)'
      <3>1. ClientsIdle(s)'
        BY <2>2, <2>5 DEF ClientsIdle
      <3> QED
        BY <1>3, <1>10, <2>2, <2>4, <2>5, <3>1 DEF ServerOK
    <2>8. \A v \in Servers \ {s} : Unaffected(v)
      BY <1>9, <1>10, <2>2, <2>4 DEF Unaffected
    <2>9. Exchanged(s)' = Completed(s) /\ cl' \in
             [Client -> [f : 0 .. Fences, want : SUBSET Servers, call : {"none", "fence", "get", "exit"}]]
      BY <1>3, <1>7, <2>1, <2>2, <2>6 DEF LinkType
    <2> QED
      BY <1>0, <1>4, <1>9, <1>10, <2>4, <2>6, <2>7, <2>8, <2>9, CallbackStep
  <1>12. CASE WaitsForFence(s)
    <2>1. slot[s].op = "fence" /\ slot[s] # Procs
      BY <1>12 DEF WaitsForFence, Fence, Procs
    <2>2. /\ active' = active /\ known' = known
          /\ cl' = [c \in Client |-> IF c[1] = s THEN AfterFence(s, cl[c]) ELSE cl[c]]
      BY <1>9, <2>1
    <2>3. /\ mpc[s] = "run" /\ mpc' = mpc /\ cl[<<s, 1>>].f < Fences
          /\ \A i \in 1 .. Local : cl[<<s, i>>].f = cl[<<s, 1>>].f /\ cl[<<s, i>>].f \in 0 .. Fences
      BY <1>1, <1>3, <1>5, <1>9, <1>12 DEF WaitsForFence, ServerOK, LinkType
    <2>4. \A i \in 1 .. Local : /\ cl'[<<s, i>>].f = cl[<<s, 1>>].f + 1
                                /\ cl'[<<s, i>>].want = Remote(s) /\ cl'[<<s, i>>].call = "none"
      <3> SUFFICES ASSUME NEW i \in 1 .. Local
                   PROVE  /\ cl'[<<s, i>>].f = cl[<<s, 1>>].f + 1
                          /\ cl'[<<s, i>>].want = Remote(s) /\ cl'[<<s, i>>].call = "none"
        OBVIOUS
      <3>1. cl'[<<s, i>>] = AfterFence(s, cl[<<s, i>>])
        BY <1>1, <1>5, <2>2
      <3> QED
        BY <2>3, <3>1 DEF AfterFence
    <2>5. cl' \in [Client -> [f : 0 .. Fences, want : SUBSET Servers, call : {"none", "fence", "get", "exit"}]]
      <3>1. ASSUME NEW c \in Client, c[1] = s
            PROVE  AfterFence(s, cl[c]) \in
                     [f : 0 .. Fences, want : SUBSET Servers, call : {"none", "fence", "get", "exit"}]
        <4>1. PICK i \in 1 .. Local : c = <<s, i>>
          BY <3>1 DEF Client
        <4>2. cl[c].f + 1 \in 0 .. Fences
          BY <2>3, <4>1, ServerLinkAssumption
        <4>3. Remote(s) \in SUBSET Servers
          BY DEF Remote
        <4> QED
          BY <4>2, <4>3 DEF AfterFence
      <3> QED
        BY <1>3, <2>2, <3>1 DEF LinkType
    <2>6. ProcsKnown(s) /\ ProcsKnown(s)' /\ ~InBarrierNow(s)'
      BY <2>3 DEF ProcsKnown, InBarrierNow, InBarrier
    <2>7. Exchanged(s)' = Completed(s)
      <3>1. Exchanged(s)' = 1 + (cl[<<s, 1>>].f + 1) /\ k = 1 + cl[<<s, 1>>].f
        BY <1>6, <2>4, <2>6 DEF Exchanged
      <3> HIDE DEF k
      <3> QED
        BY <1>6, <1>7, <2>3, <3>1
    <2>8. ServerOK(s)'
      <3>1. s \notin Remote(s) /\ (Remote(s) # {} => Askers # {})
        BY DEF Remote
      <3> QED
        BY <1>3, <1>6, <1>10, <2>2, <2>3, <2>4, <2>6, <3>1 DEF ServerOK
    <2>9. \A v \in Servers \ {s} : Unaffected(v)
      <3> SUFFICES ASSUME NEW v \in Servers \ {s} PROVE Unaffected(v)
        OBVIOUS
      <3>1. \A i \in 1 .. Local : cl'[<<v, i>>] = cl[<<v, i>>]
        BY <1>5, <2>2
      <3> QED
        BY <1>9, <1>10, <2>2, <3>1 DEF Unaffected
    <2>10. active' \in [Pipes -> BOOLEAN] /\ known' \in [Servers -> SUBSET Servers]
      BY <1>3, <2>2 DEF LinkType
    <2> QED
      BY <1>0, <1>4, <1>9, <1>10, <2>5, <2>6, <2>7, <2>8, <2>9, <2>10, CallbackStep
  <1> QED
    BY <1>4, <1>11, <1>12

(* The callback of a direct modex.                                         *)
LEMMA DmdxResponseStep ==
  ASSUME LinkInv, NEW p, NEW s, NEW h, NEW body, NEW m, Handling(p, s, h, body, m),
         h.cmd = "DMDX_RESPONSE", h.dst = s, ~h.full => body = NoBody, Callback(s, p, body)
  PROVE  LinkInv'
  <1> DEFINE t == h.src
             op == Dmdx(<<s, 1>>, t)
             c == <<s, 1>>
  <1>0. s = Owner(h)
    BY DEF Owner, Handling, Header
  <1>1. /\ s \in Servers /\ t \in Servers /\ m.hdr = h /\ MessageOK(p, m) /\ m.body = body
        /\ \A cmd : Has(s, cmd) <=> cmd = h.cmd
    BY <1>0, Handled
  <1>2. /\ OnRoute(p, h) /\ Asks(s, t)
        /\ \/ body = [what |-> "modex", proc |-> <<t, 1>>]
           \/ body = NoBody /\ Denial("noData", s, <<t, 1>>) \in denied
        /\ s = Reader(p) /\ p \in Pipes
    BY <1>1 DEF MessageOK, Handling
  <1>3. LinkType /\ ServerOK(s)
    BY <1>1 DEF LinkInv, ServersOK
  <1>4. WaitsForData(s) /\ mpc[s] = "run" /\ ProcsKnown(s) /\ ~InBarrierNow(s) /\ todo[s] = {op} /\ s # t
    BY <1>1, <1>2, <1>3, Modes DEF Asks
  <1>5. p = Record(s, t)
    <2>1. CASE s = 0
      BY <1>2, <2>1 DEF OnRoute, Record
    <2>2. CASE s # 0
      <3>1. p # -t
        BY <1>1, <1>2, <2>2 DEF Reader, Servers
      <3> QED
        BY <1>2, <2>2, <3>1 DEF OnRoute, Record
    <2> QED
      BY <2>1, <2>2
  <1>6. slot[p] = op
    <2>1. PICK v \in Servers \ {s} : todo[s] = {Dmdx(c, v)} /\ slot[Record(s, v)] = Dmdx(c, v)
      BY <1>4 DEF WaitsForData
    <2>2. Dmdx(c, v) = Dmdx(c, t)
      BY <1>4, <2>1
    <2>3. v = t
      BY <2>2 DEF Dmdx
    <2> QED
      BY <1>5, <2>1, <2>3
  <1>7. c \in Client /\ 1 \in 1 .. Local /\ \A v \in Servers, i \in 1 .. Local : <<v, i>> \in Client
    BY <1>1, ServerLinkAssumption DEF Client
  <1>8. op.op = "dmdx" /\ op.client = c /\ op.target = t /\ op # Procs /\ op # None /\ c[1] = s /\ c[2] = 1
    BY DEF Dmdx, Procs, None
  <1> HIDE DEF op
  <1>9. /\ todo' = [todo EXCEPT ![s] = @ \ {op}]
        /\ cl' = [cl EXCEPT ![c] = AfterGet(t, @)]
        /\ UNCHANGED <<mpc, mout, slot, active, known, pout, hub, dmreq, denied, faults>>
    <2>1. op \in todo[s] /\ Matches(op, body)
      BY <1>2, <1>4, <1>8 DEF Matches, Wanted
    <2> QED
      BY <1>6, <1>8, <2>1 DEF library, Callback, Handling
  <1>10. /\ todo'[s] = {} /\ todo' \in [Servers -> SUBSET Op]
         /\ \A v \in Servers \ {s} : todo'[v] = todo[v]
    BY <1>1, <1>3, <1>4, <1>9 DEF LinkType
  <1>11. /\ cl' \in [Client -> [f : 0 .. Fences, want : SUBSET Servers, call : {"none", "fence", "get", "exit"}]]
         /\ \A d \in Client : /\ cl'[d].f = cl[d].f /\ cl'[d].want \subseteq cl[d].want
                              /\ d # c => cl'[d] = cl[d]
    <2>1. /\ cl \in [Client -> [f : 0 .. Fences, want : SUBSET Servers, call : {"none", "fence", "get", "exit"}]]
          /\ cl[c].want \ {t} \in SUBSET Servers
      BY <1>3, <1>7 DEF LinkType
    <2>2. /\ DOMAIN cl' = Client /\ \A d \in Client \ {c} : cl'[d] = cl[d]
          /\ cl'[c] = [f |-> cl[c].f, want |-> cl[c].want \ {t}, call |-> "none"]
      BY <1>7, <1>9, <2>1 DEF AfterGet
    <2>3. cl'[c] \in [f : 0 .. Fences, want : SUBSET Servers, call : {"none", "fence", "get", "exit"}]
      BY <1>7, <2>1, <2>2
    <2>4. cl' = [d \in Client |-> cl'[d]]
      BY <1>9, <2>1
    <2>5. \A d \in Client : cl'[d] \in [f : 0 .. Fences, want : SUBSET Servers, call : {"none", "fence", "get", "exit"}]
      BY <2>1, <2>2, <2>3
    <2> HIDE DEF c
    <2>6. cl' \in [Client -> [f : 0 .. Fences, want : SUBSET Servers, call : {"none", "fence", "get", "exit"}]]
      BY <2>4, <2>5
    <2>7. cl'[c].f = cl[c].f /\ cl'[c].want \subseteq cl[c].want
      BY <2>2
    <2> QED
      BY <2>2, <2>6, <2>7
  <1>12. ProcsKnown(s)' /\ ~InBarrierNow(s)'
    BY <1>4, <1>9 DEF ProcsKnown, InBarrierNow, InBarrier
  <1>13. Exchanged(s)' = Completed(s)
    <2>1. Exchanged(s)' = Exchanged(s) /\ Exchanged(s) \in Nat
      BY <1>3, <1>4, <1>7, <1>11, <1>12, ServerLinkAssumption DEF Exchanged, LinkType
    <2> QED
      BY <1>1, <2>1 DEF Completed
  <1>14. ServerOK(s)'
    BY <1>1, <1>3, <1>4, <1>7, <1>9, <1>10, <1>11 DEF ServerOK
  <1>15. \A v \in Servers \ {s} : Unaffected(v)
    BY <1>7, <1>9, <1>10, <1>11 DEF Unaffected
  <1>16. active' \in [Pipes -> BOOLEAN] /\ known' \in [Servers -> SUBSET Servers]
    BY <1>3, <1>9 DEF LinkType
  <1> QED
    BY <1>0, <1>4, <1>9, <1>10, <1>11, <1>12, <1>13, <1>14, <1>15, <1>16, CallbackStep

LEMMA HandleStep ==
  ASSUME LinkInv, Undisturbed, NEW p \in Pipes, NEW s, s = Reader(p), NEW h \in Header, NEW body,
         h.full => body \in Body, ~h.full => body = NoBody, pout[s] = << >>,
         Message(h, body) \in Messages(p), Taken(p, Message(h, body)), Handle(s, p, h, body)
  PROVE  LinkInv'
  <1> DEFINE m == Message(h, body)
  <1>1. Handling(p, s, h, body, m)
    BY DEF Handling, Handle
  <1> HIDE DEF m
  <1>2. CASE h.dst # s
    <2>1. /\ pout' = [pout EXCEPT ![s] = Writes(s, h, body)]
          /\ UNCHANGED <<active, hub, dmreq, denied, known, cl, todo, faults>>
      BY <1>2 DEF library, Handle
    <2> QED
      BY <1>1, <1>2, <2>1, ForwardStep
  <1>3. CASE h.dst = s /\ h.cmd = "BARRIER_REQUEST"
    <2>1. BarrierRequest(s)
      BY <1>3 DEF Handle
    <2> QED
      BY <1>1, <1>3, <2>1, BarrierCountedStep, BarrierCompleteStep
  <1>4. CASE h.dst = s /\ h.cmd = "BARRIER_RESPONSE"
    <2>1. BarrierResponse(p)
      BY <1>4 DEF Handle
    <2> QED
      BY <1>1, <1>4, <2>1, BarrierResponseStep
  <1>5. CASE h.dst = s /\ h.cmd = "FENCE_CONTRIB"
    <2>1. FenceContrib(s, body)
      BY <1>5 DEF Handle
    <2> QED
      BY <1>1, <1>5, <2>1, ContributionCountedStep, ExchangeCompleteStep
  <1>6. CASE h.dst = s /\ h.cmd = "DMDX_REQUEST"
    <2>1. DmdxRequest(s, body)
      BY <1>6 DEF Handle
    <2> QED
      BY <1>1, <1>6, <2>1, DmdxRequestStep
  <1>7. CASE h.dst = s /\ h.cmd \in {"FENCE_COMPLETE", "DMDX_RESPONSE"}
    <2>1. Callback(s, p, body)
      BY <1>7 DEF Handle
    <2> QED
      BY <1>1, <1>7, <2>1, FenceCompleteStep, DmdxResponseStep
  <1> QED
    BY <1>2, <1>3, <1>4, <1>5, <1>6, <1>7 DEF Header

LEMMA ReadHeaderStep ==
  ASSUME LinkInv, Undisturbed, NEW p \in Pipes, ReadHeader(p)
  PROVE  LinkInv'
  <1>1. PICK h : h = Head(pipe[p])
    OBVIOUS
  <1>2. PICK s \in Servers : s = Reader(p)
    BY Topology
  <1>3. LinkType /\ StreamsOK
    BY DEF LinkInv
  <1>4. pipe[p] # << >>
    BY DEF ReadHeader
  <1>5. /\ h \in Header /\ pout[s] = << >>
        /\ \/ /\ \A q \in Pipes : Unread(q)' = Unread(q)
              /\ h.full
              /\ cur' = [cur EXCEPT ![s] = [what |-> "payload", pipe |-> p, hdr |-> h]]
              /\ pipe' = [pipe EXCEPT ![p] = Tail(@)]
              /\ UNCHANGED <<mpc, mout, pout, active, slot, hub, dmreq, denied, known, cl, todo, faults>>
           \/ /\ Message(h, NoBody) \in Messages(p) /\ Taken(p, Message(h, NoBody))
              /\ ~h.full /\ Handle(s, p, h, NoBody)
    BY <1>1, <1>2, <1>3, FirstRead
  <1>6. CASE \A q \in Pipes : Unread(q)' = Unread(q) /\ h.full
    BY <1>2, <1>4, <1>5, <1>6, HeaderStep
  <1>7. CASE ~h.full
    BY <1>2, <1>5, <1>7, HandleStep
  <1> QED
    BY <1>2, <1>4, <1>5, <1>7, HeaderStep

LEMMA ReadPayloadStep ==
  ASSUME LinkInv, Undisturbed, NEW s \in Servers, ReadPayload(s)
  PROVE  LinkInv'
  <1>1. PICK p : p = cur[s].pipe
    OBVIOUS
  <1>2. PICK h : h = cur[s].hdr
    OBVIOUS
  <1>3. PICK c : c = Head(pipe[p])
    OBVIOUS
  <1>4. PICK b : b = c.body
    OBVIOUS
  <1>5. LinkType /\ StreamsOK
    BY DEF LinkInv
  <1>6. /\ p \in Pipes /\ Reader(p) = s /\ h \in Header /\ b \in Body /\ pout[s] = << >>
        /\ Message(h, b) \in Messages(p) /\ Taken(p, Message(h, b))
        /\ h.full /\ Handle(s, p, h, b)
    BY <1>1, <1>2, <1>3, <1>4, <1>5, SecondRead
  <1> QED
    BY <1>6, HandleStep

-----------------------------------------------------------------------------
LEMMA InitOK == Init => LinkInv
  <1> SUFFICES ASSUME Init PROVE LinkInv
    OBVIOUS
  <1>1. LinkType
    <2>1. << >> \in Seq(Chunk) /\ << >> \in Seq(Entry) /\ << >> \in Seq(Part) /\ Len(<< >>) = 0
      OBVIOUS
    <2>2. None \in Op
      BY DEF Op
    <2>3. cl \in [Client -> [f : 0 .. Fences, want : SUBSET Servers, call : {"none", "fence", "get", "exit"}]]
      BY ServerLinkAssumption DEF Init
    <2> QED
      BY <2>1, <2>2, <2>3, ServerLinkAssumption DEF Init, LinkType
  <1>2. \A q \in Pipes : Stream(q) = << >>
    <2> SUFFICES ASSUME NEW q \in Pipes PROVE Stream(q) = << >>
      OBVIOUS
    <2>1. cur[Reader(q)] = Idle /\ Idle.what # "payload"
      BY Topology DEF Init, Idle
    <2>2. Begun(q) = << >>
      BY <2>1 DEF Begun
    <2>3. InPipe(q) = << >>
      BY DEF Init, InPipe
    <2>4. Out(Writer(q)) = << >> \o << >>
      BY Topology DEF Init, Out
    <2>5. << >> \o << >> = << >>
      OBVIOUS
    <2> QED
      BY <2>2, <2>3, <2>4, <2>5 DEF Stream, Unread
  <1>3. \A q \in Pipes : Messages(q) = {} /\ Framed(Stream(q), q) /\ OnePerOwner(Stream(q), q)
    BY <1>2, Nothing DEF Messages
  <1>4. StreamsOK
    <2>1. \A s \in Servers : WritersOK(s)
      BY DEF Init, WritersOK
    <2>2. BroadcastOK
      BY Topology DEF Init, BroadcastOK
    <2> QED
      BY <1>3, <2>1, <2>2 DEF StreamsOK, FramesOK
  <1>5. MessagesOK /\ OneMessage
    BY <1>3 DEF MessagesOK, OneMessage
  <1>6. RequestsOK
    BY DEF Init, RequestsOK
  <1>7. \A s \in Servers : ~ProcsKnown(s) /\ ~InBarrierNow(s) /\ \A cmd : ~Has(s, cmd)
    BY <1>3 DEF Init, ProcsKnown, InBarrierNow, InBarrier, Has
  <1>8. ServersOK
    <2> SUFFICES ASSUME NEW s \in Servers PROVE ServerOK(s)
      BY DEF ServersOK
    <2>1. ClientsIdle(s) /\ cl[<<s, 1>>].f = 0
      BY ServerLinkAssumption DEF Init, ClientsIdle, Client
    <2>2. mpc[s] = "init" /\ todo[s] = {}
      BY DEF Init
    <2> QED
      BY <1>7, <2>1, <2>2 DEF ServerOK, ClientsIdle
  <1>9. CountersOK
    <2>1. BarrierCounted = {}
      BY <1>7 DEF BarrierCounted
    <2>2. Contributors = {} /\ \A i \in DOMAIN parts : FALSE
      BY DEF Init, Contributors
    <2> QED
      BY <2>1, <2>2, FS_EmptySet DEF CountersOK, Init
  <1>10. InStep
    BY <1>7 DEF InStep, Completed, Exchanged
  <1> QED
    BY <1>1, <1>4, <1>5, <1>6, <1>8, <1>9, <1>10 DEF LinkInv

LEMMA NextOK ==
  ASSUME Undisturbed
  PROVE  LinkInv /\ [Next]_vars => LinkInv'
  <1> SUFFICES ASSUME LinkInv, [Next]_vars PROVE LinkInv'
    OBVIOUS
  <1>1. ASSUME NEW s \in Servers, Main(s) PROVE LinkInv'
    BY <1>1, CallBarrierStep, SendProcsStep, MainWriteStep, MainWakesStep DEF Main
  <1>2. ASSUME NEW s \in Servers, Progress(s) PROVE LinkInv'
    BY <1>2, ProgressWriteStep, ReadPayloadStep, ReadHeaderStep, LibraryAnswersStep, LibraryFailsStep DEF Progress
  <1>3. ASSUME NEW c \in Client, ClientStep(c) PROVE LinkInv'
    BY <1>3, ClientFenceStep, ClientGetStep, ClientExitStep DEF ClientStep
  <1>4. CASE UNCHANGED vars
    <2>1. /\ UNCHANGED link /\ UNCHANGED hub
          /\ UNCHANGED <<mpc, active, slot, hub, dmreq, denied, known, cl, todo, faults>>
      BY <1>4 DEF library, vars
    <2>2. FramesOK' /\ \A q \in Pipes : Messages(q)' = Messages(q)
      BY <2>1, SameStreams DEF LinkInv, StreamsOK
    <2>3. LinkType'
      BY <2>1 DEF LinkInv, LinkType, link, hub
    <2>4. (\A s \in Servers : WritersOK(s)') /\ BroadcastOK'
      BY <2>1 DEF LinkInv, StreamsOK, WritersOK, BroadcastOK, link
    <2>5. MessagesOK' /\ OneMessage' /\ RequestsOK' /\ ServersOK' /\ CountersOK' /\ InStep'
      BY <2>1, <2>2, Unmoved
    <2> QED
      BY <2>2, <2>3, <2>4, <2>5 DEF LinkInv, StreamsOK
  <1> QED
    BY <1>1, <1>2, <1>3, <1>4 DEF Next, Stop

(* The streams, messages and counters are right in every state.            *)
THEOREM LinkInvariant ==
  ASSUME Undisturbed
  PROVE  Spec => []LinkInv
  BY InitOK, NextOK, PTL DEF Spec

(* A header is always followed by its payload: server_read_cb never takes  *)
(* the bytes of one message for those of another.                          *)
THEOREM HeadersArePaired ==
  ASSUME Undisturbed
  PROVE  Spec => []NoMisframing
  <1>1. LinkInv => NoMisframing
    BY DEF LinkInv, LinkType, NoMisframing
  <1> QED
    BY <1>1, LinkInvariant, PTL

(* Each FENCE_COMPLETE and DMDX_RESPONSE runs the callback of an operation *)
(* that waits for it, with the contributions of all servers to that fence, *)
(* or the data of the rank asked, or none where the library of that rank's *)
(* server has failed to find it.                                           *)
THEOREM CallbacksAreRight ==
  ASSUME Undisturbed
  PROVE  Spec => []CallbacksMatch
  <1>1. LinkInv => CallbacksMatch
    BY DEF LinkInv, LinkType, CallbacksMatch
  <1> QED
    BY <1>1, LinkInvariant, PTL

(* A client asks for data only after the exchange of the process maps has  *)
(* told its server where every rank is.                                    *)
THEOREM RanksAreKnown ==
  ASSUME Undisturbed
  PROVE  Spec => []RanksKnown
  <1>1. LinkInv => RanksKnown
    BY DEF LinkInv, LinkType, RanksKnown
  <1> QED
    BY <1>1, LinkInvariant, PTL

(* A client leaves a fence when all clients of all servers have called it. *)
THEOREM FencesAreSafe ==
  ASSUME Undisturbed
  PROVE  Spec => []FenceSafety
  <1>1. LinkInv => FenceSafety
    <2> SUFFICES ASSUME LinkInv PROVE FenceSafety
      OBVIOUS
    <2>1. LinkType /\ ServersOK /\ InStep
      BY DEF LinkInv
    <2>2. TypeOK
      <3>1. \A c \in Chunk : c.chunk = "hdr" => c \in Header
        BY DEF Chunk
      <3>2. ASSUME NEW p \in Pipes, NEW i \in DOMAIN pipe[p] PROVE pipe[p][i] \in Chunk
        <4>1. pipe[p] \in Seq(Chunk)
          BY <2>1 DEF LinkType
        <4> QED
          BY <4>1, ElementOfSeq, LenProperties
      <3>3. \A s \in Servers : cur[s] = Idle \/ cur[s].hdr \in Header
        BY <2>1 DEF LinkType
      <3> QED
        BY <2>1, <3>1, <3>2, <3>3 DEF LinkType, TypeOK
    <2>3. ASSUME NEW c \in Client, NEW d \in Client PROVE cl[c].f <= FencesCalled(d)
      <3>1. PICK s \in Servers, i \in 1 .. Local : c = <<s, i>>
        BY DEF Client
      <3>2. PICK t \in Servers, j \in 1 .. Local : d = <<t, j>>
        BY DEF Client
      <3> DEFINE f == cl[<<s, 1>>].f
                 g == cl[<<t, 1>>].f
                 calls == cl[d].call = "fence"
      <3>3. /\ cl[c].f = f /\ cl[d].f = g /\ f \in Nat /\ g \in Nat
            /\ FencesCalled(d) = g + (IF calls THEN 1 ELSE 0)
        <4>1. cl[c].f = f /\ cl[d].f = g
          BY <2>1, <3>1, <3>2 DEF ServersOK, ServerOK
        <4>2. cl[c].f \in Nat /\ cl[d].f \in Nat
          BY <2>1, ServerLinkAssumption DEF LinkType
        <4> QED
          BY <4>1, <4>2 DEF FencesCalled
      <3> HIDE DEF f, g, calls
      <3>4. Completed(s) = Completed(t)
        BY <2>1 DEF InStep
      <3>5. Exchanged(s) \in Nat /\ Exchanged(t) \in Nat /\ Exchanged(t) <= 1 + g
        BY <3>3 DEF Exchanged, f, g
      <3>6. CASE f = 0
        BY <3>3, <3>6
      <3>7. CASE f # 0
        <4>1. ProcsKnown(s) /\ Exchanged(s) = 1 + f
          <5>1. mpc[s] \notin {"init", "barrier1", "launch", "procs"}
            <6>1. 1 \in 1 .. Local
              BY ServerLinkAssumption
            <6> QED
              BY <2>1, <3>7, <6>1 DEF ServersOK, ServerOK, ClientsIdle, f
          <5> QED
            BY <2>1, <5>1 DEF ProcsKnown, LinkType, Exchanged, f
        <4>2. CASE ~Has(t, "FENCE_COMPLETE")
          <5>1. 1 + f <= 1 + g
            BY <3>3, <3>4, <3>5, <4>1, <4>2 DEF Completed
          <5> QED
            BY <3>3, <5>1
        <4>3. CASE Has(t, "FENCE_COMPLETE")
          <5>1. 1 + f <= Exchanged(t) + 1
            BY <3>3, <3>4, <3>5, <4>1, <4>3 DEF Completed
          <5>2. InExchange(t)
            <6>1. PICK q \in Pipes : \E n \in Messages(q) : Owner(n.hdr) = t /\ n.hdr.cmd = "FENCE_COMPLETE"
              BY <4>3 DEF Has
            <6>2. PICK n \in Messages(q) : Owner(n.hdr) = t /\ n.hdr.cmd = "FENCE_COMPLETE"
              BY <6>1
            <6> QED
              BY <6>2, LiveMode
          <5>3. WaitsForProcs(t) \/ WaitsForFence(t)
            BY <2>1, <5>2, Modes DEF ServersOK
          <5>4. WaitsForProcs(t) => Exchanged(t) = 0
            BY DEF WaitsForProcs, Exchanged, ProcsKnown
          <5>5. WaitsForFence(t) => calls
            BY <3>2 DEF WaitsForFence, calls
          <5> QED
            BY <3>3, <3>5, <3>7, <5>1, <5>3, <5>4, <5>5
        <4> QED
          BY <4>2, <4>3
      <3> QED
        BY <3>6, <3>7
    <2> QED
      BY <2>2, <2>3 DEF FenceSafety
  <1> QED
    BY <1>1, LinkInvariant, PTL

-----------------------------------------------------------------------------
(* The barrier messages of ServerLink, with everything else left out, are  *)
(* the protocol of ServerBarrier: for every number of servers and clients, *)
(* in the runs that are Undisturbed.                                       *)
(*                                                                         *)
(* Commands(pipe[p]) looks for barrier headers in a pipe.  By LinkInv      *)
(* there is one at most, that of the server at the other end from the hub, *)
(* so that a write and a read of any other chunk leave it alone.           *)

-----------------------------------------------------------------------------
(* The barrier headers in a sequence of chunks, of which there is one at   *)
(* most.                                                                   *)

NoneIn(chunks) == \A i \in DOMAIN chunks : ~IsBarrier(chunks[i])
OneIn(chunks) ==
  \A i, j \in DOMAIN chunks : IsBarrier(chunks[i]) /\ IsBarrier(chunks[j]) => i = j

LEMMA CommandsOfNone ==
  ASSUME NEW S, NoneIn(S)
  PROVE  Commands(S) = << >>
  <1> DEFINE b == {i \in DOMAIN S : IsBarrier(S[i])}
             Nth(n) == CHOOSE i \in b : Cardinality({j \in b : j < i}) = n - 1
  <1>1. b = {}
    BY DEF NoneIn
  <1>2. Commands(S) = [n \in 1 .. Cardinality(b) |-> S[Nth(n)].cmd]
    BY DEF Commands
  <1> HIDE DEF b, Nth
  <1>3. Cardinality(b) = 0
    BY <1>1, FS_EmptySet
  <1> QED
    BY <1>2, <1>3

LEMMA CommandsOfOne ==
  ASSUME NEW S \in Seq(Chunk), OneIn(S), NEW k \in DOMAIN S, IsBarrier(S[k])
  PROVE  Commands(S) = <<S[k].cmd>>
  <1> DEFINE b == {i \in DOMAIN S : IsBarrier(S[i])}
             Nth(n) == CHOOSE i \in b : Cardinality({j \in b : j < i}) = n - 1
  <1>1. b = {k}
    BY DEF OneIn
  <1>2. Cardinality(b) = 1
    BY <1>1, FS_Singleton
  <1>3. k \in Nat
    BY LenProperties
  <1> HIDE DEF b
  <1> DEFINE before == {j \in b : j < k}
  <1>4. before = {}
    BY <1>1, <1>3
  <1>5. Cardinality(before) = 1 - 1
    <2> HIDE DEF before
    <2> QED
      BY <1>4, FS_EmptySet
  <1>6. Nth(1) = k
    <2>1. \A i \in b : i = k
      BY <1>1
    <2>2. k \in b
      BY <1>1
    <2> QED
      BY <1>5, <2>1, <2>2
  <1> HIDE DEF Nth
  <1>7. Commands(S) = [n \in 1 .. Cardinality(b) |-> S[Nth(n)].cmd]
    BY DEF Commands, b, Nth
  <1>8. Commands(S) = [n \in 1 .. 1 |-> S[Nth(n)].cmd]
    BY <1>2, <1>7
  <1>9. \A n \in 1 .. 1 : S[Nth(n)].cmd = S[k].cmd
    <2>1. \A n \in 1 .. 1 : n = 1
      OBVIOUS
    <2> QED
      BY <1>6, <2>1
  <1> QED
    BY <1>8, <1>9

LEMMA CommandsWritten ==
  ASSUME NEW S \in Seq(Chunk), NEW c \in Chunk, OneIn(Append(S, c))
  PROVE  /\ OneIn(S)
         /\ ~IsBarrier(c) => Commands(Append(S, c)) = Commands(S)
         /\ IsBarrier(c) => Commands(Append(S, c)) = Append(Commands(S), c.cmd)
  <1> DEFINE n == Len(S)
             T == Append(S, c)
  <1>1. /\ n \in Nat /\ DOMAIN S = 1 .. n /\ T \in Seq(Chunk) /\ DOMAIN T = 1 .. n + 1 /\ T[n + 1] = c
        /\ \A i \in 1 .. n : T[i] = S[i] /\ i \in 1 .. n + 1
    BY AppendProperties, LenProperties
  <1> HIDE DEF n, T
  <1>2. OneIn(S)
    BY <1>1 DEF OneIn, T
  <1>3. CASE IsBarrier(c)
    <2>1. NoneIn(S)
      BY <1>1, <1>3 DEF OneIn, NoneIn, T
    <2>2. n + 1 \in DOMAIN T /\ IsBarrier(T[n + 1])
      BY <1>1, <1>3
    <2>3. Commands(T) = <<c.cmd>>
      BY <1>1, <2>2, CommandsOfOne DEF T
    <2> QED
      BY <1>2, <1>3, <2>1, <2>3, CommandsOfNone DEF T
  <1>4. CASE ~IsBarrier(c)
    <2>1. CASE NoneIn(S)
      <3>1. NoneIn(T)
        BY <1>1, <1>4, <2>1 DEF NoneIn
      <3> QED
        BY <1>2, <1>4, <2>1, <3>1, CommandsOfNone DEF T
    <2>2. CASE ~NoneIn(S)
      <3>1. PICK k \in DOMAIN S : IsBarrier(S[k])
        BY <2>2 DEF NoneIn
      <3>2. Commands(S) = <<S[k].cmd>>
        BY <1>2, <3>1, CommandsOfOne
      <3>3. k \in DOMAIN T /\ T[k] = S[k]
        BY <1>1, <3>1
      <3>4. Commands(T) = <<T[k].cmd>>
        BY <1>1, <3>1, <3>3, CommandsOfOne DEF T
      <3> QED
        BY <1>2, <1>4, <3>2, <3>3, <3>4 DEF T
    <2> QED
      BY <2>1, <2>2
  <1> QED
    BY <1>3, <1>4

LEMMA CommandsRead ==
  ASSUME NEW S \in Seq(Chunk), S # << >>, OneIn(S)
  PROVE  /\ ~IsBarrier(Head(S)) => Commands(Tail(S)) = Commands(S)
         /\ IsBarrier(Head(S)) => Commands(S) = <<Head(S).cmd>> /\ Commands(Tail(S)) = << >>
  <1> DEFINE n == Len(S)
             T == Tail(S)
  <1>1. /\ n \in Nat \ {0} /\ DOMAIN S = 1 .. n /\ T \in Seq(Chunk) /\ DOMAIN T = 1 .. n - 1
        /\ Head(S) = S[1] /\ \A i \in 1 .. n - 1 : T[i] = S[i + 1] /\ i + 1 \in 1 .. n
    BY HeadTailProperties, LenProperties, EmptySeq
  <1> HIDE DEF n, T
  <1>2. CASE IsBarrier(Head(S))
    <2>1. NoneIn(T)
      BY <1>1, <1>2 DEF OneIn, NoneIn
    <2>2. 1 \in DOMAIN S /\ IsBarrier(S[1])
      BY <1>1, <1>2
    <2> QED
      BY <1>1, <1>2, <2>1, <2>2, CommandsOfNone, CommandsOfOne DEF T
  <1>3. CASE ~IsBarrier(Head(S))
    <2>1. CASE NoneIn(S)
      <3>1. NoneIn(T)
        BY <1>1, <2>1 DEF NoneIn
      <3> QED
        BY <1>3, <2>1, <3>1, CommandsOfNone DEF T
    <2>2. CASE ~NoneIn(S)
      <3>1. PICK k \in DOMAIN S : IsBarrier(S[k])
        BY <2>2 DEF NoneIn
      <3>2. k - 1 \in 1 .. n - 1 /\ (k - 1) + 1 = k
        BY <1>1, <1>3, <3>1
      <3>3. T[k - 1] = S[k]
        BY <1>1, <3>2
      <3>4. OneIn(T)
        <4> SUFFICES ASSUME NEW i \in DOMAIN T, NEW j \in DOMAIN T, IsBarrier(T[i]), IsBarrier(T[j])
                     PROVE  i = j
          BY DEF OneIn
        <4>1. /\ i + 1 \in DOMAIN S /\ T[i] = S[i + 1] /\ j + 1 \in DOMAIN S /\ T[j] = S[j + 1]
              /\ i \in Nat /\ j \in Nat
          BY <1>1
        <4>2. i + 1 = j + 1
          BY <4>1 DEF OneIn
        <4> QED
          BY <4>1, <4>2
      <3>5. Commands(S) = <<S[k].cmd>> /\ Commands(T) = <<T[k - 1].cmd>>
        BY <1>1, <3>1, <3>2, <3>3, <3>4, CommandsOfOne
      <3> QED
        BY <1>3, <3>3, <3>5 DEF T
    <2> QED
      BY <2>1, <2>2
  <1> QED
    BY <1>2, <1>3

-----------------------------------------------------------------------------
(* The state of the barrier protocol, one server or pipe at a time.        *)

Pc(s) == IF ~InBarrier(s) THEN "run" ELSE IF mout[s] # <<>> THEN "send" ELSE "wait"
Round(s) == CASE mpc[s] \in {"init", "barrier1"} -> 0 [] mpc[s] = "done" -> 2 [] OTHER -> 1
Answering(out) == IF out # <<>> /\ IsBarrier(Head(out).chunk) THEN Head(out).chunk.dst ELSE -1

(* The hub is in a broadcast of responses, down to server 0, or nothing    *)
(* that a progress thread is to write is about barriers.                   *)
ToAll == Hdr("BARRIER_RESPONSE", 0, 0, FALSE)
Response(d) == [pipe |-> d, chunk |-> [ToAll EXCEPT !.dst = d]]
Answers(d) == [i \in 1 .. d + 1 |-> Response(d + 1 - i)]
NoBarriers(out) == \A i \in DOMAIN out : ~IsBarrier(out[i].chunk)
AnswersOK ==
  /\ \A s \in Servers \ {0} : NoBarriers(pout[s])
  /\ NoBarriers(pout[0]) \/ \E d \in Servers : pout[0] = Answers(d)

LEMMA NotAnswering ==
  ASSUME NEW out \in Seq(Entry), NoBarriers(out)
  PROVE  Answering(out) = -1
  <1>1. CASE out = << >>
    BY <1>1 DEF Answering
  <1>2. CASE out # << >>
    <2>1. 1 \in DOMAIN out /\ Head(out) = out[1]
      BY <1>2, HeadOfWrites
    <2> QED
      BY <2>1 DEF Answering, NoBarriers
  <1> QED
    BY <1>1, <1>2

LEMMA AnswersShape ==
  ASSUME NEW d \in Servers
  PROVE  /\ Answers(d) \in Seq(Entry) /\ Answers(d) # << >> /\ Head(Answers(d)) = Response(d)
         /\ Response(d) \in Entry /\ IsBarrier(Response(d).chunk) /\ Answering(Answers(d)) = d
         /\ d = 0 => Tail(Answers(d)) = << >>
         /\ d # 0 => Tail(Answers(d)) = Answers(d - 1)
  <1>1. d \in Nat /\ \A q \in 0 .. d : q \in Servers /\ q \in Pipes
    BY ServerLinkAssumption DEF Servers, Pipes
  <1>2. ASSUME NEW q \in 0 .. d PROVE Response(q) \in Entry
    <2>1. [ToAll EXCEPT !.dst = q] \in Header
      <3>1. ToAll \in Header /\ q \in Servers
        BY <1>1, Topology DEF Hdr, Header, ToAll
      <3> QED
        BY <3>1 DEF Header
    <2> QED
      BY <1>1, <2>1 DEF Response, Entry, Chunk
  <1>3. \A i \in 1 .. d + 1 : d + 1 - i \in 0 .. d
    BY <1>1
  <1>4. Answers(d) \in Seq(Entry) /\ Len(Answers(d)) = d + 1
    BY <1>1, <1>2, <1>3 DEF Answers
  <1>5. Answers(d)[1] = Response(d)
    <2>1. 1 \in 1 .. d + 1 /\ d + 1 - 1 = d
      BY <1>1
    <2> QED
      BY <2>1 DEF Answers
  <1>6. Answers(d) # << >> /\ Head(Answers(d)) = Response(d)
    BY <1>1, <1>4, <1>5
  <1>7. IsBarrier(Response(d).chunk) /\ Response(d).chunk.dst = d
    BY DEF Response, IsBarrier, Hdr, ToAll
  <1>8. Tail(Answers(d)) \in Seq(Entry) /\ Len(Tail(Answers(d))) = d
    BY <1>1, <1>4, <1>6, HeadTailProperties
  <1>9. d = 0 => Tail(Answers(d)) = << >>
    BY <1>8, EmptySeq
  <1>10. ASSUME d # 0 PROVE Tail(Answers(d)) = Answers(d - 1)
    <2>1. d - 1 \in Nat /\ (d - 1) + 1 = d
      BY <1>1, <1>10
    <2>2. Answers(d - 1) = [i \in 1 .. d |-> Response((d - 1) + 1 - i)]
      BY <2>1 DEF Answers
    <2>3. ASSUME NEW i \in 1 .. d PROVE Tail(Answers(d))[i] = Response((d - 1) + 1 - i)
      <3>1. Tail(Answers(d))[i] = Answers(d)[i + 1]
        BY <1>4, <1>6, <1>8, HeadTailProperties
      <3>2. i + 1 \in 1 .. d + 1 /\ d + 1 - (i + 1) = (d - 1) + 1 - i
        BY <1>1
      <3>3. Answers(d)[i + 1] = Response(d + 1 - (i + 1))
        BY <3>2 DEF Answers
      <3> QED
        BY <3>1, <3>2, <3>3
    <2>4. /\ Answers(d - 1) \in Seq(Entry) /\ Len(Answers(d - 1)) = d
      <3>1. \A i \in 1 .. d : (d - 1) + 1 - i \in 0 .. d
        BY <1>1
      <3> QED
        BY <1>1, <1>2, <2>2, <3>1
    <2>5. \A i \in 1 .. d : Tail(Answers(d))[i] = Answers(d - 1)[i]
      BY <2>2, <2>3
    <2> QED
      BY <1>8, <2>4, <2>5, SeqEqual
  <1> QED
    BY <1>1, <1>2, <1>4, <1>6, <1>7, <1>9, <1>10 DEF Answering

LEMMA BarrierBroadcast ==
  Broadcast(ToAll, NoBody) = Answers(N - 1)
  <1> DEFINE h == ToAll
  <1>1. N \in Nat /\ N >= 2 /\ N - 1 + 1 = N
    BY ServerLinkAssumption
  <1>2. Chunks(h) = 1 /\ 1 * N = N
    BY <1>1 DEF Chunks, Hdr, ToAll
  <1>3. ASSUME NEW i \in 1 .. N PROVE Broadcasted(i, h, NoBody) = Response(N - i)
    <2>1. (i - 1) \div 1 = i - 1 /\ 1 + ((i - 1) % 1) = 1 /\ N - 1 - (i - 1) = N - i
      BY <1>1
    <2>2. PICK q : q = N - i
      OBVIOUS
    <2>3. ~[h EXCEPT !.dst = q].full /\ [h EXCEPT !.dst = q].dst = q
      BY DEF Hdr, ToAll
    <2>4. Writes(0, [h EXCEPT !.dst = q], NoBody) = <<Response(q)>>
      BY <2>3 DEF Writes, Route, Response
    <2> HIDE DEF h
    <2>5. Broadcasted(i, h, NoBody) = Writes(0, [h EXCEPT !.dst = q], NoBody)[1]
      BY <1>2, <2>1, <2>2 DEF Broadcasted
    <2> QED
      <3>1. <<Response(q)>>[1] = Response(q)
        OBVIOUS
      <3> QED
        BY <2>2, <2>3, <2>4, <2>5, <3>1
  <1>4. \A i \in 1 .. N : N - 1 + 1 - i = N - i
    BY <1>1
  <1> QED
    BY <1>1, <1>2, <1>3, <1>4 DEF Broadcast, Answers

LEMMA OtherBroadcast ==
  ASSUME NEW body \in Body
  PROVE  LET W == Broadcast(Hdr("FENCE_COMPLETE", 0, 0, TRUE), body)
         IN  W \in Seq(Entry) /\ NoBarriers(W)
  <1> DEFINE h == Hdr("FENCE_COMPLETE", 0, 0, TRUE)
             W == Broadcast(h, body)
  <1>1. h \in Header /\ h.cmd = "FENCE_COMPLETE"
    BY Topology DEF Hdr, Header
  <1>2. /\ W \in Seq(Entry)
        /\ \A p : /\ Framed(W, p)
                  /\ MessagesIn(W, p) = IF p \in Servers THEN {Message([h EXCEPT !.dst = p], body)} ELSE {}
    BY <1>1, BroadcastMessages
  <1> HIDE DEF W
  <1>3. ASSUME NEW i \in DOMAIN W PROVE ~IsBarrier(W[i].chunk)
    <2>1. PICK p : p = W[i].pipe
      OBVIOUS
    <2>0. Framed(W, p) /\ W \in Seq(Entry)
      BY <1>2
    <2>2. PICK n \in MessagesIn(W, p) :
            \/ W[i].chunk.chunk = "hdr" /\ n.hdr = W[i].chunk
            \/ W[i].chunk.chunk = "data" /\ n.hdr.full /\ n.body = W[i].chunk.body
      BY <2>0, <2>1, EntryOfMessage
    <2>3. n = Message([h EXCEPT !.dst = p], body)
      <3> HIDE DEF h
      <3>1. MessagesIn(W, p) = IF p \in Servers THEN {Message([h EXCEPT !.dst = p], body)} ELSE {}
        BY <1>2
      <3> QED
        BY <2>2, <3>1
    <2>4. n.hdr.cmd = "FENCE_COMPLETE"
      BY <2>3 DEF Message, Hdr
    <2> QED
      BY <2>2, <2>4 DEF IsBarrier
  <1> QED
    BY <1>2, <1>3 DEF NoBarriers, W

LEMMA OtherWrites ==
  ASSUME NEW s \in Servers, NEW h \in Header, NEW body, h.full => body \in Body, ~IsBarrier(h)
  PROVE  Writes(s, h, body) \in Seq(Entry) /\ NoBarriers(Writes(s, h, body))
  <1> DEFINE p == Route(s, h.dst)
             W == <<[pipe |-> p, chunk |-> h], [pipe |-> p, chunk |-> Data(body)]>>
             V == <<[pipe |-> p, chunk |-> h]>>
  <1>1. Writes(s, h, body) = IF h.full THEN W ELSE V
    BY DEF Writes
  <1>2. p \in Pipes
    BY Topology DEF Header
  <1>3. h \in Chunk /\ (h.full => Data(body) \in Chunk)
    BY DEF Chunk, Data
  <1>4. [pipe |-> p, chunk |-> h] \in Entry /\ (h.full => [pipe |-> p, chunk |-> Data(body)] \in Entry)
    BY <1>2, <1>3 DEF Entry
  <1>5. ~IsBarrier(Data(body))
    BY DEF IsBarrier, Data
  <1>6. NoBarriers(W)
    <2>1. \A i \in DOMAIN W : i = 1 \/ i = 2
      OBVIOUS
    <2> QED
      BY <1>5, <2>1 DEF NoBarriers
  <1>7. NoBarriers(V)
    <2>1. \A i \in DOMAIN V : i = 1
      OBVIOUS
    <2> QED
      BY <2>1 DEF NoBarriers
  <1> QED
    BY <1>1, <1>4, <1>6, <1>7

(* The barrier headers on a pipe all belong to the server at its end.      *)
PipesOK == \A p \in Pipes : OneIn(pipe[p])

LEMMA OneBarrier == LinkInv => PipesOK
  <1> SUFFICES ASSUME LinkInv, NEW p \in Pipes,
                      NEW i \in DOMAIN pipe[p], NEW j \in DOMAIN pipe[p],
                      IsBarrier(pipe[p][i]), IsBarrier(pipe[p][j])
               PROVE  i = j
    BY DEF PipesOK, OneIn
  <1>1. LinkType /\ FramesOK /\ MessagesOK
    BY DEF LinkInv, StreamsOK
  <1> DEFINE B == Begun(p)
             n == Len(B)
             S == Stream(p)
             at(k) == n + k
  <1>2. /\ B \in Seq(Entry) /\ InPipe(p) \in Seq(Entry) /\ Out(Writer(p)) \in Seq(Entry) /\ S \in Seq(Entry)
        /\ S = (B \o InPipe(p)) \o Out(Writer(p)) /\ n \in Nat
    BY <1>1, StreamTypes, LenProperties DEF Stream, Unread
  <1>3. pipe[p] \in Seq(Chunk) /\ DOMAIN pipe[p] = 1 .. Len(pipe[p]) /\ Len(pipe[p]) \in Nat
    BY <1>1 DEF LinkType
  <1> HIDE DEF B, S
  <1>4. Len(InPipe(p)) = Len(pipe[p])
    BY <1>2, <1>3 DEF InPipe
  <1>5. ASSUME NEW k \in DOMAIN pipe[p], IsBarrier(pipe[p][k])
        PROVE  at(k) \in DOMAIN S /\ IsHdr(S[at(k)], p) /\ Owner(S[at(k)].chunk) = IF p >= 0 THEN p ELSE -p
    <2> DEFINE e == [pipe |-> p, chunk |-> pipe[p][k]]
    <2>1. k \in 1 .. Len(InPipe(p)) /\ InPipe(p)[k] = e
      BY <1>3, <1>4 DEF InPipe
    <2> DEFINE R == B \o InPipe(p)
    <2>2. n + k \in 1 .. Len(S) /\ S[n + k] = e
      <3>1. n + k \in 1 .. Len(R) /\ R[n + k] = e
        BY <1>2, <2>1, ConcatProperties, LenProperties
      <3>2. R \in Seq(Entry) /\ S = R \o Out(Writer(p))
        BY <1>2, ConcatProperties
      <3> HIDE DEF e, R
      <3> QED
        BY <1>2, <3>1, <3>2, ConcatProperties, LenProperties
    <2>3. at(k) \in DOMAIN S /\ IsHdr(S[at(k)], p) /\ S[at(k)].chunk = pipe[p][k]
      <3>1. e.pipe = p /\ e.chunk = pipe[p][k] /\ e.chunk.chunk = "hdr"
        BY <1>5 DEF IsBarrier
      <3> HIDE DEF e
      <3> QED
        BY <1>2, <2>2, <3>1, LenProperties DEF IsHdr
    <2>4. MessageAt(S, at(k)) \in Messages(p) /\ MessageAt(S, at(k)).hdr = pipe[p][k]
      BY <2>3 DEF Messages, MessagesIn, S, MessageAt
    <2> HIDE DEF at
    <2>5. PICK m : m \in Messages(p) /\ m.hdr = pipe[p][k]
      BY <2>4
    <2>6. MessageOK(p, m) /\ m.hdr \in Header /\ m.hdr.src \in Servers /\ m.hdr.dst \in Servers
      BY <1>1, <2>5, OwnerIsServer DEF MessagesOK
    <2>7. \A s \in Servers : s \in Nat
      BY Topology DEF Servers
    <2>8. Owner(m.hdr) = IF p >= 0 THEN p ELSE -p
      <3>1. CASE m.hdr.cmd = "BARRIER_REQUEST"
        <4>1. p = -m.hdr.src /\ Owner(m.hdr) = m.hdr.src
          BY <2>6, <3>1 DEF MessageOK, Owner
        <4> QED
          BY <2>6, <2>7, <4>1
      <3>2. CASE m.hdr.cmd = "BARRIER_RESPONSE"
        <4>1. p = m.hdr.dst /\ Owner(m.hdr) = m.hdr.dst
          BY <2>6, <3>2 DEF MessageOK, Owner
        <4> QED
          BY <2>6, <2>7, <4>1
      <3> QED
        BY <1>5, <2>5, <3>1, <3>2 DEF IsBarrier
    <2> QED
      BY <2>3, <2>5, <2>8
  <1>6. at(i) = at(j)
    <2>1. OnePerOwner(S, p)
      BY <1>1 DEF FramesOK, S
    <2> HIDE DEF at
    <2> QED
      BY <1>5, <2>1 DEF OnePerOwner
  <1> QED
    BY <1>2, <1>3, <1>6

LEMMA OneBarrierNext == LinkInv' => PipesOK'
  BY OneBarrier, PTL

-----------------------------------------------------------------------------
(* Steps that ServerBarrier does not see.                                  *)

PcMap == [s \in Servers |-> Pc(s)]
RoundMap == [s \in Servers |-> Round(s)]
ActiveMap == [s \in Servers |-> InBarrierNow(s)]
PipeMap == [p \in Pipes |-> Commands(pipe[p])]
BcastMap == Answering(pout[0])

LEMMA Mapped ==
  /\ SB!vars = <<PcMap, RoundMap, ActiveMap, PipeMap, bcnt, BcastMap>>
  /\ SB!Servers = Servers /\ SB!Pipes = Pipes
  BY DEF SB!vars, SB!Servers, SB!Pipes, Servers, Pipes, PcMap, RoundMap, ActiveMap, PipeMap, BcastMap,
         Pc, Round, InBarrierNow, Answering

LEMMA MappedNext ==
  (SB!vars = <<PcMap, RoundMap, ActiveMap, PipeMap, bcnt, BcastMap>>)'
  BY Mapped, PTL

LEMMA Stutters ==
  ASSUME PcMap' = PcMap, RoundMap' = RoundMap, ActiveMap' = ActiveMap, PipeMap' = PipeMap,
         bcnt' = bcnt, BcastMap' = BcastMap
  PROVE  UNCHANGED SB!vars
  BY Mapped, MappedNext

LEMMA CallsBarrier ==
  ASSUME NEW s \in Servers, PcMap[s] = "run", RoundMap[s] < (IF Finalize THEN 2 ELSE 1),
         PcMap' = [PcMap EXCEPT ![s] = "send"], ActiveMap' = [ActiveMap EXCEPT ![s] = TRUE],
         RoundMap' = RoundMap, PipeMap' = PipeMap, bcnt' = bcnt, BcastMap' = BcastMap
  PROVE  SB!BarrierCall(s)
  BY DEF SB!BarrierCall, PcMap, RoundMap, ActiveMap, PipeMap, BcastMap, Pc, Round, InBarrierNow, Answering,
         SB!Servers, SB!Pipes, Servers, Pipes

LEMMA SendsRequest ==
  ASSUME NEW s \in Servers, PcMap[s] = "send",
         PipeMap' = [PipeMap EXCEPT ![-s] = Append(@, "BARRIER_REQUEST")],
         PcMap' = [PcMap EXCEPT ![s] = "wait"],
         RoundMap' = RoundMap, ActiveMap' = ActiveMap, bcnt' = bcnt, BcastMap' = BcastMap
  PROVE  SB!BarrierSend(s)
  BY DEF SB!BarrierSend, SB!Write, SB!ToRoot, PcMap, RoundMap, ActiveMap, PipeMap, BcastMap, Pc, Round,
         InBarrierNow, Answering, SB!Servers, SB!Pipes, Servers, Pipes

LEMMA ReturnsFromBarrier ==
  ASSUME NEW s \in Servers, PcMap[s] = "wait", ~ActiveMap[s],
         PcMap' = [PcMap EXCEPT ![s] = "run"], RoundMap' = [RoundMap EXCEPT ![s] = @ + 1],
         ActiveMap' = ActiveMap, PipeMap' = PipeMap, bcnt' = bcnt, BcastMap' = BcastMap
  PROVE  SB!BarrierReturn(s)
  BY DEF SB!BarrierReturn, PcMap, RoundMap, ActiveMap, PipeMap, BcastMap, Pc, Round, InBarrierNow,
         Answering, SB!Servers, SB!Pipes, Servers, Pipes

LEMMA ReadsRequest ==
  ASSUME NEW s \in Servers, BcastMap = -1, PipeMap[-s] = <<"BARRIER_REQUEST">>,
         PipeMap' = [PipeMap EXCEPT ![-s] = << >>],
         bcnt' = (IF bcnt + 1 = N THEN 0 ELSE bcnt + 1),
         BcastMap' = (IF bcnt + 1 = N THEN N - 1 ELSE -1),
         PcMap' = PcMap, RoundMap' = RoundMap, ActiveMap' = ActiveMap
  PROVE  SB!ReadRequest(s)
  <1>1. Head(<<"BARRIER_REQUEST">>) = "BARRIER_REQUEST" /\ Tail(<<"BARRIER_REQUEST">>) = << >>
        /\ <<"BARRIER_REQUEST">> # << >>
    OBVIOUS
  <1>2. PipeMap' = [PipeMap EXCEPT ![-s] = Tail(@)]
    BY <1>1
  <1>3. PipeMap[-s] # << >> /\ Head(PipeMap[-s]) = "BARRIER_REQUEST"
    BY <1>1
  <1> QED
    BY <1>2, <1>3 DEF SB!ReadRequest, SB!Reads, SB!ToRoot, SB!Count, SB!Completes, PcMap, RoundMap, ActiveMap,
         PipeMap, BcastMap, Pc, Round, InBarrierNow, Answering, SB!Servers, SB!Pipes, Servers, Pipes

LEMMA Responds ==
  ASSUME BcastMap >= 0, PipeMap' = [PipeMap EXCEPT ![BcastMap] = Append(@, "BARRIER_RESPONSE")],
         BcastMap' = BcastMap - 1,
         PcMap' = PcMap, RoundMap' = RoundMap, ActiveMap' = ActiveMap, bcnt' = bcnt
  PROVE  SB!Respond
  BY DEF SB!Respond, SB!Write, SB!FromRoot, SB!NextToAnswer, PcMap, RoundMap, ActiveMap, PipeMap,
         BcastMap, Pc, Round, InBarrierNow, Answering, SB!Servers, SB!Pipes, Servers, Pipes

LEMMA ReadsResponse ==
  ASSUME NEW s \in Servers, s = 0 => BcastMap = -1, PipeMap[s] = <<"BARRIER_RESPONSE">>,
         PipeMap' = [PipeMap EXCEPT ![s] = << >>], ActiveMap' = [ActiveMap EXCEPT ![s] = FALSE],
         PcMap' = PcMap, RoundMap' = RoundMap, bcnt' = bcnt, BcastMap' = BcastMap
  PROVE  SB!ReadResponse(s)
  <1>1. Head(<<"BARRIER_RESPONSE">>) = "BARRIER_RESPONSE" /\ Tail(<<"BARRIER_RESPONSE">>) = << >>
        /\ <<"BARRIER_RESPONSE">> # << >>
    OBVIOUS
  <1>2. PipeMap' = [PipeMap EXCEPT ![s] = Tail(@)]
    BY <1>1
  <1>3. PipeMap[s] # << >> /\ Head(PipeMap[s]) = "BARRIER_RESPONSE"
    BY <1>1
  <1> QED
    BY <1>2, <1>3 DEF SB!ReadResponse, SB!Reads, SB!FromRoot, PcMap, RoundMap, ActiveMap, PipeMap, BcastMap,
         Pc, Round, InBarrierNow, Answering, SB!Servers, SB!Pipes, Servers, Pipes

-----------------------------------------------------------------------------
(* What the parts of a step do to the mapped state.                        *)

LEMMA SameMain ==
  ASSUME mpc' = mpc,
         \A s \in Servers : InBarrier(s) => (mout'[s] = << >> <=> mout[s] = << >>) /\ (active'[s] <=> active[s])
  PROVE  PcMap' = PcMap /\ RoundMap' = RoundMap /\ ActiveMap' = ActiveMap
  <1>1. \A s \in Servers : Pc(s)' = Pc(s)
    BY DEF Pc, InBarrier
  <1>2. \A s \in Servers : Round(s)' = Round(s)
    BY DEF Round
  <1>3. \A s \in Servers : InBarrierNow(s)' = InBarrierNow(s)
    BY DEF InBarrierNow, InBarrier
  <1> QED
    BY <1>1, <1>2, <1>3 DEF PcMap, RoundMap, ActiveMap

LEMMA PipeWritten ==
  ASSUME LinkType, PipesOK', NEW w \in Entry, pipe' = [pipe EXCEPT ![w.pipe] = Append(@, w.chunk)]
  PROVE  /\ ~IsBarrier(w.chunk) => PipeMap' = PipeMap
         /\ IsBarrier(w.chunk) => PipeMap' = [PipeMap EXCEPT ![w.pipe] = Append(@, w.chunk.cmd)]
  <1>1. w.pipe \in Pipes /\ w.chunk \in Chunk /\ pipe \in [Pipes -> Seq(Chunk)]
    BY DEF LinkType, Entry
  <1> DEFINE q == w.pipe
             c == w.chunk
  <1>2. pipe'[q] = Append(pipe[q], c) /\ \A r \in Pipes \ {q} : pipe'[r] = pipe[r]
    BY <1>1
  <1>3. OneIn(Append(pipe[q], c)) /\ pipe[q] \in Seq(Chunk)
    BY <1>1, <1>2 DEF PipesOK
  <1>4. /\ ~IsBarrier(c) => Commands(pipe'[q]) = Commands(pipe[q])
        /\ IsBarrier(c) => Commands(pipe'[q]) = Append(Commands(pipe[q]), c.cmd)
    BY <1>1, <1>2, <1>3, CommandsWritten
  <1> QED
    BY <1>1, <1>2, <1>4 DEF PipeMap

LEMMA PipeTaken ==
  ASSUME LinkType, PipesOK, NEW p \in Pipes, pipe[p] # << >>, pipe' = [pipe EXCEPT ![p] = Tail(@)],
         NEW c, c = Head(pipe[p])
  PROVE  /\ ~IsBarrier(c) => PipeMap' = PipeMap
         /\ IsBarrier(c) => PipeMap[p] = <<c.cmd>> /\ PipeMap' = [PipeMap EXCEPT ![p] = << >>]
  <1>1. pipe[p] \in Seq(Chunk) /\ pipe'[p] = Tail(pipe[p]) /\ OneIn(pipe[p])
        /\ \A r \in Pipes \ {p} : pipe'[r] = pipe[r]
    BY DEF LinkType, PipesOK
  <1>2. /\ ~IsBarrier(c) => Commands(pipe'[p]) = Commands(pipe[p])
        /\ IsBarrier(c) => Commands(pipe[p]) = <<c.cmd>> /\ Commands(pipe'[p]) = << >>
    BY <1>1, CommandsRead
  <1>3. \A r \in Pipes \ {p} : Commands(pipe'[r]) = Commands(pipe[r])
    BY <1>1
  <1>4. CASE IsBarrier(c)
    BY <1>2, <1>3, <1>4 DEF PipeMap
  <1>5. CASE ~IsBarrier(c)
    BY <1>2, <1>3, <1>5 DEF PipeMap
  <1> QED
    BY <1>4, <1>5

LEMMA OtherOutput ==
  ASSUME LinkType, AnswersOK, NEW s \in Servers, pout[s] = << >>, NEW W \in Seq(Entry), NoBarriers(W),
         pout' = [pout EXCEPT ![s] = W]
  PROVE  AnswersOK' /\ BcastMap' = BcastMap
  <1>1. pout'[s] = W /\ \A t \in Servers \ {s} : pout'[t] = pout[t]
    BY DEF LinkType
  <1>2. CASE s = 0
    <2>1. NoBarriers(pout[0]) /\ pout[0] \in Seq(Entry)
      <3>1. DOMAIN << >> = {} /\ << >> \in Seq(Entry)
        BY EmptySeq
      <3> QED
        BY <1>2, <3>1 DEF NoBarriers
    <2>2. BcastMap = -1 /\ BcastMap' = -1
      BY <1>1, <1>2, <2>1, NotAnswering DEF BcastMap
    <2> QED
      BY <1>1, <1>2, <2>2 DEF AnswersOK
  <1>3. CASE s # 0
    <2>1. pout'[0] = pout[0]
      BY <1>1, <1>3, Topology
    <2> QED
      BY <1>1, <1>3, <2>1 DEF AnswersOK, BcastMap
  <1> QED
    BY <1>2, <1>3

LEMMA SameOutput ==
  ASSUME AnswersOK, pout' = pout
  PROVE  AnswersOK' /\ BcastMap' = BcastMap
  BY DEF AnswersOK, BcastMap

(* A server with an operation under way is not in a barrier.               *)
LEMMA BusyOutside ==
  ASSUME LinkInv, NEW s \in Servers, todo[s] # {}
  PROVE  ~InBarrier(s)
  BY DEF LinkInv, ServersOK, ServerOK, WaitsForProcs, WaitsForFence, WaitsForData, InBarrier

Simulates == AnswersOK' /\ (SB!Next \/ UNCHANGED SB!vars)

-----------------------------------------------------------------------------
(* The main thread.                                                        *)

LEMMA MainWriteSimulates ==
  ASSUME LinkInv, LinkInv', AnswersOK, NEW s \in Servers, MainWrite(s)
  PROVE  Simulates
  <1> DEFINE w == Head(mout[s])
  <1>1. /\ mout[s] # << >> /\ mout' = [mout EXCEPT ![s] = Tail(@)]
        /\ pipe' = [pipe EXCEPT ![w.pipe] = Append(@, w.chunk)]
        /\ UNCHANGED <<mpc, pout, cur, active, slot, hub, dmreq, denied, known, cl, todo, faults>>
    BY DEF library, MainWrite
  <1>2. LinkType /\ WritersOK(s) /\ mout \in [Servers -> Seq(Entry)] /\ mout[s] \in Seq(Entry)
    BY DEF LinkInv, StreamsOK, LinkType
  <1>3. w \in Entry /\ PipesOK'
    BY <1>1, <1>2, HeadOfWrites, OneBarrierNext
  <1>4. /\ ~IsBarrier(w.chunk) => PipeMap' = PipeMap
        /\ IsBarrier(w.chunk) => PipeMap' = [PipeMap EXCEPT ![w.pipe] = Append(@, w.chunk.cmd)]
    <2> HIDE DEF w
    <2> QED
      BY <1>1, <1>2, <1>3, PipeWritten
  <1>5. AnswersOK' /\ BcastMap' = BcastMap /\ bcnt' = bcnt
    BY <1>1, SameOutput DEF hub
  <1>6. mout'[s] = Tail(mout[s]) /\ \A t \in Servers \ {s} : mout'[t] = mout[t]
    BY <1>1, <1>2
  <1>7. CASE mout[s] = <<Request(s)>> /\ InBarrier(s)
    <2>1. w = Request(s) /\ mout'[s] = << >>
      BY <1>6, <1>7
    <2>2. IsBarrier(w.chunk) /\ w.pipe = -s /\ w.chunk.cmd = "BARRIER_REQUEST"
      BY <2>1 DEF Request, Hdr, IsBarrier
    <2>3. PipeMap' = [PipeMap EXCEPT ![-s] = Append(@, "BARRIER_REQUEST")]
      <3> HIDE DEF w
      <3> QED
        BY <1>4, <2>2
    <2>4. RoundMap' = RoundMap /\ ActiveMap' = ActiveMap
      BY <1>1 DEF RoundMap, ActiveMap, Round, InBarrierNow, InBarrier
    <2>5. PcMap[s] = "send" /\ PcMap' = [PcMap EXCEPT ![s] = "wait"]
      <3>1. Pc(s) = "send" /\ Pc(s)' = "wait"
        BY <1>1, <1>7, <2>1 DEF Pc, InBarrier
      <3>2. \A t \in Servers \ {s} : Pc(t)' = Pc(t)
        BY <1>1, <1>6 DEF Pc, InBarrier
      <3> QED
        BY <3>1, <3>2 DEF PcMap
    <2>6. SB!BarrierSend(s)
      BY <1>5, <2>3, <2>4, <2>5, SendsRequest
    <2>7. SB!Next
      BY <2>6, Mapped DEF SB!Next, SB!Main
    <2> QED
      BY <1>5, <2>7 DEF Simulates
  <1>8. CASE ~InBarrier(s) /\ ~IsBarrier(w.chunk)
    <2>1. PcMap' = PcMap /\ RoundMap' = RoundMap /\ ActiveMap' = ActiveMap
      BY <1>1, <1>6, <1>8, SameMain
    <2> QED
      BY <1>4, <1>5, <1>8, <2>1, Stutters DEF Simulates
  <1>9. \/ mout[s] = <<Request(s)>> /\ InBarrier(s)
        \/ ~InBarrier(s) /\ ~IsBarrier(w.chunk)
    <2>1. CASE mout[s] \in {<<Contrib(s), ProcsData(s)>>, <<ProcsData(s)>>} /\ mpc[s] = "procs"
      <3>1. w = Contrib(s) \/ w = ProcsData(s)
        BY <2>1
      <3>2. ~IsBarrier(w.chunk)
        BY <3>1 DEF Contrib, ProcsData, Hdr, Data, IsBarrier
      <3> QED
        BY <2>1, <3>2 DEF InBarrier
    <2> QED
      BY <1>1, <1>2, <2>1 DEF WritersOK, InBarrier
  <1> QED
    BY <1>7, <1>8, <1>9

LEMMA MainWakesSimulates ==
  ASSUME LinkInv, AnswersOK, NEW s \in Servers, MainWakes(s)
  PROVE  Simulates
  <1>1. /\ mout[s] = << >> /\ ~active[s] /\ mpc[s] \in {"barrier1", "procs", "barrier2"}
        /\ UNCHANGED <<link, active, slot, hub, dmreq, denied, known, cl, todo, faults>>
        /\ mpc' = [mpc EXCEPT ![s] = CASE @ = "barrier1" -> "launch"
                                       [] @ = "procs" -> "run"
                                       [] @ = "barrier2" -> "done"]
    BY DEF library, MainWakes
  <1>2. mpc'[s] = (CASE mpc[s] = "barrier1" -> "launch" [] mpc[s] = "procs" -> "run" [] mpc[s] = "barrier2" -> "done")
        /\ \A t \in Servers \ {s} : mpc'[t] = mpc[t]
    BY <1>1 DEF LinkInv, LinkType
  <1>3. /\ mout' = mout /\ pout' = pout /\ pipe' = pipe /\ active' = active
        /\ AnswersOK' /\ BcastMap' = BcastMap /\ bcnt' = bcnt /\ PipeMap' = PipeMap
    BY <1>1, SameOutput DEF hub, link, PipeMap
  <1>4. \A t \in Servers \ {s} : Pc(t)' = Pc(t) /\ Round(t)' = Round(t) /\ InBarrierNow(t)' = InBarrierNow(t)
    BY <1>2, <1>3 DEF Pc, Round, InBarrierNow, InBarrier
  <1>5. CASE mpc[s] = "procs"
    <2>1. mpc'[s] = "run"
      BY <1>2, <1>5
    <2>2. Pc(s)' = Pc(s) /\ Round(s)' = Round(s) /\ InBarrierNow(s)' = InBarrierNow(s)
      BY <1>5, <2>1 DEF Pc, Round, InBarrierNow, InBarrier
    <2>3. PcMap' = PcMap /\ RoundMap' = RoundMap /\ ActiveMap' = ActiveMap
      BY <1>4, <2>2 DEF PcMap, RoundMap, ActiveMap
    <2> QED
      BY <1>3, <2>3, Stutters DEF Simulates
  <1>6. CASE InBarrier(s)
    <2>1. Pc(s) = "wait" /\ Pc(s)' = "run" /\ InBarrierNow(s) = FALSE /\ InBarrierNow(s)' = FALSE
      BY <1>1, <1>2, <1>3, <1>6 DEF Pc, InBarrierNow, InBarrier
    <2>2. Round(s)' = Round(s) + 1
      BY <1>2, <1>6 DEF Round, InBarrier
    <2>3. PcMap' = [PcMap EXCEPT ![s] = "run"] /\ PcMap[s] = "wait"
      BY <1>4, <2>1 DEF PcMap
    <2>4. RoundMap' = [RoundMap EXCEPT ![s] = @ + 1]
      BY <1>4, <2>2 DEF RoundMap
    <2>5. ActiveMap' = ActiveMap /\ ~ActiveMap[s]
      BY <1>4, <2>1 DEF ActiveMap
    <2>6. SB!BarrierReturn(s)
      BY <1>3, <2>3, <2>4, <2>5, ReturnsFromBarrier
    <2>7. SB!Next
      BY <2>6, Mapped DEF SB!Next, SB!Main
    <2> QED
      BY <1>3, <2>7 DEF Simulates
  <1> QED
    BY <1>1, <1>5, <1>6 DEF InBarrier

LEMMA CallBarrierSimulates ==
  ASSUME LinkInv, AnswersOK, NEW s \in Servers, CallBarrier(s)
  PROVE  Simulates
  <1>1. /\ \/ mpc[s] = "init" /\ mpc' = [mpc EXCEPT ![s] = "barrier1"]
           \/ mpc[s] = "run" /\ Finalize /\ mpc' = [mpc EXCEPT ![s] = "barrier2"]
        /\ active' = [active EXCEPT ![s] = TRUE]
        /\ mout' = [mout EXCEPT ![s] = Writes(s, Hdr("BARRIER_REQUEST", s, 0, FALSE), NoBody)]
        /\ UNCHANGED <<pout, cur, pipe, slot, hub, dmreq, denied, known, cl, todo, faults>>
    BY DEF library, CallBarrier, ArmAndSend
  <1>2. /\ s \in Pipes /\ mpc \in [Servers -> {"init", "barrier1", "launch", "procs", "run", "barrier2", "done"}]
        /\ active \in [Pipes -> BOOLEAN] /\ mout \in [Servers -> Seq(Entry)]
    BY Topology DEF LinkInv, LinkType
  <1>3. /\ mout'[s] # << >>
        /\ \A t \in Servers \ {s} : mpc'[t] = mpc[t] /\ mout'[t] = mout[t] /\ (active'[t] <=> active[t])
        /\ active'[s]
    <2>1. Writes(s, Hdr("BARRIER_REQUEST", s, 0, FALSE), NoBody) # << >>
      BY DEF Writes, Hdr
    <2>2. mout'[s] # << >> /\ \A t \in Servers \ {s} : mout'[t] = mout[t]
      BY <1>1, <1>2, <2>1
    <2>3. active'[s] /\ \A t \in Servers \ {s} : active'[t] = active[t]
      BY <1>1, <1>2
    <2>4. \A t \in Servers \ {s} : mpc'[t] = mpc[t]
      BY <1>1, <1>2
    <2> QED
      BY <2>2, <2>3, <2>4
  <1>4. AnswersOK' /\ BcastMap' = BcastMap /\ bcnt' = bcnt /\ PipeMap' = PipeMap
    BY <1>1, SameOutput DEF hub, PipeMap
  <1>5. \A t \in Servers \ {s} : Pc(t)' = Pc(t) /\ Round(t)' = Round(t) /\ InBarrierNow(t)' = InBarrierNow(t)
    BY <1>3 DEF Pc, Round, InBarrierNow, InBarrier
  <1>6. /\ mpc[s] \in {"init", "run"} /\ mpc'[s] \in {"barrier1", "barrier2"}
        /\ mpc[s] = "init" <=> mpc'[s] = "barrier1"
        /\ mpc[s] = "run" => Finalize
    BY <1>1, <1>2
  <1>7. Pc(s) = "run" /\ Pc(s)' = "send" /\ InBarrierNow(s)' = TRUE
    BY <1>3, <1>6 DEF Pc, InBarrierNow, InBarrier
  <1>8. Round(s)' = Round(s) /\ Round(s) < (IF Finalize THEN 2 ELSE 1)
    BY <1>6 DEF Round
  <1>9. PcMap[s] = "run" /\ PcMap' = [PcMap EXCEPT ![s] = "send"]
    BY <1>5, <1>7 DEF PcMap
  <1>10. RoundMap' = RoundMap /\ RoundMap[s] < (IF Finalize THEN 2 ELSE 1)
    BY <1>5, <1>8 DEF RoundMap
  <1>11. ActiveMap' = [ActiveMap EXCEPT ![s] = TRUE]
    BY <1>5, <1>7 DEF ActiveMap
  <1>12. SB!BarrierCall(s)
    BY <1>4, <1>9, <1>10, <1>11, CallsBarrier
  <1>13. SB!Next
    BY <1>12, Mapped DEF SB!Next, SB!Main
  <1> QED
    BY <1>4, <1>13 DEF Simulates

LEMMA SendProcsSimulates ==
  ASSUME LinkInv, AnswersOK, NEW s \in Servers, SendProcs(s)
  PROVE  Simulates
  <1>1. /\ mpc[s] = "launch" /\ mpc' = [mpc EXCEPT ![s] = "procs"]
        /\ active' = [active EXCEPT ![s] = TRUE]
        /\ mout' = [mout EXCEPT ![s] = Writes(s, Hdr("FENCE_CONTRIB", s, 0, TRUE), Contribution(s, 0))]
        /\ UNCHANGED <<pout, cur, pipe, hub, dmreq, denied, known, cl, faults>>
    BY DEF library, SendProcs, ArmAndSend
  <1>2. /\ s \in Pipes /\ mpc \in [Servers -> {"init", "barrier1", "launch", "procs", "run", "barrier2", "done"}]
        /\ active \in [Pipes -> BOOLEAN] /\ mout \in [Servers -> Seq(Entry)]
    BY Topology DEF LinkInv, LinkType
  <1>3. /\ mpc'[s] = "procs"
        /\ \A t \in Servers \ {s} : mpc'[t] = mpc[t] /\ mout'[t] = mout[t] /\ (active'[t] <=> active[t])
    BY <1>1, <1>2
  <1>4. AnswersOK' /\ BcastMap' = BcastMap /\ bcnt' = bcnt /\ PipeMap' = PipeMap
    BY <1>1, SameOutput DEF hub, PipeMap
  <1>5. \A t \in Servers : Pc(t)' = Pc(t) /\ Round(t)' = Round(t) /\ InBarrierNow(t)' = InBarrierNow(t)
    BY <1>1, <1>3 DEF Pc, Round, InBarrierNow, InBarrier
  <1>6. PcMap' = PcMap /\ RoundMap' = RoundMap /\ ActiveMap' = ActiveMap
    BY <1>5 DEF PcMap, RoundMap, ActiveMap
  <1> QED
    BY <1>4, <1>6, Stutters DEF Simulates

-----------------------------------------------------------------------------
(* The progress thread: what it writes, and what makes it write.           *)

LEMMA ProgressWriteSimulates ==
  ASSUME LinkInv, LinkInv', AnswersOK, NEW s \in Servers, ProgressWrite(s)
  PROVE  Simulates
  <1> DEFINE w == Head(pout[s])
  <1>1. /\ pout[s] # << >> /\ pout' = [pout EXCEPT ![s] = Tail(@)]
        /\ pipe' = [pipe EXCEPT ![w.pipe] = Append(@, w.chunk)]
        /\ UNCHANGED <<mpc, mout, cur, active, slot, hub, dmreq, denied, known, cl, todo, faults>>
    BY DEF library, ProgressWrite
  <1>2. LinkType /\ pout \in [Servers -> Seq(Entry)] /\ pout[s] \in Seq(Entry)
    BY DEF LinkInv, LinkType
  <1>3. /\ w \in Entry /\ PipesOK' /\ Tail(pout[s]) \in Seq(Entry) /\ w = pout[s][1] /\ 1 \in DOMAIN pout[s]
        /\ \A i \in DOMAIN Tail(pout[s]) : i + 1 \in DOMAIN pout[s] /\ Tail(pout[s])[i] = pout[s][i + 1]
    BY <1>1, <1>2, HeadOfWrites, OneBarrierNext
  <1>4. /\ ~IsBarrier(w.chunk) => PipeMap' = PipeMap
        /\ IsBarrier(w.chunk) => PipeMap' = [PipeMap EXCEPT ![w.pipe] = Append(@, w.chunk.cmd)]
    <2> HIDE DEF w
    <2> QED
      BY <1>1, <1>2, <1>3, PipeWritten
  <1>5. PcMap' = PcMap /\ RoundMap' = RoundMap /\ ActiveMap' = ActiveMap /\ bcnt' = bcnt
    BY <1>1, SameMain DEF hub
  <1>6. pout'[s] = Tail(pout[s]) /\ \A t \in Servers \ {s} : pout'[t] = pout[t]
    BY <1>1, <1>2
  <1>7. CASE NoBarriers(pout[s])
    <2>1. ~IsBarrier(w.chunk) /\ NoBarriers(pout'[s])
      BY <1>3, <1>6, <1>7 DEF NoBarriers
    <2>2. AnswersOK'
      <3>1. CASE s = 0
        BY <1>6, <2>1, <3>1 DEF AnswersOK
      <3>2. CASE s # 0
        <4>1. pout'[0] = pout[0]
          BY <1>6, <3>2, Topology
        <4> QED
          BY <1>6, <2>1, <3>2, <4>1 DEF AnswersOK
      <3> QED
        BY <3>1, <3>2
    <2>3. BcastMap' = BcastMap
      <3>1. CASE s = 0
        <4>1. BcastMap = -1 /\ BcastMap' = -1
          BY <1>2, <1>3, <1>6, <1>7, <2>1, <3>1, NotAnswering DEF BcastMap
        <4> QED
          BY <4>1
      <3>2. CASE s # 0
        BY <1>6, <3>2, Topology DEF BcastMap
      <3> QED
        BY <3>1, <3>2
    <2> QED
      BY <1>4, <1>5, <2>1, <2>2, <2>3, Stutters DEF Simulates
  <1>8. ASSUME s = 0, NEW d \in Servers, pout[0] = Answers(d) PROVE Simulates
    <2>1. /\ w = Response(d) /\ BcastMap = d /\ IsBarrier(w.chunk)
          /\ pout'[0] = (IF d = 0 THEN << >> ELSE Answers(d - 1))
      BY <1>6, <1>8, AnswersShape DEF BcastMap
    <2>2. d \in Nat /\ (d # 0 => d - 1 \in Servers)
      BY ServerLinkAssumption DEF Servers
    <2>3. BcastMap' = d - 1 /\ (NoBarriers(pout'[0]) \/ \E e \in Servers : pout'[0] = Answers(e))
      <3>1. CASE d = 0
        <4>1. << >> \in Seq(Entry) /\ NoBarriers(<< >>)
          BY EmptySeq DEF NoBarriers
        <4>2. Answering(<< >>) = -1
          BY <4>1, NotAnswering
        <4>3. pout'[0] = << >> /\ d - 1 = -1
          BY <2>1, <3>1
        <4>4. BcastMap' = -1
          BY <4>2, <4>3 DEF BcastMap
        <4> QED
          BY <4>1, <4>3, <4>4
      <3>2. CASE d # 0
        <4>1. Answering(Answers(d - 1)) = d - 1
          BY <2>2, <3>2, AnswersShape
        <4> QED
          BY <2>1, <2>2, <3>2, <4>1 DEF BcastMap
      <3> QED
        BY <3>1, <3>2
    <2>4. AnswersOK'
      BY <1>6, <1>8, <2>3 DEF AnswersOK
    <2>5. w.pipe = d /\ w.chunk.cmd = "BARRIER_RESPONSE"
      BY <2>1 DEF Response, ToAll, Hdr
    <2>6. PipeMap' = [PipeMap EXCEPT ![BcastMap] = Append(@, "BARRIER_RESPONSE")]
      <3> HIDE DEF w
      <3> QED
        BY <1>4, <2>1, <2>5
    <2>7. SB!Respond
      BY <1>5, <2>1, <2>2, <2>3, <2>6, Responds
    <2> QED
      BY <2>4, <2>7 DEF Simulates, SB!Next, SB!RootProgress
  <1> QED
    BY <1>7, <1>8 DEF AnswersOK

LEMMA OutputSimulates ==
  ASSUME LinkInv, AnswersOK, NEW s \in Servers, pout[s] = << >>,
         pout' = pout \/ \E W \in Seq(Entry) : NoBarriers(W) /\ pout' = [pout EXCEPT ![s] = W],
         UNCHANGED <<mpc, mout, pipe, active, bcnt>>
  PROVE  Simulates
  <1>1. AnswersOK' /\ BcastMap' = BcastMap
    BY SameOutput, OtherOutput DEF LinkInv
  <1>2. PcMap' = PcMap /\ RoundMap' = RoundMap /\ ActiveMap' = ActiveMap
    BY SameMain
  <1>3. PipeMap' = PipeMap
    BY DEF PipeMap
  <1> QED
    BY <1>1, <1>2, <1>3, Stutters DEF Simulates

LEMMA ClientFenceSimulates ==
  ASSUME LinkInv, AnswersOK, NEW c \in Client, ClientFence(c)
  PROVE  Simulates
  <1>1. PICK s : s = c[1]
    OBVIOUS
  <1>2. PICK k : k = cl[c].f + 1
    OBVIOUS
  <1>3. /\ s \in Servers /\ pout[s] = << >> /\ k \in 0 .. Fences
        /\ \/ pout' = pout
           \/ pout' = [pout EXCEPT ![s] = Writes(s, Hdr("FENCE_CONTRIB", s, 0, TRUE), Contribution(s, k))]
        /\ UNCHANGED <<mpc, mout, pipe, active, bcnt>>
    <2>1. cl[c].f \in 0 .. Fences
      BY DEF LinkInv, LinkType
    <2>2. s \in Servers /\ pout[s] = << >> /\ k <= Fences
          /\ UNCHANGED <<mpc, mout, pipe, active, bcnt>>
      BY <1>1, <1>2 DEF ClientFence, Client, Free, hub
    <2>3. \/ pout' = pout
          \/ pout' = [pout EXCEPT ![s] = Writes(s, Hdr("FENCE_CONTRIB", s, 0, TRUE), Contribution(s, k))]
      BY <1>1, <1>2 DEF ClientFence, Start
    <2>4. k \in 0 .. Fences
      BY <1>2, <2>1, <2>2, ServerLinkAssumption
    <2> QED
      BY <2>2, <2>3, <2>4
  <1>4. Hdr("FENCE_CONTRIB", s, 0, TRUE) \in Header /\ Contribution(s, k) \in Body
    BY <1>3, Topology DEF Hdr, Header, Contribution, Body, Part
  <1>5. LET W == Writes(s, Hdr("FENCE_CONTRIB", s, 0, TRUE), Contribution(s, k))
        IN  W \in Seq(Entry) /\ NoBarriers(W)
    BY <1>3, <1>4, OtherWrites DEF Hdr, IsBarrier
  <1> QED
    BY <1>3, <1>5, OutputSimulates

LEMMA ClientGetSimulates ==
  ASSUME LinkInv, AnswersOK, NEW c \in Client, NEW t \in Servers, ClientGet(c, t)
  PROVE  Simulates
  <1>1. PICK s : s = c[1]
    OBVIOUS
  <1>2. PICK b : b = [what |-> "request", from |-> s, proc |-> <<t, c[2]>>]
    OBVIOUS
  <1>3. /\ s \in Servers /\ pout[s] = << >>
        /\ \/ pout' = pout
           \/ pout' = [pout EXCEPT ![s] = Writes(s, Hdr("DMDX_REQUEST", s, t, TRUE), b)]
        /\ UNCHANGED <<mpc, mout, pipe, active, bcnt>>
    BY <1>1, <1>2 DEF ClientGet, Client, Start, Free, hub
  <1>4. Hdr("DMDX_REQUEST", s, t, TRUE) \in Header /\ b \in Body
    BY <1>2, <1>3 DEF Hdr, Header, Body, Client
  <1>5. LET W == Writes(s, Hdr("DMDX_REQUEST", s, t, TRUE), b)
        IN  W \in Seq(Entry) /\ NoBarriers(W)
    BY <1>3, <1>4, OtherWrites DEF Hdr, IsBarrier
  <1> QED
    BY <1>3, <1>5, OutputSimulates

LEMMA RespondSimulates ==
  ASSUME LinkInv, AnswersOK, NEW s \in Servers, NEW r \in dmreq[s], NEW full \in BOOLEAN, NEW b,
         full => b = [what |-> "modex", proc |-> r.proc], Respond(s, r, full, b)
  PROVE  Simulates
  <1>1. PICK t : t = r.from
    OBVIOUS
  <1>2. /\ pout[s] = << >>
        /\ pout' = [pout EXCEPT ![s] = Writes(s, Hdr("DMDX_RESPONSE", s, t, full), b)]
        /\ UNCHANGED <<mpc, mout, pipe, active, bcnt>>
    BY <1>1 DEF Respond, Free, hub
  <1>3. t \in Servers /\ r.proc \in Client
    BY <1>1 DEF LinkInv, LinkType
  <1>4. Hdr("DMDX_RESPONSE", s, t, full) \in Header /\ (full => b \in Body)
    BY <1>3 DEF Hdr, Header, Body
  <1>5. LET W == Writes(s, Hdr("DMDX_RESPONSE", s, t, full), b)
        IN  W \in Seq(Entry) /\ NoBarriers(W)
    BY <1>4, OtherWrites DEF Hdr, IsBarrier
  <1> QED
    BY <1>2, <1>5, OutputSimulates

LEMMA LibrarySimulates ==
  ASSUME LinkInv, AnswersOK, NEW s \in Servers, NEW r \in dmreq[s],
         LibraryAnswers(s, r) \/ LibraryFails(s, r)
  PROVE  Simulates
  <1>1. CASE LibraryAnswers(s, r)
    BY <1>1, RespondSimulates DEF LibraryAnswers
  <1>2. CASE LibraryFails(s, r)
    BY <1>2, RespondSimulates DEF LibraryFails
  <1> QED
    BY <1>1, <1>2

-----------------------------------------------------------------------------
(* The progress thread: server_read_cb.                                    *)

(* A barrier header is for the reader of its pipe, about the server at the *)
(* other end.                                                              *)
LEMMA BarrierMessage ==
  ASSUME LinkInv, NEW p \in Pipes, NEW h \in Header, NEW body, Message(h, body) \in Messages(p)
  PROVE  /\ h.cmd = "BARRIER_REQUEST" => Reader(p) = 0 /\ h.dst = 0 /\ h.src \in Servers /\ p = -h.src
         /\ h.cmd = "BARRIER_RESPONSE" => Reader(p) = p /\ h.dst = p /\ p \in Servers
         /\ IsBarrier(h) <=> h.cmd \in {"BARRIER_REQUEST", "BARRIER_RESPONSE"}
  <1> DEFINE m == Message(h, body)
  <1>1. m.hdr = h
    BY DEF Message
  <1> HIDE DEF m
  <1>2. MessageOK(p, m) /\ m \in Messages(p)
    BY DEF LinkInv, MessagesOK, m
  <1>3. h.src \in Servers /\ h.dst \in Servers /\ h.chunk = "hdr"
    BY DEF Header
  <1>4. \A s \in Servers : s \in Nat
    BY Topology DEF Servers
  <1>5. ASSUME h.cmd = "BARRIER_REQUEST" PROVE Reader(p) = 0 /\ h.dst = 0 /\ p = -h.src
    <2>1. p = -h.src /\ h.dst = 0
      BY <1>1, <1>2, <1>5 DEF MessageOK
    <2> QED
      BY <1>3, <1>4, <2>1 DEF Reader
  <1>6. ASSUME h.cmd = "BARRIER_RESPONSE" PROVE Reader(p) = p /\ h.dst = p /\ p \in Servers
    <2>1. p = h.dst
      BY <1>1, <1>2, <1>6 DEF MessageOK
    <2> QED
      BY <1>3, <1>4, <2>1 DEF Reader
  <1> QED
    BY <1>3, <1>5, <1>6 DEF IsBarrier

LEMMA HandleOtherSimulates ==
  ASSUME LinkInv, AnswersOK, NEW p \in Pipes, NEW s, s = Reader(p), NEW h \in Header, NEW body,
         ~IsBarrier(h), h.full => body \in Body, ~h.full => body = NoBody, pout[s] = << >>, Message(h, body) \in Messages(p),
         Handle(s, p, h, body), PipeMap' = PipeMap
  PROVE  Simulates
  <1> DEFINE m == Message(h, body)
  <1>1. m.hdr = h /\ m.body = body
    BY DEF Message
  <1> HIDE DEF m
  <1>2. MessageOK(p, m) /\ m \in Messages(p) /\ s \in Servers
    BY Topology DEF LinkInv, MessagesOK, m
  <1>3. h.src \in Servers /\ h.dst \in Servers /\ h.cmd \notin {"BARRIER_REQUEST", "BARRIER_RESPONSE"}
        /\ h.cmd \in {"FENCE_CONTRIB", "FENCE_COMPLETE", "DMDX_REQUEST", "DMDX_RESPONSE"}
    BY DEF Header, IsBarrier
  <1>4. mpc' = mpc /\ mout' = mout
    BY DEF Handle
  <1>5. LinkType
    BY DEF LinkInv
  <1>6. ASSUME bcnt' = bcnt,
               pout' = pout \/ \E W \in Seq(Entry) : NoBarriers(W) /\ pout' = [pout EXCEPT ![s] = W],
               \A t \in Servers : InBarrier(t) => (active'[t] <=> active[t])
        PROVE  Simulates
    <2>1. AnswersOK' /\ BcastMap' = BcastMap
      BY <1>2, <1>5, <1>6, SameOutput, OtherOutput
    <2>2. PcMap' = PcMap /\ RoundMap' = RoundMap /\ ActiveMap' = ActiveMap
      BY <1>4, <1>6, SameMain
    <2> QED
      BY <1>6, <2>1, <2>2, Stutters DEF Simulates
  <1>7. CASE h.dst # s
    <2>1. pout' = [pout EXCEPT ![s] = Writes(s, h, body)] /\ active' = active /\ bcnt' = bcnt
      BY <1>7 DEF Handle, hub
    <2>2. Writes(s, h, body) \in Seq(Entry) /\ NoBarriers(Writes(s, h, body))
      BY <1>2, OtherWrites
    <2> QED
      BY <1>6, <2>1, <2>2
  <1>8. CASE h.dst = s /\ h.cmd = "FENCE_CONTRIB"
    <2>1. FenceContrib(s, body)
      BY <1>8 DEF Handle
    <2>2. s = 0
      BY <1>1, <1>2, <1>8 DEF MessageOK
    <2> DEFINE b == [what |-> "all", parts |-> Append(parts, body)]
    <2>3. active' = active /\ bcnt' = bcnt
          /\ (pout' = pout \/ pout' = [pout EXCEPT ![0] = Broadcast(Hdr("FENCE_COMPLETE", 0, 0, TRUE), b)])
      BY <2>1, <2>2 DEF FenceContrib
    <2>4. b \in Body
      <3>1. body = Contribution(h.src, Exchanged(h.src))
        BY <1>1, <1>2, <1>8 DEF MessageOK
      <3>2. body \in Part
        <4>1. body \in Body
          BY <1>8 DEF Header
        <4> QED
          BY <3>1, <4>1 DEF Contribution, Body
      <3>3. Append(parts, body) \in Seq(Part)
        BY <1>5, <3>2 DEF LinkType
      <3> QED
        BY <3>3 DEF Body
    <2>5. LET W == Broadcast(Hdr("FENCE_COMPLETE", 0, 0, TRUE), b)
          IN  W \in Seq(Entry) /\ NoBarriers(W)
      BY <2>4, OtherBroadcast
    <2> HIDE DEF b
    <2> QED
      BY <1>6, <2>2, <2>3, <2>5
  <1>9. CASE h.dst = s /\ h.cmd = "DMDX_REQUEST"
    <2>1. active' = active /\ bcnt' = bcnt /\ pout' = pout
      BY <1>9 DEF Handle, DmdxRequest, hub
    <2> QED
      BY <1>6, <2>1
  <1>10. CASE h.dst = s /\ h.cmd \in {"FENCE_COMPLETE", "DMDX_RESPONSE"}
    <2>1. Callback(s, p, body)
      BY <1>10 DEF Handle
    <2>2. bcnt' = bcnt /\ pout' = pout /\ (active' = active \/ active' = [active EXCEPT ![s] = FALSE])
      BY <2>1 DEF Callback, hub
    <2>3. todo[s] # {}
      <3>1. CASE h.cmd = "FENCE_COMPLETE"
        BY <1>1, <1>2, <1>10, <3>1 DEF MessageOK, InExchange
      <3>2. CASE h.cmd = "DMDX_RESPONSE"
        BY <1>1, <1>2, <1>10, <3>2 DEF MessageOK, Asks
      <3> QED
        BY <1>10, <3>1, <3>2
    <2>4. ~InBarrier(s)
      BY <1>2, <2>3, BusyOutside
    <2>5. \A t \in Servers \ {s} : active'[t] = active[t]
      <3>1. CASE active' = active
        BY <3>1
      <3>2. CASE active' = [active EXCEPT ![s] = FALSE]
        <4>1. active \in [Pipes -> BOOLEAN] /\ Servers \subseteq Pipes
          BY <1>5, Topology DEF LinkType
        <4> QED
          BY <3>2, <4>1
      <3> QED
        BY <2>2, <3>1, <3>2
    <2> QED
      BY <1>6, <2>2, <2>4, <2>5
  <1> QED
    BY <1>3, <1>7, <1>8, <1>9, <1>10

LEMMA HandleBarrierSimulates ==
  ASSUME LinkInv, AnswersOK, NEW p \in Pipes, NEW s, s = Reader(p), NEW h \in Header,
         IsBarrier(h), pout[s] = << >>, Message(h, NoBody) \in Messages(p), Handle(s, p, h, NoBody),
         PipeMap[p] = <<h.cmd>>, PipeMap' = [PipeMap EXCEPT ![p] = << >>]
  PROVE  Simulates
  <1>1. mpc' = mpc /\ mout' = mout
    BY DEF Handle
  <1>2. LinkType /\ s \in Servers
    BY Topology DEF LinkInv
  <1>3. s = 0 => BcastMap = -1
    BY DEF BcastMap, Answering
  <1>4. PcMap' = PcMap /\ RoundMap' = RoundMap
    BY <1>1 DEF PcMap, RoundMap, Pc, Round, InBarrier
  <1>5. CASE h.cmd = "BARRIER_REQUEST"
    <2>1. s = 0 /\ h.dst = s /\ h.src \in Servers /\ p = -h.src
      BY <1>5, BarrierMessage
    <2>2. BarrierRequest(0)
      BY <1>5, <2>1 DEF Handle
    <2>3. active' = active
      BY <2>2 DEF BarrierRequest
    <2>4. ActiveMap' = ActiveMap
      BY <1>1, <2>3 DEF ActiveMap, InBarrierNow, InBarrier
    <2>5. CASE bcnt + 1 = N
      <3>1. bcnt' = 0 /\ pout' = [pout EXCEPT ![0] = Broadcast(ToAll, NoBody)]
        BY <2>2, <2>5 DEF BarrierRequest, IsLast, ToAll
      <3>2. pout'[0] = Answers(N - 1) /\ \A t \in Servers \ {0} : pout'[t] = pout[t]
        BY <1>2, <3>1, BarrierBroadcast, Topology DEF LinkType
      <3>3. N - 1 \in Servers
        BY ServerLinkAssumption DEF Servers
      <3>4. Answering(Answers(N - 1)) = N - 1
        BY <3>3, AnswersShape
      <3>5. BcastMap' = N - 1
        BY <3>2, <3>4 DEF BcastMap
      <3>6. AnswersOK'
        BY <3>2, <3>3 DEF AnswersOK
      <3>7. SB!ReadRequest(h.src)
        <4>1. bcnt' = (IF bcnt + 1 = N THEN 0 ELSE bcnt + 1) /\ BcastMap' = (IF bcnt + 1 = N THEN N - 1 ELSE -1)
          BY <2>5, <3>1, <3>5
        <4> QED
          BY <1>3, <1>4, <1>5, <2>1, <2>4, <4>1, ReadsRequest
      <3> QED
        BY <2>1, <3>6, <3>7, Mapped DEF Simulates, SB!Next, SB!RootProgress
    <2>6. CASE bcnt + 1 # N
      <3>1. bcnt' = bcnt + 1 /\ pout' = pout
        BY <2>2, <2>6 DEF BarrierRequest, IsLast
      <3>2. AnswersOK' /\ BcastMap' = BcastMap
        BY <3>1, SameOutput
      <3>3. SB!ReadRequest(h.src)
        <4>1. bcnt' = (IF bcnt + 1 = N THEN 0 ELSE bcnt + 1) /\ BcastMap' = (IF bcnt + 1 = N THEN N - 1 ELSE -1)
          BY <1>3, <2>1, <2>6, <3>1, <3>2
        <4> QED
          BY <1>3, <1>4, <1>5, <2>1, <2>4, <4>1, ReadsRequest
      <3> QED
        BY <2>1, <3>2, <3>3, Mapped DEF Simulates, SB!Next, SB!RootProgress
    <2> QED
      BY <2>5, <2>6
  <1>6. CASE h.cmd = "BARRIER_RESPONSE"
    <2>1. s = p /\ h.dst = s /\ p \in Servers
      BY <1>6, BarrierMessage
    <2>2. BarrierResponse(p)
      BY <1>6, <2>1 DEF Handle
    <2>3. active' = [active EXCEPT ![p] = FALSE] /\ pout' = pout /\ bcnt' = bcnt
      BY <2>2 DEF BarrierResponse, hub
    <2>4. AnswersOK' /\ BcastMap' = BcastMap
      BY <2>3, SameOutput
    <2>5. ActiveMap' = [ActiveMap EXCEPT ![p] = FALSE]
      <3>1. active'[p] = FALSE /\ \A t \in Servers \ {p} : active'[t] = active[t]
        BY <1>2, <2>1, <2>3 DEF LinkType
      <3>2. InBarrierNow(p)' = FALSE /\ \A t \in Servers \ {p} : InBarrierNow(t)' = InBarrierNow(t)
        BY <1>1, <3>1 DEF InBarrierNow, InBarrier
      <3> QED
        BY <2>1, <3>2 DEF ActiveMap
    <2>6. SB!ReadResponse(p)
      BY <1>3, <1>4, <1>6, <2>1, <2>3, <2>4, <2>5, ReadsResponse
    <2> QED
      BY <2>1, <2>4, <2>6, Mapped DEF Simulates, SB!Next, SB!RootProgress
  <1> QED
    BY <1>5, <1>6 DEF IsBarrier

LEMMA ReadHeaderSimulates ==
  ASSUME LinkInv, AnswersOK, NEW p \in Pipes, ReadHeader(p)
  PROVE  Simulates
  <1>1. PICK h : h = Head(pipe[p])
    OBVIOUS
  <1>2. PICK s \in Servers : s = Reader(p)
    BY Topology
  <1>3. LinkType /\ StreamsOK /\ PipesOK
    BY OneBarrier DEF LinkInv
  <1>4. pipe[p] # << >>
    BY DEF ReadHeader
  <1>5. /\ h \in Header /\ pout[s] = << >>
        /\ \/ h.full /\ UNCHANGED <<mpc, mout, pout, active, hub>>
           \/ Message(h, NoBody) \in Messages(p) /\ ~h.full /\ Handle(s, p, h, NoBody)
    BY <1>1, <1>2, <1>3, FirstRead
  <1>6. h.chunk = "hdr" /\ pipe' = [pipe EXCEPT ![p] = Tail(@)]
    BY <1>1, <1>5 DEF ReadHeader, Header
  <1>7. /\ ~IsBarrier(h) => PipeMap' = PipeMap
        /\ IsBarrier(h) => PipeMap[p] = <<h.cmd>> /\ PipeMap' = [PipeMap EXCEPT ![p] = << >>]
    BY <1>1, <1>3, <1>4, <1>6, PipeTaken
  <1>8. IsBarrier(h) => ~h.full
    BY <1>5 DEF Header, IsBarrier
  <1>9. CASE h.full
    <2>1. UNCHANGED <<mpc, mout, pout, active, bcnt>>
      BY <1>5, <1>9 DEF hub
    <2>2. PcMap' = PcMap /\ RoundMap' = RoundMap /\ ActiveMap' = ActiveMap
      BY <2>1, SameMain
    <2>3. AnswersOK' /\ BcastMap' = BcastMap
      BY <2>1, SameOutput
    <2> QED
      BY <1>7, <1>8, <1>9, <2>1, <2>2, <2>3, Stutters DEF Simulates
  <1>10. CASE ~h.full /\ IsBarrier(h)
    BY <1>2, <1>5, <1>7, <1>10, HandleBarrierSimulates
  <1>11. CASE ~h.full /\ ~IsBarrier(h)
    BY <1>2, <1>5, <1>7, <1>11, HandleOtherSimulates
  <1> QED
    BY <1>9, <1>10, <1>11

LEMMA ReadPayloadSimulates ==
  ASSUME LinkInv, AnswersOK, NEW s \in Servers, ReadPayload(s)
  PROVE  Simulates
  <1>1. PICK p : p = cur[s].pipe
    OBVIOUS
  <1>2. PICK h : h = cur[s].hdr
    OBVIOUS
  <1>3. PICK c : c = Head(pipe[p])
    OBVIOUS
  <1>4. PICK b : b = c.body
    OBVIOUS
  <1>5. LinkType /\ StreamsOK /\ PipesOK
    BY OneBarrier DEF LinkInv
  <1>6. /\ p \in Pipes /\ Reader(p) = s /\ h \in Header /\ b \in Body /\ pout[s] = << >>
        /\ Message(h, b) \in Messages(p)
        /\ h.full /\ Handle(s, p, h, b)
    BY <1>1, <1>2, <1>3, <1>4, <1>5, SecondRead
  <1>7. pipe[p] # << >>
        /\ \/ c.chunk = "data" /\ pipe' = [pipe EXCEPT ![p] = Tail(@)]
           \/ UNCHANGED <<pipe, mpc>>
    BY <1>1, <1>3 DEF ReadPayload, Misframed, link
  <1>8. ~IsBarrier(h)
    BY <1>6 DEF Header, IsBarrier
  <1>9. PipeMap' = PipeMap
    <2>1. CASE c.chunk = "data" /\ pipe' = [pipe EXCEPT ![p] = Tail(@)]
      <3>1. ~IsBarrier(c)
        BY <2>1 DEF IsBarrier
      <3> QED
        BY <1>3, <1>5, <1>6, <1>7, <2>1, <3>1, PipeTaken
    <2>2. CASE UNCHANGED pipe
      BY <2>2 DEF PipeMap
    <2> QED
      BY <1>7, <2>1, <2>2
  <1> QED
    BY <1>6, <1>8, <1>9, HandleOtherSimulates

-----------------------------------------------------------------------------
LEMMA InitMaps == Init => AnswersOK /\ SB!Init
  <1> SUFFICES ASSUME Init PROVE AnswersOK /\ SB!Init
    OBVIOUS
  <1>1. DOMAIN << >> = {}
    OBVIOUS
  <1>2. AnswersOK
    BY <1>1, Topology DEF Init, AnswersOK, NoBarriers
  <1>3. Commands(<< >>) = << >>
    BY <1>1, CommandsOfNone DEF NoneIn
  <1>4. /\ PcMap = [s \in Servers |-> "run"] /\ RoundMap = [s \in Servers |-> 0]
        /\ ActiveMap = [s \in Servers |-> FALSE]
    BY DEF Init, PcMap, RoundMap, ActiveMap, Pc, Round, InBarrierNow, InBarrier
  <1>5. PipeMap = [p \in Pipes |-> << >>] /\ bcnt = 0 /\ BcastMap = -1
    BY <1>3, Topology DEF Init, PipeMap, BcastMap, Answering
  <1>6. SB!Init
    BY <1>4, <1>5 DEF SB!Init, PcMap, RoundMap, ActiveMap, PipeMap, BcastMap, Pc, Round, InBarrierNow,
                      Answering, SB!Servers, SB!Pipes, Servers, Pipes
  <1> QED
    BY <1>2, <1>6

LEMMA NextSimulates ==
  ASSUME Undisturbed
  PROVE  LinkInv /\ LinkInv' /\ AnswersOK /\ [Next]_vars => AnswersOK' /\ [SB!Next]_(SB!vars)
  <1> SUFFICES ASSUME LinkInv, LinkInv', AnswersOK, [Next]_vars PROVE Simulates
    BY DEF Simulates
  <1>1. ASSUME NEW s \in Servers, Main(s) PROVE Simulates
    BY <1>1, CallBarrierSimulates, SendProcsSimulates, MainWriteSimulates, MainWakesSimulates DEF Main
  <1>2. ASSUME NEW s \in Servers, Progress(s) PROVE Simulates
    BY <1>2, ProgressWriteSimulates, ReadPayloadSimulates, ReadHeaderSimulates, LibrarySimulates
       DEF Progress
  <1>3. ASSUME UNCHANGED <<mpc, mout, pout, pipe, active, bcnt>> PROVE Simulates
    <2>1. PcMap' = PcMap /\ RoundMap' = RoundMap /\ ActiveMap' = ActiveMap
      BY <1>3, SameMain
    <2>2. AnswersOK' /\ BcastMap' = BcastMap
      BY <1>3, SameOutput
    <2>3. PipeMap' = PipeMap
      BY <1>3 DEF PipeMap
    <2> QED
      BY <1>3, <2>1, <2>2, <2>3, Stutters DEF Simulates
  <1>4. ASSUME NEW c \in Client, ClientStep(c) PROVE Simulates
    BY <1>3, <1>4, ClientFenceSimulates, ClientGetSimulates DEF ClientStep, ClientExit, Served, link, hub
  <1>5. CASE UNCHANGED vars
    BY <1>3, <1>5 DEF vars, link, hub
  <1> QED
    BY <1>1, <1>2, <1>4, <1>5 DEF Next, Stop

(* With everything but the barrier messages left out, every behaviour of   *)
(* the message layer is a behaviour of the barrier protocol: exchanges,    *)
(* fences and direct modex release no barrier and lose no request or       *)
(* response of one (the fairness is left to the model checker).            *)
THEOREM RefinesServerBarrier ==
  ASSUME Undisturbed
  PROVE  Spec => SB!Init /\ [][SB!Next]_(SB!vars)
  BY InitMaps, InitOK, NextOK, NextSimulates, PTL DEF Spec

=============================================================================
