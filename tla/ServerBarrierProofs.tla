------------------------- MODULE ServerBarrierProofs -------------------------
(***************************************************************************)
(* Safety of the barrier of test_server.c for every number of servers and  *)
(* of rounds, and its refinement of the safety part of Barrier.            *)
(***************************************************************************)
EXTENDS ServerBarrier, FiniteSetTheorems, TLAPS

(* A response to s is still to be written, or is in its pipe, or has woken *)
(* the main thread of s, which has not returned yet.                       *)
Released(s) ==
  \/ bcast >= s
  \/ pipe[FromRoot(s)] = <<"BARRIER_RESPONSE">>
  \/ pc[s] = "wait" /\ ~active[s]

(* Barriers the hub has completed, as seen from server s.                  *)
Passed(s) == IF Released(s) THEN round[s] + 1 ELSE round[s]

(* A pipe holds at most one message, of the kind its writer sends.         *)
PipeInv ==
  \A p \in Pipes :
    \/ pipe[p] = <<>>
    \/ p <= 0 /\ pipe[p] = <<"BARRIER_REQUEST">>
    \/ p >= 0 /\ pipe[p] = <<"BARRIER_RESPONSE">>

(* What is under way for s is under way for a main thread that sleeps, and *)
(* only one thing is.                                                      *)
StageInv ==
  \A s \in Servers :
    /\ Requested(s) => ~Answered(s)
    /\ bcast >= s => pipe[FromRoot(s)] # <<"BARRIER_RESPONSE">>
    /\ Requested(s) \/ Answered(s) => pc[s] = "wait" /\ active[s]
    /\ pc[s] = "send" => active[s]
    /\ pc[s] \in {"send", "wait"} => round[s] < Rounds

RoundInv == \A s, t \in Servers : Passed(s) = Passed(t)

IInv ==
  /\ TypeOK
  /\ PipeInv
  /\ StageInv
  /\ bcast >= 0 => cnt = 0
  /\ CounterIsExact
  /\ RoundInv

-----------------------------------------------------------------------------
(* The pipes of server s, and what one write or one read does to a pipe    *)
(* that holds at most one message.                                         *)
LEMMA PipeFacts ==
  ASSUME NEW s \in Servers
  PROVE  /\ ToRoot(s) \in Pipes /\ FromRoot(s) \in Pipes
         /\ ToRoot(s) <= 0 /\ FromRoot(s) >= 0
         /\ \A t \in Servers : ToRoot(s) = ToRoot(t) <=> s = t
         /\ \A t \in Servers : FromRoot(s) = FromRoot(t) <=> s = t
         /\ \A t \in Servers : ToRoot(s) = FromRoot(t) <=> s = 0 /\ t = 0
  BY ServerBarrierAssumption DEF Servers, Pipes, ToRoot, FromRoot

LEMMA WriteToEmpty ==
  ASSUME TypeOK, NEW p \in Pipes, NEW c \in Cmd, pipe[p] = <<>>, Write(p, c)
  PROVE  /\ pipe' \in [Pipes -> Seq(Cmd)]
         /\ pipe'[p] = <<c>>
         /\ \A q \in Pipes : q # p => pipe'[q] = pipe[q]
  <1>1. Append(pipe[p], c) = <<c>>
    OBVIOUS
  <1>2. <<c>> \in Seq(Cmd)
    OBVIOUS
  <1> QED
    BY <1>1, <1>2 DEF TypeOK, Write

LEMMA ReadLast ==
  ASSUME TypeOK, PipeInv, NEW p \in Pipes, NEW c \in Cmd, Reads(p, c)
  PROVE  /\ pipe[p] = <<c>>
         /\ pipe' \in [Pipes -> Seq(Cmd)]
         /\ pipe'[p] = <<>>
         /\ \A q \in Pipes : q # p => pipe'[q] = pipe[q]
  <1>1. pipe[p] = <<c>>
    <2>1. Head(<<"BARRIER_REQUEST">>) = "BARRIER_REQUEST"
      OBVIOUS
    <2>2. Head(<<"BARRIER_RESPONSE">>) = "BARRIER_RESPONSE"
      OBVIOUS
    <2>3. pipe[p] = <<"BARRIER_REQUEST">> \/ pipe[p] = <<"BARRIER_RESPONSE">>
      BY DEF PipeInv, Reads
    <2> QED
      BY <2>1, <2>2, <2>3 DEF Reads
  <1>2. Tail(<<c>>) = <<>> /\ <<>> \in Seq(Cmd)
    OBVIOUS
  <1> QED
    BY <1>1, <1>2 DEF TypeOK, Reads

(* The set the counter counts is finite and its size is a natural number.  *)
LEMMA CountedFinite ==
  /\ IsFiniteSet(Servers) /\ Cardinality(Servers) = N
  /\ IsFiniteSet(Counted)
  /\ Cardinality(Counted) \in Nat
  /\ Cardinality(Counted) = N => Counted = Servers
  <1>1. IsFiniteSet(Servers) /\ Cardinality(Servers) = N
    BY FS_Interval, ServerBarrierAssumption DEF Servers
  <1>2. Counted \subseteq Servers
    BY DEF Counted
  <1> QED
    BY <1>1, <1>2, FS_Subset, FS_CardinalityType

-----------------------------------------------------------------------------
LEMMA InitIInv == Init => IInv
  <1> SUFFICES ASSUME Init PROVE IInv
    OBVIOUS
  <1> USE ServerBarrierAssumption
  <1>1. TypeOK /\ PipeInv
    BY DEF Init, TypeOK, PipeInv, Servers
  <1>2. \A s \in Servers : ~Requested(s) /\ ~Answered(s) /\ ~Released(s)
    <2>1. <<>> # <<"BARRIER_REQUEST">> /\ <<>> # <<"BARRIER_RESPONSE">>
      OBVIOUS
    <2>2. \A p \in Pipes : pipe[p] = <<>>
      BY DEF Init
    <2>3. \A s \in Servers : pipe[ToRoot(s)] = <<>> /\ pipe[FromRoot(s)] = <<>>
      BY <2>2, PipeFacts
    <2>4. \A s \in Servers : ~(bcast >= s) /\ pc[s] # "wait"
      BY DEF Init, Servers
    <2> QED
      BY <2>1, <2>3, <2>4 DEF Requested, Answered, Released
  <1>4. StageInv /\ RoundInv
    BY <1>2 DEF Init, StageInv, RoundInv, Passed, Answered
  <1>3. Counted = {}
    BY DEF Init, Counted
  <1> QED
    BY <1>1, <1>4, <1>3, FS_EmptySet DEF IInv, CounterIsExact, Init, Servers

-----------------------------------------------------------------------------
LEMMA BarrierCallIInv ==
  ASSUME IInv, NEW s \in Servers, BarrierCall(s)
  PROVE  IInv'
  <1> USE ServerBarrierAssumption DEF IInv
  <1>1. TypeOK' /\ PipeInv'
    BY DEF TypeOK, PipeInv, BarrierCall
  <1>2. \A t \in Servers : /\ Requested(t)' = Requested(t)
                           /\ Answered(t)' = Answered(t)
                           /\ Released(t)' = Released(t)
    BY DEF BarrierCall, Requested, Answered, Released, TypeOK
  <1>3. ~Requested(s) /\ ~Answered(s)
    BY DEF BarrierCall, StageInv
  <1>4. StageInv'
    BY <1>2, <1>3 DEF BarrierCall, StageInv, TypeOK, Answered, Requested
  <1>5. Counted' = Counted
    BY <1>2 DEF BarrierCall, Counted, TypeOK
  <1>6. RoundInv'
    BY <1>2 DEF BarrierCall, RoundInv, Passed
  <1> QED
    BY <1>1, <1>4, <1>5, <1>6 DEF BarrierCall, CounterIsExact

LEMMA BarrierSendIInv ==
  ASSUME IInv, NEW s \in Servers, BarrierSend(s)
  PROVE  IInv'
  <1> USE ServerBarrierAssumption DEF IInv
  <1>1. pc[s] = "send" /\ active[s] /\ ~Requested(s) /\ ~Answered(s)
    BY DEF BarrierSend, StageInv
  <1>2. pipe[ToRoot(s)] = <<>>
    <2>1. CASE s = 0
      BY <2>1, <1>1, PipeFacts DEF PipeInv, Requested, Answered, ToRoot, FromRoot
    <2>2. CASE s # 0
      BY <2>2, <1>1, PipeFacts DEF PipeInv, Requested, ToRoot, Servers
    <2> QED
      BY <2>1, <2>2
  <1>3. /\ pipe' \in [Pipes -> Seq(Cmd)]
        /\ pipe'[ToRoot(s)] = <<"BARRIER_REQUEST">>
        /\ \A q \in Pipes : q # ToRoot(s) => pipe'[q] = pipe[q]
    BY <1>2, PipeFacts, WriteToEmpty DEF BarrierSend, Cmd
  <1>4. TypeOK' /\ PipeInv'
    BY <1>3, PipeFacts DEF TypeOK, PipeInv, BarrierSend
  <1>5. \A t \in Servers : /\ t # s => Requested(t)' = Requested(t)
                           /\ Answered(t)' = Answered(t)
                           /\ Released(t)' = Released(t)
    <2> SUFFICES ASSUME NEW t \in Servers
                 PROVE  /\ t # s => Requested(t)' = Requested(t)
                        /\ Answered(t)' = Answered(t)
                        /\ Released(t)' = Released(t)
      OBVIOUS
    <2>1. t # s => Requested(t)' = Requested(t)
      BY <1>3, PipeFacts DEF Requested
    <2>2. pipe'[FromRoot(t)] = <<"BARRIER_RESPONSE">>
             <=> pipe[FromRoot(t)] = <<"BARRIER_RESPONSE">>
      BY <1>2, <1>3, PipeFacts
    <2>3. pc[t] = "wait" /\ ~active[t] <=> pc'[t] = "wait" /\ ~active'[t]
      BY <1>1 DEF BarrierSend, TypeOK
    <2> QED
      BY <2>1, <2>2, <2>3 DEF Answered, Released, BarrierSend
  <1>6. Requested(s)' /\ pc'[s] = "wait" /\ active'[s]
    BY <1>1, <1>3 DEF Requested, BarrierSend, TypeOK
  <1>7. StageInv'
    <2> SUFFICES ASSUME NEW t \in Servers
                 PROVE  /\ Requested(t)' => ~Answered(t)'
                        /\ bcast' >= t => pipe'[FromRoot(t)] # <<"BARRIER_RESPONSE">>
                        /\ Requested(t)' \/ Answered(t)' => pc'[t] = "wait" /\ active'[t]
                        /\ pc'[t] = "send" => active'[t]
                        /\ pc'[t] \in {"send", "wait"} => round'[t] < Rounds
      BY DEF StageInv
    <2>0. /\ ~Answered(s)' /\ ~(bcast' >= s)
          /\ round'[s] < Rounds /\ pc'[s] # "send"
      BY <1>1, <1>5, <1>6 DEF BarrierSend, StageInv, Answered
    <2>1. CASE t = s
      BY <2>0, <2>1, <1>6
    <2>2. CASE t # s
      <3>1. pipe'[FromRoot(t)] = pipe[FromRoot(t)]
        BY <2>2, <1>3, PipeFacts
      <3>2. /\ bcast' = bcast /\ round' = round /\ active' = active
            /\ pc'[t] = pc[t]
        BY <2>2 DEF BarrierSend, TypeOK
      <3> QED
        BY <2>2, <1>5, <3>1, <3>2 DEF StageInv
    <2> QED
      BY <2>1, <2>2
  <1>8. Counted' = Counted
    BY <1>1, <1>5, <1>6 DEF BarrierSend, Counted, TypeOK
  <1>9. RoundInv'
    BY <1>5 DEF BarrierSend, RoundInv, Passed
  <1> QED
    BY <1>4, <1>7, <1>8, <1>9 DEF BarrierSend, CounterIsExact

LEMMA BarrierReturnIInv ==
  ASSUME IInv, NEW s \in Servers, BarrierReturn(s)
  PROVE  IInv'
  <1> USE ServerBarrierAssumption DEF IInv
  <1>1. pc[s] = "wait" /\ ~active[s] /\ ~Requested(s) /\ ~Answered(s)
    BY DEF BarrierReturn, StageInv
  <1>2. round[s] < Rounds
    BY <1>1 DEF StageInv
  <1>3. TypeOK' /\ PipeInv'
    BY <1>2 DEF TypeOK, PipeInv, BarrierReturn
  <1>4. \A t \in Servers : /\ Requested(t)' = Requested(t)
                           /\ Answered(t)' = Answered(t)
                           /\ t # s => Released(t)' = Released(t)
    BY DEF BarrierReturn, Requested, Answered, Released, TypeOK
  <1>5. StageInv'
    BY <1>1, <1>4 DEF BarrierReturn, StageInv, TypeOK, Answered
  <1>6. Counted' = Counted
    BY <1>1, <1>4 DEF BarrierReturn, Counted, TypeOK
  <1>7. Passed(s)' = Passed(s)
    <2>1. Released(s)
      BY <1>1 DEF Released
    <2>2. ~Released(s)'
      BY <1>1 DEF Released, Answered, BarrierReturn, TypeOK
    <2> QED
      BY <2>1, <2>2 DEF Passed, BarrierReturn, TypeOK
  <1>8. RoundInv'
    BY <1>4, <1>7 DEF BarrierReturn, RoundInv, Passed, TypeOK
  <1> QED
    BY <1>3, <1>5, <1>6, <1>8 DEF BarrierReturn, CounterIsExact

LEMMA InitFailsIInv ==
  ASSUME IInv, NEW s \in Servers, InitFails(s)
  PROVE  IInv'
  <1> USE ServerBarrierAssumption DEF IInv
  <1>1. TypeOK' /\ PipeInv'
    BY DEF TypeOK, PipeInv, InitFails
  <1>2. \A t \in Servers : /\ Requested(t)' = Requested(t)
                           /\ Answered(t)' = Answered(t)
                           /\ Released(t)' = Released(t)
    BY DEF InitFails, Requested, Answered, Released, TypeOK
  <1>3. StageInv'
    BY <1>2 DEF InitFails, StageInv, TypeOK, Answered
  <1>4. Counted' = Counted
    BY <1>2 DEF InitFails, Counted, TypeOK
  <1>5. RoundInv'
    BY <1>2 DEF InitFails, RoundInv, Passed
  <1> QED
    BY <1>1, <1>3, <1>4, <1>5 DEF InitFails, CounterIsExact

-----------------------------------------------------------------------------
LEMMA ReadRequestIInv ==
  ASSUME IInv, NEW s \in Servers, ReadRequest(s)
  PROVE  IInv'
  <1> USE ServerBarrierAssumption DEF IInv
  <1>1. /\ pipe[ToRoot(s)] = <<"BARRIER_REQUEST">>
        /\ pipe' \in [Pipes -> Seq(Cmd)]
        /\ pipe'[ToRoot(s)] = <<>>
        /\ \A q \in Pipes : q # ToRoot(s) => pipe'[q] = pipe[q]
    BY PipeFacts, ReadLast DEF ReadRequest, Cmd
  <1>2. /\ bcast = -1 /\ pc' = pc /\ round' = round /\ active' = active
        /\ cnt' = Count(cnt)
        /\ bcast' = IF Completes(cnt) THEN N - 1 ELSE -1
    BY DEF ReadRequest
  <1>3. /\ Requested(s) /\ pc[s] = "wait" /\ active[s] /\ ~Answered(s)
        /\ ~Requested(s)'
    <2>1. <<>> # <<"BARRIER_REQUEST">>
      OBVIOUS
    <2>2. Requested(s) /\ ~Requested(s)'
      BY <1>1, <2>1 DEF Requested
    <2> QED
      BY <2>2 DEF StageInv
  <1>4. ASSUME NEW t \in Servers
        PROVE  /\ t # s => Requested(t)' = Requested(t)
               /\ pipe'[FromRoot(t)] = <<"BARRIER_RESPONSE">>
                    <=> pipe[FromRoot(t)] = <<"BARRIER_RESPONSE">>
    <2>1. t # s => Requested(t)' = Requested(t)
      BY <1>1, PipeFacts DEF Requested
    <2>2. <<>> # <<"BARRIER_RESPONSE">>
          /\ <<"BARRIER_REQUEST">> # <<"BARRIER_RESPONSE">>
      OBVIOUS
    <2> QED
      BY <1>1, <2>1, <2>2, PipeFacts
  <1>5. TypeOK' /\ PipeInv'
    BY <1>1, <1>2, PipeFacts DEF TypeOK, PipeInv, Count, Completes
  <1>6. s \notin Counted /\ IsFiniteSet(Counted)
    BY <1>3, CountedFinite DEF Counted
  <1>7. Cardinality(Counted \cup {s}) = cnt + 1
    BY <1>6, FS_AddElement DEF CounterIsExact
  <1>8. CASE ~Completes(cnt)
    <2>1. bcast' = -1 /\ cnt' = cnt + 1
      BY <1>2, <1>8 DEF Count
    <2>2. \A t \in Servers : Answered(t)' = Answered(t) /\ Released(t)' = Released(t)
      BY <1>2, <1>4, <2>1 DEF Answered, Released
    <2>3. StageInv'
      BY <1>2, <1>3, <1>4, <2>1, <2>2 DEF StageInv, Servers
    <2>4. Counted' = Counted \cup {s}
      BY <1>2, <1>3, <1>4, <2>2 DEF Counted
    <2>5. RoundInv'
      BY <1>2, <2>2 DEF RoundInv, Passed
    <2> QED
      BY <1>5, <1>7, <2>1, <2>3, <2>4, <2>5 DEF CounterIsExact
  <1>9. CASE Completes(cnt)
    <2>1. bcast' = N - 1 /\ cnt' = 0
      BY <1>2, <1>9 DEF Count
    <2>2. Counted \cup {s} = Servers
      <3>1. Counted \cup {s} \subseteq Servers
        BY DEF Counted
      <3>2. Cardinality(Counted \cup {s}) = Cardinality(Servers)
        BY <1>7, <1>9, CountedFinite DEF Completes
      <3> QED
        BY <3>1, <3>2, CountedFinite, FS_Subset
    <2>3. \A t \in Servers : /\ pc[t] = "wait" /\ active[t] /\ ~Answered(t)
                             /\ t # s => ~Requested(t)
      BY <1>3, <2>2 DEF Counted
    <2>4. \A t \in Servers : /\ bcast' >= t /\ Answered(t)'
                             /\ Released(t)' /\ ~Released(t)
                             /\ ~Requested(t)'
      BY <1>2, <1>3, <1>4, <2>1, <2>3 DEF Answered, Released, Servers
    <2>5. StageInv'
      BY <1>2, <1>4, <2>3, <2>4 DEF StageInv, Answered
    <2>6. Counted' = {}
      BY <2>4 DEF Counted
    <2>7. RoundInv'
      BY <1>2, <2>4 DEF RoundInv, Passed, TypeOK
    <2> QED
      BY <1>5, <2>1, <2>5, <2>6, <2>7, FS_EmptySet DEF CounterIsExact
  <1> QED
    BY <1>8, <1>9

LEMMA RespondIInv ==
  ASSUME IInv, Respond
  PROVE  IInv'
  <1> USE ServerBarrierAssumption DEF IInv
  <1> DEFINE b == bcast
  <1>1. /\ b \in Servers /\ bcast' = b - 1
        /\ pc' = pc /\ round' = round /\ active' = active /\ cnt' = cnt
    BY DEF Respond, TypeOK, Servers, NextToAnswer
  <1>2. /\ ~Requested(b) /\ pc[b] = "wait" /\ active[b]
        /\ pipe[FromRoot(b)] # <<"BARRIER_RESPONSE">>
    BY <1>1 DEF StageInv, Answered, Servers
  <1>3. pipe[FromRoot(b)] = <<>>
    <2>1. CASE b = 0
      BY <1>1, <1>2, <2>1, PipeFacts DEF PipeInv, Requested
    <2>2. CASE b # 0
      <3>1. FromRoot(b) > 0 /\ FromRoot(b) \in Pipes
        BY <1>1, <2>2, PipeFacts DEF FromRoot, Servers
      <3> QED
        BY <1>2, <3>1 DEF PipeInv, Pipes
    <2> QED
      BY <2>1, <2>2
  <1>4. /\ pipe' \in [Pipes -> Seq(Cmd)]
        /\ pipe'[FromRoot(b)] = <<"BARRIER_RESPONSE">>
        /\ \A q \in Pipes : q # FromRoot(b) => pipe'[q] = pipe[q]
    BY <1>1, <1>3, PipeFacts, WriteToEmpty DEF Respond, Cmd
  <1>5. TypeOK' /\ PipeInv'
    <2>1. b \in Int /\ b >= 0 /\ b <= N - 1
      BY <1>1 DEF Servers
    <2>2. bcast' \in -1 .. N - 1
      BY <1>1, <2>1
    <2>3. TypeOK'
      BY <1>1, <1>4, <2>2 DEF TypeOK
    <2>4. PipeInv'
      BY <1>1, <1>4, PipeFacts DEF PipeInv
    <2> QED
      BY <2>3, <2>4
  <1>6. ASSUME NEW t \in Servers
        PROVE  /\ Requested(t)' = Requested(t)
               /\ t # b => pipe'[FromRoot(t)] = pipe[FromRoot(t)]
               /\ t # b => (bcast' >= t) = (bcast >= t)
               /\ Answered(t)' = Answered(t)
               /\ Released(t)' = Released(t)
    <2>1. <<>> # <<"BARRIER_REQUEST">>
          /\ <<"BARRIER_REQUEST">> # <<"BARRIER_RESPONSE">>
      OBVIOUS
    <2>2. pipe'[ToRoot(t)] = <<"BARRIER_REQUEST">>
            <=> pipe[ToRoot(t)] = <<"BARRIER_REQUEST">>
      BY <1>1, <1>3, <1>4, <2>1, PipeFacts
    <2>3. t # b => pipe'[FromRoot(t)] = pipe[FromRoot(t)]
      BY <1>1, <1>4, PipeFacts
    <2>4. t # b => (bcast' >= t) = (bcast >= t)
      BY <1>1 DEF Servers
    <2>5. t = b => bcast >= t /\ pipe'[FromRoot(t)] = <<"BARRIER_RESPONSE">>
      BY <1>1, <1>4 DEF Servers
    <2> QED
      BY <1>1, <2>2, <2>3, <2>4, <2>5 DEF Requested, Answered, Released
  <1>7. StageInv'
    <2>1. ~(bcast' >= b)
      BY <1>1 DEF Servers
    <2> SUFFICES ASSUME NEW t \in Servers
                 PROVE  /\ Requested(t)' => ~Answered(t)'
                        /\ bcast' >= t => pipe'[FromRoot(t)] # <<"BARRIER_RESPONSE">>
                        /\ Requested(t)' \/ Answered(t)' => pc'[t] = "wait" /\ active'[t]
                        /\ pc'[t] = "send" => active'[t]
                        /\ pc'[t] \in {"send", "wait"} => round'[t] < Rounds
      BY DEF StageInv
    <2>2. bcast' >= t => pipe'[FromRoot(t)] # <<"BARRIER_RESPONSE">>
      BY <1>6, <2>1 DEF StageInv
    <2> QED
      BY <1>1, <1>6, <2>2 DEF StageInv
  <1>8. Counted' = Counted
    BY <1>1, <1>6 DEF Counted
  <1>9. RoundInv'
    BY <1>1, <1>6 DEF RoundInv, Passed
  <1>10. bcast' >= 0 => cnt' = 0
    BY <1>1 DEF Servers
  <1> QED
    BY <1>1, <1>5, <1>7, <1>8, <1>9, <1>10 DEF CounterIsExact

LEMMA ReadResponseIInv ==
  ASSUME IInv, NEW s \in Servers, ReadResponse(s)
  PROVE  IInv'
  <1> USE ServerBarrierAssumption DEF IInv
  <1>1. /\ pipe[FromRoot(s)] = <<"BARRIER_RESPONSE">>
        /\ pipe' \in [Pipes -> Seq(Cmd)]
        /\ pipe'[FromRoot(s)] = <<>>
        /\ \A q \in Pipes : q # FromRoot(s) => pipe'[q] = pipe[q]
    BY PipeFacts, ReadLast DEF ReadResponse, Cmd
  <1>2. /\ pc' = pc /\ round' = round /\ cnt' = cnt /\ bcast' = bcast
        /\ active' = [active EXCEPT ![s] = FALSE]
    BY DEF ReadResponse
  <1>3. /\ ~Requested(s) /\ Answered(s) /\ pc[s] = "wait" /\ active[s]
        /\ ~(bcast >= s)
    <2>2. Answered(s)
      BY <1>1 DEF Answered
    <2>3. ~(bcast >= s)
      BY <1>1 DEF StageInv
    <2>4. pc[s] = "wait" /\ active[s]
      BY <2>2 DEF StageInv
    <2>5. ~Requested(s)
      BY <2>2 DEF StageInv
    <2> QED
      BY <2>2, <2>3, <2>4, <2>5
  <1>4. TypeOK' /\ PipeInv'
    BY <1>1, <1>2, PipeFacts DEF TypeOK, PipeInv
  <1>5. ASSUME NEW t \in Servers
        PROVE  /\ Requested(t)' = Requested(t)
               /\ t # s => Answered(t)' = Answered(t)
               /\ t # s => pipe'[FromRoot(t)] = pipe[FromRoot(t)]
               /\ t # s => active'[t] = active[t]
               /\ Released(t)' = Released(t)
    <2>1. <<>> # <<"BARRIER_REQUEST">> /\ <<>> # <<"BARRIER_RESPONSE">>
          /\ <<"BARRIER_REQUEST">> # <<"BARRIER_RESPONSE">>
      OBVIOUS
    <2>2. Requested(t)' = Requested(t)
      BY <1>1, <2>1, PipeFacts DEF Requested
    <2>3. t # s => pipe'[FromRoot(t)] = pipe[FromRoot(t)]
      BY <1>1, PipeFacts
    <2>4. t # s => active'[t] = active[t]
      BY <1>2 DEF TypeOK
    <2>5. Released(s) /\ Released(s)'
      BY <1>1, <1>2, <1>3 DEF Released, TypeOK
    <2> QED
      BY <1>2, <2>2, <2>3, <2>4, <2>5 DEF Answered, Released
  <1>6. ~Answered(s)' /\ ~active'[s] /\ ~Requested(s)'
    <2>1. <<>> # <<"BARRIER_RESPONSE">>
      OBVIOUS
    <2> QED
      BY <1>1, <1>2, <1>3, <1>5, <2>1 DEF Answered, TypeOK
  <1>7. StageInv'
    <2> SUFFICES ASSUME NEW t \in Servers
                 PROVE  /\ Requested(t)' => ~Answered(t)'
                        /\ bcast' >= t => pipe'[FromRoot(t)] # <<"BARRIER_RESPONSE">>
                        /\ Requested(t)' \/ Answered(t)' => pc'[t] = "wait" /\ active'[t]
                        /\ pc'[t] = "send" => active'[t]
                        /\ pc'[t] \in {"send", "wait"} => round'[t] < Rounds
      BY DEF StageInv
    <2>1. CASE t = s
      BY <1>2, <1>3, <1>6, <2>1 DEF StageInv
    <2>2. CASE t # s
      BY <1>2, <1>5, <2>2 DEF StageInv
    <2> QED
      BY <2>1, <2>2
  <1>8. Counted' = Counted
    BY <1>2, <1>3, <1>5, <1>6 DEF Counted
  <1>9. RoundInv'
    BY <1>2, <1>5 DEF RoundInv, Passed
  <1> QED
    BY <1>2, <1>4, <1>7, <1>8, <1>9 DEF CounterIsExact

-----------------------------------------------------------------------------
LEMMA NextIInv == IInv /\ [Next]_vars => IInv'
  <1> SUFFICES ASSUME IInv, [Next]_vars PROVE IInv'
    OBVIOUS
  <1>1. ASSUME NEW s \in Servers, Main(s) \/ InitFails(s) PROVE IInv'
    BY <1>1, BarrierCallIInv, BarrierSendIInv, BarrierReturnIInv, InitFailsIInv DEF Main
  <1>2. CASE RootProgress
    <2>1. 0 \in Servers
      BY ServerBarrierAssumption DEF Servers
    <2> QED
      BY <1>2, <2>1, RespondIInv, ReadRequestIInv, ReadResponseIInv DEF RootProgress
  <1>3. ASSUME NEW s \in Servers \ {0}, ReadResponse(s) PROVE IInv'
    BY <1>3, ReadResponseIInv
  <1>4. CASE UNCHANGED vars
    BY <1>4 DEF vars, IInv, TypeOK, PipeInv, StageInv, RoundInv, Passed, Released,
       Requested, Answered, CounterIsExact, Counted
  <1> QED
    BY <1>1, <1>2, <1>3, <1>4 DEF Next

(* The variables stay in their types, for every number of servers.         *)
THEOREM TypeCorrect == Spec => []TypeOK
  <1>1. IInv => TypeOK
    BY DEF IInv
  <1> QED
    BY <1>1, InitIInv, NextIInv, PTL DEF Spec

(* barrier_cnt counts exactly the servers that sleep in server_barrier     *)
(* with neither a request nor a response under way.                        *)
THEOREM CounterExact == Spec => []CounterIsExact
  <1>1. IInv => CounterIsExact
    BY DEF IInv
  <1> QED
    BY <1>1, InitIInv, NextIInv, PTL DEF Spec

LEMMA IInvImpliesSafety == IInv => BarrierSafety
  <1> SUFFICES ASSUME IInv, NEW s \in Servers, NEW t \in Servers
               PROVE  round[s] <= Calls(t)
    BY DEF BarrierSafety
  <1>1. round[s] <= Passed(s)
    BY DEF Passed, IInv, TypeOK
  <1>2. Passed(t) <= Calls(t)
    <2>1. Released(t) => pc[t] = "wait"
      BY DEF Released, IInv, StageInv, Answered
    <2> QED
      BY <2>1 DEF Passed, Calls, IInv, TypeOK
  <1>3. Passed(s) = Passed(t)
    BY DEF IInv, RoundInv
  <1> QED
    BY <1>1, <1>2, <1>3 DEF Passed, Calls, IInv, TypeOK

(* No server_barrier returns before every server has called it, for every  *)
(* number of servers and of barriers, whoever fails to initialise.         *)
THEOREM BarrierIsSafe == Spec => []BarrierSafety
  BY IInvImpliesSafety, InitIInv, NextIInv, PTL DEF Spec

-----------------------------------------------------------------------------
(* The abstract barrier's view of a state.                                 *)
AbsEntered == [s \in Servers |-> Calls(s)]

LEMMA CallSimulatesEnter ==
  ASSUME IInv, NEW s \in Servers, BarrierCall(s)
  PROVE  B!Enter(s)
  <1>1. /\ Calls(s) = round[s] /\ round[s] < Rounds /\ round' = round
        /\ Calls(s)' = round[s] + 1
    BY DEF BarrierCall, Calls, IInv, TypeOK
  <1>2. \A t \in Servers : t # s => Calls(t)' = Calls(t)
    BY DEF BarrierCall, Calls, IInv, TypeOK
  <1>3. AbsEntered' = [AbsEntered EXCEPT ![s] = @ + 1]
    BY <1>1, <1>2 DEF AbsEntered
  <1> QED
    BY <1>1, <1>3 DEF B!Enter, AbsEntered

LEMMA ReturnSimulatesLeave ==
  ASSUME IInv, NEW s \in Servers, BarrierReturn(s)
  PROVE  B!Leave(s)
  <1>1. /\ Passed(s) = round[s] + 1 /\ Calls(s) = round[s] + 1
        /\ Calls(s)' = round[s] + 1 /\ round' = [round EXCEPT ![s] = @ + 1]
    BY DEF BarrierReturn, Calls, Passed, Released, IInv, TypeOK
  <1>2. \A t \in Servers : round[s] < Calls(t)
    <2> SUFFICES ASSUME NEW t \in Servers PROVE round[s] < Calls(t)
      OBVIOUS
    <2>1. Released(t) => pc[t] = "wait"
      BY DEF Released, IInv, StageInv, Answered
    <2>2. Passed(t) <= Calls(t)
      BY <2>1 DEF Passed, Calls, IInv, TypeOK
    <2>3. Passed(t) = round[s] + 1
      BY <1>1 DEF IInv, RoundInv
    <2> QED
      BY <2>2, <2>3 DEF Calls, IInv, TypeOK
  <1>3. \A t \in Servers : Calls(t)' = Calls(t)
    BY <1>1 DEF BarrierReturn, Calls, IInv, TypeOK
  <1>4. AbsEntered' = AbsEntered
    BY <1>3 DEF AbsEntered
  <1> QED
    BY <1>1, <1>2, <1>4, B!Servers = Servers DEF B!Leave, B!Servers, Servers, AbsEntered

(* The inductive invariant of the barrier holds in every state.            *)
THEOREM Inductive == Spec => []IInv
  BY InitIInv, NextIInv, PTL DEF Spec

(* Every behaviour of the pipes and counters, seen from the callers, is a  *)
(* behaviour of Barrier (its fairness is left to the model checker).       *)
THEOREM RefinesBarrier == Spec => B!Init /\ [][B!Next]_(B!vars)
  <1>1. Init => B!Init
    BY ServerBarrierAssumption DEF Init, B!Init, B!Servers, Servers, Calls
  <1>2. IInv /\ [Next]_vars => [B!Next]_(B!vars)
    <2> SUFFICES ASSUME IInv, [Next]_vars PROVE [B!Next]_(B!vars)
      OBVIOUS
    <2>0. B!Servers = Servers
      BY DEF B!Servers, Servers
    <2>1. ASSUME NEW s \in Servers, BarrierCall(s) PROVE B!Next
      BY <2>0, <2>1, CallSimulatesEnter DEF B!Next
    <2>2. ASSUME NEW s \in Servers, BarrierReturn(s) PROVE B!Next
      BY <2>0, <2>2, ReturnSimulatesLeave DEF B!Next
    <2>3. ASSUME round' = round, \A t \in Servers : Calls(t)' = Calls(t)
          PROVE  UNCHANGED B!vars
      BY <2>3 DEF B!vars
    <2>4. ASSUME NEW s \in Servers, BarrierSend(s) \/ InitFails(s)
          PROVE  UNCHANGED B!vars
      BY <2>3, <2>4 DEF BarrierSend, InitFails, Calls, IInv, TypeOK
    <2>5. ASSUME pc' = pc, round' = round
          PROVE  UNCHANGED B!vars
      BY <2>3, <2>5 DEF Calls
    <2>6. CASE RootProgress
      BY <2>5, <2>6 DEF RootProgress, Respond, ReadRequest, ReadResponse
    <2>7. ASSUME NEW s \in Servers, ReadResponse(s) PROVE UNCHANGED B!vars
      BY <2>5, <2>7 DEF ReadResponse
    <2>8. CASE UNCHANGED vars
      BY <2>5, <2>8 DEF vars
    <2> QED
      BY <2>1, <2>2, <2>4, <2>6, <2>7, <2>8 DEF Next, Main
  <1> QED
    BY <1>1, <1>2, InitIInv, NextIInv, PTL DEF Spec
=============================================================================
