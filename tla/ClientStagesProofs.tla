------------------------- MODULE ClientStagesProofs -------------------------
(***************************************************************************)
(* The stages of any number of clients in any namespaces: clients as quick *)
(* as they like, which may end or abort without PMIx_Finalize, launches    *)
(* that fail, and the time limit with cli_kill_all.                        *)
(***************************************************************************)
EXTENDS ClientStages, TLAPS

(* A client that the server has not heard of too soon, nor killed.         *)
Fine(c) == c \notin overtook \cup killed

Dead(c) == os[c] \in {"zombie", "reaped"}

(* The launch loop: the clients after the one it is at are not born, that  *)
(* one is UNINIT unless something has been heard of it, and its fields are *)
(* filled in one after the other.                                          *)
Recording == pc \in {"pid", "rank", "name", "stage"}
LaunchInv ==
  /\ pc = "fork" => \A c \in Client : k <= c => os[c] = "unborn"
  /\ Recording => (\A c \in Client : k < c => os[c] = "unborn") /\ os[k] # "unborn"
  /\ Recording /\ Fine(k) => stage[k] = "UNINIT"
  /\ pc = "killPid" => os[k] # "unborn"
  /\ pc \in {"kill", "killPid"} => ret # "none"
  /\ \A c \in Client : pid[c] = "none" /\ Alive(c) => pc = "pid" /\ c = k
  /\ \A c \in ranked : ns[c] = "NULL" => pc = "crashed" \/ (pc = "name" /\ c = k)

(* Whatever happens, what has not begun is UNINIT and what is TERM is dead. *)
(* The stage of a client that is fine follows its process, and the name of *)
(* one that was not killed is freed only after it has been reaped.         *)
ClientOK(c) ==
  /\ os[c] = "unborn" => stage[c] = "UNINIT"
  /\ stage[c] = "TERM" => Dead(c)
  /\ Fine(c) =>
       /\ stage[c] = "UNINIT" =>
            os[c] \in {"unborn", "running", "finalizing"} \/ (os[c] = "zombie" /\ c \in ended)
       /\ stage[c] = "FORKED" =>
            os[c] \in {"running", "finalizing", "stuck"} \/ (Dead(c) /\ c \in ended)
       /\ stage[c] = "FIN" => os[c] = "finalized" \/ Dead(c)
       /\ stage[c] = "TERM" => os[c] = "reaped"
  /\ c \notin killed =>
       /\ <<"doubleFree", c>> \notin faults
       /\ os[c] # "reaped" => ns[c] # "freed"

(* A thread cleans up after a dead client; if the client was not killed it *)
(* has been reaped, and if it is fine its stage tells how far the thread   *)
(* has come.                                                               *)
FrameOK(t) ==
  LET f == frame[t]
      c == frame[t].cli
  IN  f.at # "none" =>
        /\ Dead(c)
        /\ c \notin killed => os[c] = "reaped" /\ (f.at # "abort" => ns[c] # "freed")
        /\ Fine(c) =>
             /\ f.at = "switch" => stage[c] = "FIN" \/ (stage[c] = "FORKED" /\ ~f.nested)
             /\ f.at = "finalize" => stage[c] = "FORKED"
             /\ f.at \in {"terminate", "terminated"} => stage[c] = "FIN"
             /\ f.at = "free" => stage[c] = "TERM"
             /\ f.at = "abort" => stage[c] = "TERM" /\ f.nested
             /\ f.nested => c \in ended

(* No two threads clean up after one client, unless it was killed.         *)
OneReaper ==
  \A t, u \in Thread :
    InCleanup(t) /\ InCleanup(u) /\ t # u /\ frame[t].cli = frame[u].cli =>
      frame[t].cli \in killed

IInv ==
  /\ TypeOK
  /\ LaunchInv
  /\ \A c \in Client : ClientOK(c)
  /\ \A t \in Thread : FrameOK(t)
  /\ OneReaper
  /\ CleanRun
-----------------------------------------------------------------------------
FrameRecord == [at : {"none", "switch", "finalize", "terminate", "terminated", "free", "abort"},
                cli : Client, nested : BOOLEAN]

LEMMA InitIInv == Init => IInv
  <1> SUFFICES ASSUME Init PROVE IInv
    OBVIOUS
  <1>1. 1 \in Client /\ \A c \in Client : 1 <= c
    BY ClientStagesAssumption DEF Client
  <1>2. TypeOK
    BY <1>1 DEF Init, TypeOK, Stage, Thread, NoFrame
  <1>3. LaunchInv
    BY <1>1 DEF Init, LaunchInv, Recording, Alive
  <1>4. \A c \in Client : ClientOK(c)
    BY DEF Init, ClientOK, Fine
  <1>5. \A t \in Thread : FrameOK(t)
    BY DEF Init, FrameOK, NoFrame
  <1> QED
    BY <1>2, <1>3, <1>4, <1>5 DEF Init, IInv, OneReaper, InCleanup, NoFrame, CleanRun

(* Where a thread in cli_cleanup() stands.                                 *)
LEMMA FrameFacts ==
  ASSUME IInv, NEW t \in Thread, InCleanup(t)
  PROVE  /\ frame[t] \in FrameRecord
         /\ frame[t].cli \in Client
         /\ Dead(frame[t].cli)
         /\ stage[frame[t].cli] \in Stage
         /\ Fine(frame[t].cli) => stage[frame[t].cli] # "UNINIT"
         /\ FrameOK(t) /\ ClientOK(frame[t].cli)
  <1>1. frame[t] \in FrameRecord /\ FrameOK(t)
    BY DEF IInv, TypeOK, FrameRecord
  <1>2. frame[t].cli \in Client /\ frame[t].at \in {"switch", "finalize", "terminate", "terminated", "free", "abort"}
    BY <1>1 DEF FrameRecord, InCleanup
  <1>3. Dead(frame[t].cli) /\ (Fine(frame[t].cli) => stage[frame[t].cli] # "UNINIT")
    BY <1>1, <1>2 DEF FrameOK
  <1> QED
    BY <1>1, <1>2, <1>3 DEF IInv, TypeOK

(* A step of cli_cleanup() by t concerns the client it cleans up after; a  *)
(* thread that does the same for that client can do so only if it has been *)
(* killed.                                                                 *)
LEMMA CleanupKeeps ==
  ASSUME IInv, NEW t \in Thread, InCleanup(t), NEW c, c = frame[t].cli,
         NEW g \in FrameRecord, frame' = [frame EXCEPT ![t] = g], g.at # "none" => g.cli = c,
         UNCHANGED <<main, progress, os, ended, overtook, killed, ranked>>,
         NEW s \in Stage, stage' = [stage EXCEPT ![c] = s],
         NEW p \in {"none", "set"}, pid' = [pid EXCEPT ![c] = p],
         NEW n \in {"NULL", "allocated", "freed"}, ns' = [ns EXCEPT ![c] = n],
         n = "NULL" => ns[c] = "NULL",
         abort' \in BOOLEAN, abort' => abort \/ ended \cup overtook \cup killed # {},
         \A d \in Client : d # c /\ <<"doubleFree", d>> \in faults' => <<"doubleFree", d>> \in faults,
         ClientOK(c)', FrameOK(t)'
  PROVE  IInv'
  <1>1. c \in Client /\ Dead(c) /\ (Fine(c) => stage[c] # "UNINIT")
    BY FrameFacts
  <1>2. \A d \in Client : d # c => stage'[d] = stage[d] /\ pid'[d] = pid[d] /\ ns'[d] = ns[d]
    BY DEF IInv, TypeOK
  <1>3. ns'[c] = n
    BY <1>1 DEF IInv, TypeOK
  <1>4. TypeOK'
    BY <1>1 DEF IInv, TypeOK, FrameRecord, main, progress
  <1>5. LaunchInv'
    <2>1. LaunchInv /\ pc' = pc /\ k' = k /\ ret' = ret /\ k \in Client
      BY DEF IInv, TypeOK, main
    <2>2. Recording /\ Fine(k) => k # c
      BY <1>1, <2>1 DEF LaunchInv
    <2>3. Recording' /\ Fine(k)' => stage'[k'] = "UNINIT"
      BY <1>2, <2>1, <2>2 DEF LaunchInv, Recording, Fine
    <2>4. \A d \in Client : pid'[d] = "none" /\ Alive(d)' => pc = "pid" /\ d = k
      BY <1>1, <1>2, <2>1 DEF LaunchInv, Alive, Dead
    <2>5. \A d \in ranked' : d \in Client
      BY <1>4 DEF TypeOK
    <2>6. \A d \in ranked' : ns'[d] = "NULL" => pc = "crashed" \/ (pc = "name" /\ d = k)
      BY <1>2, <1>3, <2>1, <2>5 DEF LaunchInv
    <2> QED
      BY <2>1, <2>3, <2>4, <2>6 DEF LaunchInv, Recording
  <1>6. ASSUME NEW d \in Client PROVE ClientOK(d)'
    <2>1. ClientOK(d)
      BY DEF IInv
    <2> QED
      BY <1>2, <2>1 DEF ClientOK, Fine, Dead
  <1>7. \A u \in Thread : u # t => frame'[u] = frame[u]
    BY DEF IInv, TypeOK
  <1>8. frame'[t] = g
    BY DEF IInv, TypeOK
  <1>9. ASSUME NEW u \in Thread PROVE FrameOK(u)'
    <2>1. CASE u # t /\ frame[u].at # "none"
      <3>1. FrameOK(u) /\ frame'[u] = frame[u] /\ frame[u].cli \in Client
        BY <1>7, <2>1, FrameFacts DEF IInv, InCleanup
      <3>2. CASE frame[u].cli = c
        <4>1. c \in killed /\ Dead(c)'
          BY <1>1, <2>1, <3>2 DEF IInv, OneReaper, InCleanup, Dead
        <4> QED
          BY <3>1, <3>2, <4>1 DEF FrameOK, Fine
      <3>3. CASE frame[u].cli # c
        <4>1. stage'[frame[u].cli] = stage[frame[u].cli] /\ ns'[frame[u].cli] = ns[frame[u].cli]
          BY <1>2, <3>1, <3>3
        <4> QED
          BY <3>1, <4>1 DEF FrameOK, Fine, Dead
      <3> QED
        BY <3>2, <3>3
    <2>2. CASE u # t /\ frame[u].at = "none"
      BY <1>7, <2>2 DEF FrameOK
    <2> QED
      BY <2>1, <2>2
  <1>10. OneReaper'
    <2>1. \A u \in Thread : InCleanup(u)' => InCleanup(u) /\ frame'[u].cli = frame[u].cli
      BY <1>7, <1>8 DEF InCleanup
    <2> QED
      BY <2>1 DEF IInv, OneReaper
  <1>11. CleanRun'
    BY DEF IInv, CleanRun
  <1> QED
    BY <1>4, <1>5, <1>6, <1>9, <1>10, <1>11 DEF IInv

LEMMA SwitchIInv == ASSUME IInv, NEW t \in Thread, CleanupSwitch(t) PROVE IInv'
  <1>2. InCleanup(t)
    BY DEF CleanupSwitch, InCleanup
  <1> PICK c \in Client : c = frame[t].cli
    BY <1>2, FrameFacts
  <1> DEFINE f == frame[t]
             next == NextState[stage[c]]
             g == CASE next = "FIN" -> [f EXCEPT !.at = "finalize"]
                    [] next = "TERM" -> [f EXCEPT !.at = "terminate"]
                    [] OTHER -> Return(f)
  <1>1. f.at = "switch" /\ frame' = [frame EXCEPT ![t] = g] /\ abort' = (abort \/ next = "UNDEF")
        /\ UNCHANGED <<stage, pid, ranked, ns, main, progress, world>>
    BY DEF CleanupSwitch
  <1>3. f \in FrameRecord /\ c \in Client /\ FrameOK(t) /\ ClientOK(c) /\ stage[c] \in Stage
    BY <1>2, FrameFacts
  <1>4. next = CASE stage[c] = "UNINIT" -> "FORKED" [] stage[c] = "FORKED" -> "FIN"
                 [] stage[c] = "FIN" -> "TERM" [] stage[c] = "TERM" -> "UNDEF"
    BY <1>3 DEF NextState
  <1>5. Fine(c) => stage[c] = "FIN" \/ (stage[c] = "FORKED" /\ ~f.nested)
    BY <1>1, <1>3 DEF FrameOK
  <1>6. g \in FrameRecord
        /\ (stage[c] = "FORKED" => g = [f EXCEPT !.at = "finalize"])
        /\ (stage[c] = "FIN" => g = [f EXCEPT !.at = "terminate"])
        /\ (stage[c] \notin {"FORKED", "FIN"} => g = Return(f))
    BY <1>3, <1>4, ClientStagesAssumption DEF FrameRecord, Return, NoFrame, Client, Stage
  <1>7. g.at # "none" => g.cli = c
    BY <1>3, <1>6 DEF FrameRecord, Return, NoFrame, Stage
  <1>8. stage' = [stage EXCEPT ![c] = stage[c]] /\ pid' = [pid EXCEPT ![c] = pid[c]]
        /\ ns' = [ns EXCEPT ![c] = ns[c]]
        /\ pid[c] \in {"none", "set"} /\ ns[c] \in {"NULL", "allocated", "freed"}
    BY <1>1, <1>3 DEF IInv, TypeOK
  <1>9. abort' \in BOOLEAN /\ (abort' => abort \/ ended \cup overtook \cup killed # {})
    BY <1>1, <1>4, <1>5 DEF IInv, TypeOK, Fine
  <1>10. ClientOK(c)'
    BY <1>1, <1>3 DEF ClientOK, Fine, Dead, world, history
  <1>11. frame'[t] = g
    BY <1>1 DEF IInv, TypeOK
  <1>12. FrameOK(t)'
    <2>1. CASE Fine(c)
      <3>1. g.cli = c /\ g.nested = f.nested /\ g.at = IF stage[c] = "FIN" THEN "terminate" ELSE "finalize"
        BY <1>3, <1>5, <1>6, <2>1 DEF FrameRecord
      <3> QED
        BY <1>1, <1>3, <1>5, <1>11, <2>1, <3>1 DEF FrameOK, Fine, Dead, world, history
    <2>2. CASE ~Fine(c)
      BY <1>1, <1>3, <1>7, <1>11, <2>2 DEF FrameOK, Fine, Dead, world, history
    <2> QED
      BY <2>1, <2>2
  <1> HIDE DEF g
  <1> QED
    BY <1>1, <1>2, <1>3, <1>6, <1>7, <1>8, <1>9, <1>10, <1>12, CleanupKeeps DEF world, history

LEMMA FinalizeIInv == ASSUME IInv, NEW t \in Thread, CleanupFinalize(t) PROVE IInv'
  <1>2. InCleanup(t)
    BY DEF CleanupFinalize, InCleanup
  <1> PICK c \in Client : c = frame[t].cli
    BY <1>2, FrameFacts
  <1> DEFINE f == frame[t]
             g == [f EXCEPT !.at = "switch", !.nested = TRUE]
  <1>1. f.at = "finalize" /\ frame' = [frame EXCEPT ![t] = g]
        /\ stage' = [stage EXCEPT ![c] = "FIN"] /\ abort' = (abort \/ NextState[stage[c]] # "FIN")
        /\ UNCHANGED <<pid, ranked, ns, main, progress, world>>
    BY DEF CleanupFinalize, SetFin
  <1>3. f \in FrameRecord /\ c \in Client /\ Dead(c) /\ FrameOK(t) /\ ClientOK(c) /\ stage[c] \in Stage
    BY <1>2, FrameFacts
  <1>4. Fine(c) => stage[c] = "FORKED" /\ c \in ended
    BY <1>1, <1>3 DEF FrameOK, ClientOK, Dead
  <1>5. g \in FrameRecord /\ g.cli = c /\ g.nested /\ g.at = "switch" /\ frame'[t] = g
    BY <1>1, <1>3 DEF FrameRecord, IInv, TypeOK
  <1>6. pid' = [pid EXCEPT ![c] = pid[c]] /\ ns' = [ns EXCEPT ![c] = ns[c]]
        /\ pid[c] \in {"none", "set"} /\ ns[c] \in {"NULL", "allocated", "freed"}
        /\ stage'[c] = "FIN" /\ "FIN" \in Stage
    BY <1>1, <1>3 DEF IInv, TypeOK, Stage
  <1>7. abort' \in BOOLEAN /\ (abort' => abort \/ ended \cup overtook \cup killed # {})
    BY <1>1, <1>4 DEF IInv, TypeOK, Fine
  <1>8. ClientOK(c)'
    BY <1>1, <1>3, <1>6 DEF ClientOK, Fine, Dead, world, history
  <1> HIDE DEF g
  <1>9. FrameOK(t)'
    <2>1. UNCHANGED <<os, ns, ended, overtook, killed>>
      BY <1>1 DEF world, history
    <2>2. c \notin killed => os[c] = "reaped" /\ ns[c] # "freed"
      BY <1>1, <1>3 DEF FrameOK
    <2> QED
      BY <1>3, <1>4, <1>5, <1>6, <2>1, <2>2 DEF FrameOK, Fine, Dead
  <1> QED
    BY <1>1, <1>2, <1>3, <1>5, <1>6, <1>7, <1>8, <1>9, CleanupKeeps DEF world, history

LEMMA TerminateIInv == ASSUME IInv, NEW t \in Thread, CleanupTerminate(t) PROVE IInv'
  <1>2. InCleanup(t)
    BY DEF CleanupTerminate, InCleanup
  <1> PICK c \in Client : c = frame[t].cli
    BY <1>2, FrameFacts
  <1> DEFINE f == frame[t]
             g == [f EXCEPT !.at = "terminated"]
  <1>1. f.at = "terminate" /\ frame' = [frame EXCEPT ![t] = g]
        /\ pid' = [pid EXCEPT ![c] = "none"] /\ abort' = (abort \/ NextState[stage[c]] # "TERM")
        /\ UNCHANGED <<stage, ranked, ns, main, progress, world>>
    BY DEF CleanupTerminate, IInv, TypeOK
  <1>3. f \in FrameRecord /\ c \in Client /\ Dead(c) /\ FrameOK(t) /\ ClientOK(c) /\ stage[c] \in Stage
    BY <1>2, FrameFacts
  <1>4. Fine(c) => stage[c] = "FIN"
    BY <1>1, <1>3 DEF FrameOK
  <1>5. g \in FrameRecord /\ g.cli = c /\ g.nested = f.nested /\ g.at = "terminated" /\ frame'[t] = g
    BY <1>1, <1>3 DEF FrameRecord, IInv, TypeOK
  <1>6. stage' = [stage EXCEPT ![c] = stage[c]] /\ ns' = [ns EXCEPT ![c] = ns[c]]
        /\ ns[c] \in {"NULL", "allocated", "freed"}
    BY <1>1, <1>3 DEF IInv, TypeOK
  <1>7. abort' \in BOOLEAN /\ (abort' => abort \/ ended \cup overtook \cup killed # {})
    <2>1. NextState["FIN"] = "TERM"
      BY DEF NextState, Stage
    <2> QED
      BY <1>1, <1>4, <2>1 DEF IInv, TypeOK, Fine
  <1>8. ClientOK(c)'
    BY <1>1, <1>3 DEF ClientOK, Fine, Dead, world, history
  <1>9. FrameOK(t)'
    BY <1>1, <1>3, <1>4, <1>5 DEF FrameOK, Fine, Dead, world, history
  <1> HIDE DEF g
  <1> QED
    BY <1>1, <1>2, <1>3, <1>5, <1>6, <1>7, <1>8, <1>9, CleanupKeeps DEF world, history

LEMMA TerminatedIInv == ASSUME IInv, NEW t \in Thread, CleanupTerminated(t) PROVE IInv'
  <1>2. InCleanup(t)
    BY DEF CleanupTerminated, InCleanup
  <1> PICK c \in Client : c = frame[t].cli
    BY <1>2, FrameFacts
  <1> DEFINE f == frame[t]
             g == [f EXCEPT !.at = "free"]
  <1>1. f.at = "terminated" /\ frame' = [frame EXCEPT ![t] = g]
        /\ stage' = [stage EXCEPT ![c] = "TERM"]
        /\ UNCHANGED <<pid, ranked, ns, abort, main, progress, world>>
    BY DEF CleanupTerminated, IInv, TypeOK
  <1>3. f \in FrameRecord /\ c \in Client /\ Dead(c) /\ FrameOK(t) /\ ClientOK(c) /\ stage[c] \in Stage
    BY <1>2, FrameFacts
  <1>4. g \in FrameRecord /\ g.cli = c /\ g.nested = f.nested /\ g.at = "free" /\ frame'[t] = g
    BY <1>1, <1>3 DEF FrameRecord, IInv, TypeOK
  <1>5. pid' = [pid EXCEPT ![c] = pid[c]] /\ ns' = [ns EXCEPT ![c] = ns[c]]
        /\ pid[c] \in {"none", "set"} /\ ns[c] \in {"NULL", "allocated", "freed"}
        /\ stage'[c] = "TERM" /\ "TERM" \in Stage
    BY <1>1, <1>3 DEF IInv, TypeOK, Stage
  <1>6. abort' \in BOOLEAN /\ (abort' => abort)
    BY <1>1 DEF IInv, TypeOK
  <1>7. Fine(c) => os[c] = "reaped"
    BY <1>1, <1>3 DEF FrameOK, Fine
  <1>8. ClientOK(c)'
    BY <1>1, <1>3, <1>5, <1>7 DEF ClientOK, Fine, Dead, world, history
  <1> HIDE DEF g
  <1>9. FrameOK(t)'
    <2>1. UNCHANGED <<os, ns, ended, overtook, killed>>
      BY <1>1 DEF world, history
    <2>2. /\ c \notin killed => os[c] = "reaped" /\ ns[c] # "freed"
          /\ Fine(c) => (f.nested => c \in ended)
      BY <1>1, <1>3 DEF FrameOK
    <2> HIDE DEF f
    <2> QED
      BY <1>3, <1>4, <1>5, <2>1, <2>2 DEF FrameOK, Fine, Dead
  <1> QED
    BY <1>1, <1>2, <1>3, <1>4, <1>5, <1>6, <1>8, <1>9, CleanupKeeps DEF world, history

LEMMA FreesIInv == ASSUME IInv, NEW t \in Thread, CleanupFrees(t) PROVE IInv'
  <1>2. InCleanup(t)
    BY DEF CleanupFrees, InCleanup
  <1> PICK c \in Client : c = frame[t].cli
    BY <1>2, FrameFacts
  <1> DEFINE f == frame[t]
             g == IF f.nested THEN [f EXCEPT !.at = "abort"] ELSE NoFrame
             n == IF ns[c] = "NULL" THEN "NULL" ELSE "freed"
  <1>1. f.at = "free" /\ frame' = [frame EXCEPT ![t] = g]
        /\ ns' = [ns EXCEPT ![c] = n]
        /\ faults' = faults \cup (IF ns[c] = "freed" THEN {<<"doubleFree", c>>} ELSE {})
        /\ UNCHANGED <<stage, pid, ranked, abort, main, progress, os, ended, overtook, killed>>
    BY DEF CleanupFrees, Return, IInv, TypeOK
  <1>3. f \in FrameRecord /\ c \in Client /\ Dead(c) /\ FrameOK(t) /\ ClientOK(c) /\ stage[c] \in Stage
    BY <1>2, FrameFacts
  <1>4. /\ g \in FrameRecord /\ frame'[t] = g
        /\ g.at # "none" => g.cli = c /\ g.nested /\ f.nested /\ g.at = "abort"
    <2>1. frame'[t] = g
      BY <1>1 DEF IInv, TypeOK
    <2>2. CASE f.nested
      BY <1>3, <2>1, <2>2 DEF FrameRecord
    <2>3. CASE ~f.nested
      BY <1>3, <2>1, <2>3, ClientStagesAssumption DEF FrameRecord, NoFrame, Client
    <2> QED
      BY <2>2, <2>3
  <1>5. stage' = [stage EXCEPT ![c] = stage[c]] /\ pid' = [pid EXCEPT ![c] = pid[c]]
        /\ pid[c] \in {"none", "set"} /\ n \in {"NULL", "allocated", "freed"}
        /\ (n = "NULL" => ns[c] = "NULL")
    BY <1>1, <1>3 DEF IInv, TypeOK
  <1>6. abort' \in BOOLEAN /\ (abort' => abort)
    BY <1>1 DEF IInv, TypeOK
  <1>7. c \notin killed => os[c] = "reaped" /\ ns[c] # "freed"
    BY <1>1, <1>3 DEF FrameOK
  <1>8. ClientOK(c)'
    BY <1>1, <1>3, <1>7 DEF ClientOK, Fine, Dead
  <1>9. FrameOK(t)'
    <2>1. /\ c \notin killed => os[c] = "reaped"
          /\ Fine(c) => stage[c] = "TERM" /\ (f.nested => c \in ended)
      BY <1>1, <1>3 DEF FrameOK
    <2> HIDE DEF f, g, n
    <2> QED
      BY <1>1, <1>3, <1>4, <2>1 DEF FrameOK, Fine, Dead
  <1>10. \A d \in Client : d # c /\ <<"doubleFree", d>> \in faults' => <<"doubleFree", d>> \in faults
    BY <1>1
  <1> HIDE DEF g, n
  <1> QED
    BY <1>1, <1>2, <1>3, <1>4, <1>5, <1>6, <1>8, <1>9, <1>10, CleanupKeeps

LEMMA AbortsIInv == ASSUME IInv, NEW t \in Thread, CleanupAborts(t) PROVE IInv'
  <1>2. InCleanup(t)
    BY DEF CleanupAborts, InCleanup
  <1> PICK c \in Client : c = frame[t].cli
    BY <1>2, FrameFacts
  <1>1. frame[t].at = "abort" /\ abort' = TRUE /\ frame' = [frame EXCEPT ![t] = NoFrame]
        /\ UNCHANGED <<stage, pid, ranked, ns, main, progress, world>>
    BY DEF CleanupAborts, Break
  <1>3. c \in Client /\ FrameOK(t) /\ ClientOK(c) /\ stage[c] \in Stage
    BY <1>2, FrameFacts
  <1>4. NoFrame \in FrameRecord /\ NoFrame.at = "none" /\ frame'[t] = NoFrame
    BY <1>1, ClientStagesAssumption DEF NoFrame, FrameRecord, Client, IInv, TypeOK
  <1>5. stage' = [stage EXCEPT ![c] = stage[c]] /\ pid' = [pid EXCEPT ![c] = pid[c]]
        /\ ns' = [ns EXCEPT ![c] = ns[c]]
        /\ pid[c] \in {"none", "set"} /\ ns[c] \in {"NULL", "allocated", "freed"}
    BY <1>1, <1>3 DEF IInv, TypeOK
  <1>6. ended \cup overtook \cup killed # {}
    BY <1>1, <1>3 DEF FrameOK, Fine
  <1>7. ClientOK(c)'
    BY <1>1, <1>3 DEF ClientOK, Fine, Dead, world, history
  <1>8. FrameOK(t)'
    BY <1>4 DEF FrameOK
  <1> QED
    BY <1>1, <1>2, <1>3, <1>4, <1>5, <1>6, <1>7, <1>8, CleanupKeeps DEF world, history

LEMMA CleanupIInv == ASSUME IInv, NEW t \in Thread, CleanupStep(t) PROVE IInv'
  BY SwitchIInv, FinalizeIInv, TerminateIInv, TerminatedIInv, FreesIInv, AbortsIInv DEF CleanupStep

(* Either thread reaps: only a zombie is, so that nobody cleans up after   *)
(* it yet, unless it was killed.                                           *)
LEMMA ReapIInv ==
  ASSUME IInv, NEW t \in Thread, ~InCleanup(t), Reap(t),
         UNCHANGED <<info, main, progress, ended, killed, faults>>
  PROVE  IInv'
  <1> PICK c \in Zombies : /\ os' = [os EXCEPT ![c] = "reaped"]
                           /\ frame' = [frame EXCEPT ![t] = IF pid[c] = "set" THEN Cleanup(c) ELSE @]
                           /\ Overtake(c)
    BY DEF Reap
  <1> DEFINE g == IF pid[c] = "set" THEN Cleanup(c) ELSE frame[t]
  <1>1. c \in Client /\ os[c] = "zombie" /\ ClientOK(c)
    BY DEF Zombies, IInv
  <1>2. /\ frame' = [frame EXCEPT ![t] = g] /\ g \in FrameRecord
        /\ g.at # "none" => g = Cleanup(c) /\ g.at = "switch" /\ g.cli = c /\ ~g.nested
    BY <1>1 DEF IInv, TypeOK, FrameRecord, Cleanup, InCleanup
  <1>3. overtook \subseteq overtook' /\ overtook' \subseteq Client /\ (stage[c] = "UNINIT" => c \in overtook')
    BY <1>1 DEF Overtake, IInv, TypeOK
  <1>4. UNCHANGED <<stage, pid, ranked, ns, abort, pc, k, ret, fail, handler, up, sigchld, ended, killed, faults>>
    BY DEF info, main, progress
  <1>5. os'[c] = "reaped" /\ \A d \in Client : d # c => os'[d] = os[d]
    BY <1>1 DEF IInv, TypeOK
  <1>6. \A d : Fine(d)' => Fine(d)
    BY <1>3, <1>4 DEF Fine
  <1>7. frame'[t] = g /\ \A u \in Thread : u # t => frame'[u] = frame[u]
    BY <1>2 DEF IInv, TypeOK
  <1>8. TypeOK'
    <2>1. os' \in [Client -> {"unborn", "running", "finalizing", "finalized", "stuck", "zombie", "reaped"}]
      BY <1>1 DEF IInv, TypeOK
    <2>2. frame' \in [Thread -> FrameRecord]
      BY <1>2 DEF IInv, TypeOK, FrameRecord
    <2> QED
      BY <1>3, <1>4, <2>1, <2>2 DEF IInv, TypeOK, FrameRecord
  <1>9. LaunchInv'
    <2>1. \A d \in Client : (Alive(d)' => Alive(d)) /\ (os'[d] = "unborn") = (os[d] = "unborn")
      BY <1>1, <1>5 DEF Alive
    <2> QED
      BY <1>4, <1>6, <2>1 DEF IInv, TypeOK, LaunchInv, Recording
  <1>10. ClientOK(c)'
    BY <1>1, <1>3, <1>4, <1>5, <1>6 DEF ClientOK, Fine, Dead, IInv, TypeOK, Stage
  <1>11. ASSUME NEW d \in Client PROVE ClientOK(d)'
    <2>1. CASE d # c
      <3>1. ClientOK(d)
        BY DEF IInv
      <3> QED
        BY <1>4, <1>5, <1>6, <2>1, <3>1 DEF ClientOK, Dead
    <2> QED
      BY <1>10, <2>1
  <1>12. FrameOK(t)'
    <2>1. c \notin killed => ns[c] # "freed"
      BY <1>1 DEF ClientOK
    <2>2. Fine(c)' => stage[c] = "FIN" \/ stage[c] = "FORKED"
      BY <1>1, <1>3, <1>6 DEF ClientOK, Fine, IInv, TypeOK, Stage
    <2>3. frame'[t] = g
      BY <1>7
    <2> HIDE DEF g
    <2> QED
      BY <1>2, <1>4, <1>5, <2>1, <2>2, <2>3 DEF FrameOK, Dead
  <1>13. ASSUME NEW u \in Thread PROVE FrameOK(u)'
    <2>1. CASE u # t /\ frame[u].at # "none"
      <3>1. FrameOK(u) /\ frame'[u] = frame[u] /\ frame[u].cli \in Client
        BY <1>7, <2>1, FrameFacts DEF InCleanup
      <3>2. CASE frame[u].cli = c
        <4>1. c \in killed
          BY <1>1, <2>1, <3>1, <3>2 DEF FrameOK
        <4> QED
          BY <1>4, <1>5, <3>1, <3>2, <4>1 DEF FrameOK, Fine, Dead
      <3>3. CASE frame[u].cli # c
        BY <1>4, <1>5, <1>6, <3>1, <3>3 DEF FrameOK, Dead
      <3> QED
        BY <3>2, <3>3
    <2>2. CASE u # t /\ frame[u].at = "none"
      BY <1>7, <2>2 DEF FrameOK
    <2> QED
      BY <1>12, <2>1, <2>2
  <1>14. OneReaper'
    <2>1. \A u \in Thread : InCleanup(u) /\ frame[u].cli = c => c \in killed
      BY <1>1, FrameFacts DEF FrameOK, InCleanup
    <2> QED
      BY <1>2, <1>4, <1>7, <2>1 DEF IInv, OneReaper, InCleanup
  <1>15. CleanRun'
    BY <1>3, <1>4 DEF IInv, CleanRun
  <1> QED
    BY <1>8, <1>9, <1>11, <1>13, <1>14, <1>15 DEF IInv

(* The clients that are dead and the frames stay as they are.              *)
LEMMA FramesKept ==
  ASSUME IInv, frame' = frame, killed' = killed, ended \subseteq ended', overtook \subseteq overtook',
         \A c \in Client : Dead(c) => os'[c] = os[c] /\ ns'[c] = ns[c],
         \A c \in Client : Dead(c) /\ Fine(c) => stage'[c] = stage[c] \/ stage[c] = "UNINIT"
  PROVE  (\A t \in Thread : FrameOK(t)') /\ OneReaper'
  <1>1. OneReaper'
    BY DEF IInv, OneReaper, InCleanup
  <1>2. ASSUME NEW t \in Thread, frame[t].at # "none" PROVE FrameOK(t)'
    <2> PICK c \in Client : c = frame[t].cli
      BY <1>2, FrameFacts DEF InCleanup
    <2>1. Dead(c) /\ FrameOK(t) /\ (Fine(c) => stage[c] # "UNINIT")
      BY <1>2, FrameFacts DEF InCleanup
    <2>2. os'[c] = os[c] /\ ns'[c] = ns[c] /\ (Fine(c) => stage'[c] = stage[c])
      BY <2>1
    <2>3. Fine(c)' => Fine(c)
      BY DEF Fine
    <2>4. frame'[t] = frame[t] /\ (c \in ended => c \in ended')
      OBVIOUS
    <2> QED
      BY <1>2, <2>1, <2>2, <2>3, <2>4 DEF FrameOK, Dead
  <1>3. ASSUME NEW t \in Thread, frame[t].at = "none" PROVE FrameOK(t)'
    BY <1>3 DEF FrameOK
  <1> QED
    BY <1>1, <1>2, <1>3

-----------------------------------------------------------------------------
(* The launch loop.                                                        *)
LEMMA ForkIInv == IInv /\ Fork => IInv'
  <1> SUFFICES ASSUME IInv, Fork PROVE IInv'
    OBVIOUS
  <1>1. /\ pc = "fork" /\ pc' = "pid" /\ os' = [os EXCEPT ![k] = "running"]
        /\ UNCHANGED <<stage, pid, ranked, ns, abort, k, ret, fail, frame, handler, up, sigchld,
                       ended, overtook, killed, faults>>
    BY DEF Fork, MainAt, Goto, info, progress, history
  <1>2. k \in Client /\ os[k] = "unborn" /\ ClientOK(k) /\ stage[k] = "UNINIT"
    BY <1>1, ClientStagesAssumption DEF IInv, TypeOK, LaunchInv, Client, ClientOK
  <1>3. os'[k] = "running" /\ \A c \in Client : c # k => os'[c] = os[c]
    BY <1>1, <1>2 DEF IInv, TypeOK
  <1>4. TypeOK'
    BY <1>1, <1>2 DEF IInv, TypeOK
  <1>5. (\A t \in Thread : FrameOK(t)') /\ OneReaper'
    BY <1>1, <1>2, <1>3, FramesKept DEF Dead
  <1>6. LaunchInv'
    <2>1. \A c \in Client : k < c => os'[c] = "unborn"
      BY <1>1, <1>2, <1>3 DEF IInv, LaunchInv, Client
    <2>2. \A c \in Client : pid'[c] = "none" /\ Alive(c)' => c = k
      BY <1>1, <1>3 DEF IInv, LaunchInv, Alive
    <2>3. \A c \in ranked : ns[c] # "NULL"
      BY <1>1 DEF IInv, LaunchInv
    <2> QED
      BY <1>1, <1>2, <1>3, <2>1, <2>2, <2>3 DEF LaunchInv, Recording
  <1>7. ASSUME NEW c \in Client PROVE ClientOK(c)'
    <2>1. ClientOK(c)
      BY DEF IInv
    <2> QED
      BY <1>1, <1>2, <1>3, <2>1 DEF ClientOK, Fine, Dead
  <1> QED
    BY <1>1, <1>4, <1>5, <1>6, <1>7 DEF IInv, CleanRun

LEMMA RecordPidIInv == IInv /\ RecordPid => IInv'
  <1> SUFFICES ASSUME IInv, RecordPid PROVE IInv'
    OBVIOUS
  <1>1. /\ pc = "pid" /\ pc' = "rank" /\ pid' = [pid EXCEPT ![k] = "set"]
        /\ UNCHANGED <<stage, ranked, ns, abort, k, ret, fail, frame, handler, up, sigchld,
                       os, ended, overtook, killed, faults>>
    BY DEF RecordPid, MainAt, Goto, progress, world, history
  <1>2. k \in Client
    BY DEF IInv, TypeOK
  <1>3. \A c \in Client : pid'[c] = IF c = k THEN "set" ELSE pid[c]
    BY <1>1 DEF IInv, TypeOK
  <1>4. TypeOK'
    BY <1>1, <1>2 DEF IInv, TypeOK
  <1>5. (\A t \in Thread : FrameOK(t)') /\ OneReaper'
    BY <1>1, FramesKept
  <1>6. LaunchInv'
    BY <1>1, <1>2, <1>3 DEF IInv, LaunchInv, Recording, Alive, Fine
  <1>7. \A c \in Client : ClientOK(c)'
    BY <1>1 DEF IInv, ClientOK, Fine, Dead
  <1> QED
    BY <1>1, <1>4, <1>5, <1>6, <1>7 DEF IInv, CleanRun

LEMMA RecordRankIInv == IInv /\ RecordRank => IInv'
  <1> SUFFICES ASSUME IInv, RecordRank PROVE IInv'
    OBVIOUS
  <1>1. /\ pc = "rank" /\ pc' = "name" /\ ranked' = ranked \cup {k}
        /\ UNCHANGED <<stage, pid, ns, abort, k, ret, fail, frame, handler, up, sigchld,
                       os, ended, overtook, killed, faults>>
    BY DEF RecordRank, MainAt, Goto, progress, world, history
  <1>2. k \in Client
    BY DEF IInv, TypeOK
  <1>3. TypeOK'
    BY <1>1, <1>2 DEF IInv, TypeOK
  <1>4. (\A t \in Thread : FrameOK(t)') /\ OneReaper'
    BY <1>1, FramesKept
  <1>5. LaunchInv'
    BY <1>1, <1>2 DEF IInv, LaunchInv, Recording, Alive, Fine
  <1>6. \A c \in Client : ClientOK(c)'
    BY <1>1 DEF IInv, ClientOK, Fine, Dead
  <1> QED
    BY <1>1, <1>3, <1>4, <1>5, <1>6 DEF IInv, CleanRun

(* The client that is being launched may have been reaped already, but its *)
(* name has not been freed: there was none.                                *)
LEMMA RecordNameIInv == IInv /\ RecordName => IInv'
  <1> SUFFICES ASSUME IInv, RecordName PROVE IInv'
    OBVIOUS
  <1>1. /\ pc = "name" /\ pc' = "stage" /\ ns' = [ns EXCEPT ![k] = "allocated"]
        /\ UNCHANGED <<stage, pid, ranked, abort, k, ret, fail, frame, handler, up, sigchld,
                       os, ended, overtook, killed, faults>>
    BY DEF RecordName, MainAt, Goto, progress, world, history
  <1>2. k \in Client
    BY DEF IInv, TypeOK
  <1>3. \A c \in Client : ns'[c] = IF c = k THEN "allocated" ELSE ns[c]
    BY <1>1 DEF IInv, TypeOK
  <1>4. TypeOK'
    BY <1>1, <1>2 DEF IInv, TypeOK
  <1>5. ASSUME NEW t \in Thread PROVE FrameOK(t)'
    <2>1. CASE frame[t].at # "none"
      <3>1. FrameOK(t) /\ frame[t].cli \in Client
        BY <2>1, FrameFacts DEF InCleanup
      <3>2. ns'[frame[t].cli] = "freed" => ns[frame[t].cli] = "freed"
        BY <1>3, <3>1
      <3> QED
        BY <1>1, <3>1, <3>2 DEF FrameOK, Fine, Dead
    <2>2. CASE frame[t].at = "none"
      BY <1>1, <2>2 DEF FrameOK
    <2> QED
      BY <2>1, <2>2
  <1>6. OneReaper'
    BY <1>1 DEF IInv, OneReaper, InCleanup
  <1>7. LaunchInv'
    <2>1. \A c \in ranked' : ns'[c] # "NULL"
      BY <1>1, <1>3 DEF IInv, LaunchInv, TypeOK
    <2> QED
      BY <1>1, <1>2, <2>1 DEF IInv, LaunchInv, Recording, Alive, Fine
  <1>8. ASSUME NEW c \in Client PROVE ClientOK(c)'
    <2>1. ClientOK(c)
      BY DEF IInv
    <2> QED
      BY <1>1, <1>3, <2>1 DEF ClientOK, Fine, Dead
  <1> QED
    BY <1>1, <1>4, <1>5, <1>6, <1>7, <1>8 DEF IInv, CleanRun

LEMMA RecordForkedIInv == IInv /\ RecordForked => IInv'
  <1> SUFFICES ASSUME IInv, RecordForked PROVE IInv'
    OBVIOUS
  <1>1. /\ pc = "stage" /\ stage' = [stage EXCEPT ![k] = "FORKED"]
        /\ IF k = Clients THEN pc' = "launched" /\ k' = 1 ELSE pc' = "fork" /\ k' = k + 1
        /\ UNCHANGED <<pid, ranked, ns, abort, ret, fail, frame, handler, up, sigchld,
                       os, ended, overtook, killed, faults>>
    BY DEF RecordForked, MainAt, LastClient, progress, world, history
  <1>2. k \in Client /\ ClientOK(k) /\ os[k] # "unborn" /\ (Fine(k) => stage[k] = "UNINIT")
    BY <1>1 DEF IInv, TypeOK, LaunchInv, Recording
  <1>3. \A c \in Client : stage'[c] = IF c = k THEN "FORKED" ELSE stage[c]
    BY <1>1 DEF IInv, TypeOK
  <1>4. k' \in Client
    BY <1>1, <1>2, ClientStagesAssumption DEF Client
  <1>5. TypeOK'
    BY <1>1, <1>2, <1>4 DEF IInv, TypeOK, Stage
  <1>6. (\A t \in Thread : FrameOK(t)') /\ OneReaper'
    BY <1>1, <1>2, <1>3, FramesKept
  <1>7. LaunchInv'
    <2>1. /\ \A c \in Client : pid[c] = "none" => ~Alive(c)
          /\ \A c \in ranked : ns[c] # "NULL"
          /\ \A c \in Client : k < c => os[c] = "unborn"
      BY <1>1 DEF IInv, LaunchInv, Recording
    <2>2. pc' = "fork" => \A c \in Client : k' <= c => os[c] = "unborn"
      BY <1>1, <1>2, <2>1, ClientStagesAssumption DEF Client
    <2>3. pc' \in {"fork", "launched"}
      BY <1>1
    <2> QED
      BY <1>1, <2>1, <2>2, <2>3 DEF LaunchInv, Recording, Alive
  <1>8. ASSUME NEW c \in Client PROVE ClientOK(c)'
    <2>1. ClientOK(c)
      BY DEF IInv
    <2> QED
      BY <1>1, <1>2, <1>3, <2>1 DEF ClientOK, Fine, Dead
  <1> QED
    BY <1>1, <1>5, <1>6, <1>7, <1>8 DEF IInv, CleanRun

-----------------------------------------------------------------------------
(* The rest of main(), which changes neither clients nor frames, but that  *)
(* the frames are gone when it returns.                                    *)
LEMMA OtherIInv ==
  ASSUME IInv, UNCHANGED <<info, world>>, frame' = frame \/ frame' = [t \in Thread |-> NoFrame],
         (pc' = pc /\ k' = k) \/
           (/\ ~Recording /\ pc # "crashed"
            /\ pc' \in {"launched", "mismatch", "loop", "poll", "kill", "killPid", "verdict",
                        "lastWait", "done", "returned"}
            /\ k' \in Client
            /\ pc' = "killPid" => stage[k'] # "UNINIT"),
         ret' \in {"none", "mismatch", "loop", "verdict"},
         pc' \in {"kill", "killPid"} => ret' # "none",
         fail' \in BOOLEAN, handler' \in BOOLEAN, up' \in BOOLEAN, sigchld' \in BOOLEAN
  PROVE  IInv'
  <1> USE DEF info, world, history
  <1>1. NoFrame \in FrameRecord /\ NoFrame.at = "none"
    BY ClientStagesAssumption DEF NoFrame, FrameRecord, Client
  <1>2. TypeOK'
    BY <1>1 DEF IInv, TypeOK, FrameRecord
  <1>3. (\A t \in Thread : FrameOK(t)') /\ OneReaper'
    <2>1. CASE frame' = frame
      BY <2>1, FramesKept
    <2>2. CASE frame' = [t \in Thread |-> NoFrame]
      BY <1>1, <2>2 DEF FrameOK, OneReaper, InCleanup
    <2> QED
      BY <2>1, <2>2
  <1>4. \A c \in Client : ClientOK(c)'
    BY DEF IInv, ClientOK, Fine, Dead
  <1>5. LaunchInv'
    <2>1. CASE pc' = pc /\ k' = k
      BY <2>1 DEF IInv, LaunchInv, Recording, Alive, Fine
    <2>2. CASE ~(pc' = pc /\ k' = k)
      <3>1. pc' = "killPid" => os[k'] # "unborn"
        BY <2>2 DEF IInv, ClientOK
      <3>2. (\A c \in ranked : ns[c] # "NULL") /\ (\A c \in Client : pid[c] = "none" => ~Alive(c))
        BY <2>2 DEF IInv, LaunchInv, Recording
      <3>3. pc' \notin {"fork", "pid", "rank", "name", "stage"}
        BY <2>2
      <3>4. (\A c \in ranked' : ns'[c] # "NULL") /\ (\A c \in Client : pid'[c] = "none" => ~Alive(c)')
        BY <3>2 DEF Alive
      <3> QED
        BY <2>2, <3>1, <3>3, <3>4 DEF LaunchInv, Recording
    <2> QED
      BY <2>1, <2>2
  <1> QED
    BY <1>2, <1>3, <1>4, <1>5 DEF IInv, CleanRun

(* cli_kill_all: where the pid is gone the process is dead; where it is    *)
(* not, the signal ends it.                                                *)
LEMMA KillSendsIInv == IInv /\ KillSends => IInv'
  <1> SUFFICES ASSUME IInv, KillSends PROVE IInv'
    OBVIOUS
  <1> PICK c \in Client : c = k
    BY DEF IInv, TypeOK
  <1> DEFINE o == IF pid[c] = "set" /\ Alive(c) THEN "zombie" ELSE os[c]
  <1>1. /\ pc = "killPid" /\ pc' \in {ret, "kill"} /\ ~InCleanup("main")
        /\ frame' = [frame EXCEPT !["main"] = Cleanup(c)]
        /\ killed' = killed \cup {c}
        /\ UNCHANGED <<stage, pid, ranked, ns, abort, ret, fail, handler, up, ended, overtook>>
    BY DEF KillSends, MainAt, KillNext, info
  <1>2. k' \in Client
    BY ClientStagesAssumption DEF KillSends, KillNext, LastClient, Client, IInv, TypeOK
  <1>3. os' = [os EXCEPT ![c] = o] /\ sigchld' \in BOOLEAN
    BY DEF KillSends, Killed, Alive, IInv, TypeOK
  <1>4. \A d \in Client : <<"doubleFree", d>> \in faults' => <<"doubleFree", d>> \in faults
    BY DEF KillSends
  <1>5. ret \in {"mismatch", "loop", "verdict"} /\ os[c] # "unborn"
        /\ (\A d \in Client : pid[d] = "none" => ~Alive(d)) /\ (\A d \in ranked : ns[d] # "NULL")
    BY <1>1 DEF IInv, LaunchInv, TypeOK
  <1>6. o \in {"finalizing", "zombie", "reaped"} /\ o \in {"zombie", "reaped"}
    BY <1>5 DEF Alive, IInv, TypeOK
  <1>7. os'[c] = o /\ \A d \in Client : d # c => os'[d] = os[d]
    BY <1>3 DEF IInv, TypeOK
  <1> HIDE DEF o
  <1>8. Dead(c)' /\ \A d \in Client : (Dead(d) => Dead(d)') /\ (Alive(d)' => Alive(d))
    BY <1>6, <1>7 DEF Dead, Alive
  <1>9. \A d \in Client : d # c => Fine(d)' = Fine(d) /\ (d \in killed' <=> d \in killed)
    BY <1>1 DEF Fine
  <1>10. ~Fine(c)' /\ c \in killed'
    BY <1>1 DEF Fine
  <1>11. Cleanup(c) \in FrameRecord /\ Cleanup(c).cli = c
    BY DEF Cleanup, FrameRecord
  <1>12. frame'["main"] = Cleanup(c) /\ frame' \in [Thread -> FrameRecord]
         /\ \A u \in Thread : u # "main" => frame'[u] = frame[u]
    BY <1>1, <1>11 DEF IInv, TypeOK, FrameRecord, Thread
  <1>13. TypeOK'
    <2>1. os' \in [Client -> {"unborn", "running", "finalizing", "finalized", "stuck", "zombie", "reaped"}]
      BY <1>3, <1>6 DEF IInv, TypeOK
    <2>2. killed' \subseteq Client
      BY <1>1 DEF IInv, TypeOK
    <2>3. pc' \in {"fork", "pid", "rank", "name", "stage", "launched", "mismatch", "loop", "poll",
             "kill", "killPid", "verdict", "lastWait", "done", "returned", "crashed"}
      BY <1>1, <1>5
    <2> QED
      BY <1>1, <1>2, <1>3, <1>12, <2>1, <2>2, <2>3 DEF IInv, TypeOK, FrameRecord
  <1>14. LaunchInv'
    <2>1. pc' \in {"mismatch", "loop", "verdict", "kill"}
      BY <1>1, <1>5
    <2>2. \A d \in Client : pid'[d] = "none" => ~Alive(d)'
      BY <1>1, <1>5, <1>8
    <2> QED
      BY <1>1, <1>5, <2>1, <2>2 DEF LaunchInv, Recording
  <1>15. ASSUME NEW d \in Client PROVE ClientOK(d)'
    <2>1. ClientOK(d)
      BY DEF IInv
    <2>2. CASE d = c
      BY <1>1, <1>6, <1>7, <1>8, <1>10, <2>1, <2>2 DEF ClientOK
    <2>3. CASE d # c
      BY <1>1, <1>4, <1>7, <1>9, <2>1, <2>3 DEF ClientOK, Dead
    <2> QED
      BY <2>2, <2>3
  <1>16. ASSUME NEW u \in Thread PROVE FrameOK(u)'
    <2> PICK d : d = frame'[u].cli
      OBVIOUS
    <2>1. CASE d = c
      BY <1>8, <1>10, <2>1 DEF FrameOK
    <2>2. CASE frame'[u].at = "none"
      BY <2>2 DEF FrameOK
    <2>3. CASE d # c /\ frame'[u].at # "none"
      <3>1. frame'[u] = frame[u] /\ FrameOK(u) /\ d \in Client
        BY <1>11, <1>12, <2>3, FrameFacts DEF InCleanup
      <3> QED
        BY <1>1, <1>7, <1>9, <2>3, <3>1 DEF FrameOK, Dead
    <2> QED
      BY <2>1, <2>2, <2>3
  <1>17. OneReaper'
    <2> SUFFICES ASSUME NEW t \in Thread, NEW u \in Thread, InCleanup(t)', InCleanup(u)', t # u,
                        frame'[t].cli = frame'[u].cli
                 PROVE  frame'[t].cli \in killed'
      BY DEF OneReaper
    <2>1. CASE t = "main" \/ u = "main"
      BY <1>10, <1>11, <1>12, <2>1
    <2>2. CASE t # "main" /\ u # "main"
      BY <1>1, <1>12, <2>2 DEF IInv, OneReaper, InCleanup
    <2> QED
      BY <2>1, <2>2
  <1>18. CleanRun'
    BY <1>1 DEF IInv, CleanRun
  <1> QED
    BY <1>13, <1>14, <1>15, <1>16, <1>17, <1>18 DEF IInv

LEMMA MainIInv == IInv /\ MainStep => IInv'
  <1> SUFFICES ASSUME IInv, MainStep PROVE IInv'
    OBVIOUS
  <1>1. k \in Client /\ 1 \in Client /\ (k # Clients => k + 1 \in Client)
    BY ClientStagesAssumption DEF IInv, TypeOK, Client
  <1>2. /\ ret \in {"none", "mismatch", "loop", "verdict"}
        /\ {fail, abort, handler, up, sigchld} \subseteq BOOLEAN
        /\ stage \in [Client -> Stage]
    BY DEF IInv, TypeOK
  <1>3. pc \in {"kill", "killPid"} => ret # "none"
    BY DEF IInv, LaunchInv
  <1>4. CASE Fork \/ RecordPid \/ RecordRank \/ RecordName \/ RecordForked
    BY <1>4, ForkIInv, RecordPidIInv, RecordRankIInv, RecordNameIInv, RecordForkedIInv
  <1>5. CASE Launched \/ DistTooSmall \/ LaunchMismatch
    BY <1>1, <1>2, <1>5, OtherIInv
       DEF Launched, DistTooSmall, LaunchMismatch, MainAt, Goto, Recording, progress
  <1>6. CASE LaunchFails
    BY <1>1, <1>2, <1>6, OtherIInv DEF LaunchFails, MainAt, Recording
  <1>7. CASE DistTooLarge
    BY <1>1, <1>2, <1>7, OtherIInv DEF DistTooLarge, NewNamespace, Goto, Recording
  <1>8. CASE Loop \/ TimesOut
    BY <1>1, <1>2, <1>8, OtherIInv DEF Loop, TimesOut, MainAt, Goto, Recording, progress
  <1>9. CASE PollEnds \/ LastWaitEnds
    BY <1>1, <1>2, <1>9, OtherIInv DEF PollEnds, LastWaitEnds, MainAt, Goto, Recording, progress
  <1>10. CASE Verdict
    BY <1>1, <1>2, <1>10, OtherIInv DEF Verdict, MainAt, Recording, progress
  <1>11. CASE KillSkips
    <2>1. pc' \in {ret, "kill"} /\ k' \in Client /\ pc = "kill"
      BY <1>1, <1>11 DEF KillSkips, KillNext, LastClient, MainAt
    <2> QED
      BY <1>2, <1>3, <1>11, <2>1, OtherIInv DEF KillSkips, Recording, progress
  <1>12. CASE KillChooses
    <2>1. stage[k] # "UNINIT"
      BY <1>12 DEF KillChooses
    <2> QED
      BY <1>1, <1>2, <1>3, <1>12, <2>1, OtherIInv DEF KillChooses, MainAt, Goto, Recording, progress
  <1>13. CASE KillSends
    BY <1>13, KillSendsIInv
  <1>14. CASE PollReaps \/ LastWaitReaps
    BY <1>14, ReapIInv DEF PollReaps, LastWaitReaps, MainAt, Thread
  <1>15. CASE CleanupStep("main")
    BY <1>15, CleanupIInv DEF Thread
  <1> QED
    BY <1>4, <1>5, <1>6, <1>7, <1>8, <1>9, <1>10, <1>11, <1>12, <1>13, <1>14, <1>15 DEF MainStep

-----------------------------------------------------------------------------
(* The clients and the upcalls: a step of one client that is alive.  The   *)
(* server crashes only while a name is being recorded.                     *)
LEMMA AliveIInv ==
  ASSUME IInv, NEW c \in Client, Alive(c),
         UNCHANGED <<pid, ranked, ns, k, ret, fail, frame, handler, killed>>,
         NEW s \in Stage, stage' = [stage EXCEPT ![c] = s],
         NEW o \in {"running", "finalizing", "finalized", "stuck", "zombie"}, os' = [os EXCEPT ![c] = o],
         pc' = pc \/ (pc' = "crashed" /\ pc # "pid"),
         {abort, up, sigchld}' \subseteq BOOLEAN,
         abort' => abort \/ ended' \cup overtook' \cup killed # {},
         ended \subseteq ended', ended' \subseteq Client,
         overtook \subseteq overtook', overtook' \subseteq Client,
         c \notin overtook' /\ stage[c] = "UNINIT" => s = "UNINIT",
         \A d \in Client : <<"doubleFree", d>> \in faults' => <<"doubleFree", d>> \in faults,
         ClientOK(c)'
  PROVE  IInv'
  <1>1. os'[c] = o /\ stage'[c] = s /\ \A d \in Client : d # c => os'[d] = os[d] /\ stage'[d] = stage[d]
    BY DEF IInv, TypeOK
  <1>2. \A d : Fine(d)' => Fine(d)
    BY DEF Fine
  <1>3. \A d \in Client : /\ Alive(d)' => Alive(d)
                          /\ Dead(d) => d # c
                          /\ os'[d] = "unborn" <=> os[d] = "unborn"
    BY <1>1 DEF Alive, Dead
  <1>4. TypeOK'
    <2>1. stage' \in [Client -> Stage]
      BY DEF IInv, TypeOK
    <2>2. os' \in [Client -> {"unborn", "running", "finalizing", "finalized", "stuck", "zombie", "reaped"}]
      BY DEF IInv, TypeOK
    <2> QED
      BY <2>1, <2>2 DEF IInv, TypeOK
  <1>5. (\A t \in Thread : FrameOK(t)') /\ OneReaper'
    BY <1>1, <1>3, FramesKept
  <1>6. LaunchInv'
    <2>1. LaunchInv /\ k \in Client
      BY DEF IInv, TypeOK
    <2>2. CASE pc' = pc
      <3>1. Recording' /\ Fine(k)' => stage'[k] = "UNINIT"
        BY <1>1, <1>2, <2>1, <2>2 DEF LaunchInv, Recording, Fine
      <3> QED
        BY <1>3, <2>1, <2>2, <3>1 DEF LaunchInv, Recording
    <2>3. CASE pc' = "crashed" /\ pc # "pid"
      BY <1>3, <2>1, <2>3 DEF LaunchInv, Recording
    <2> QED
      BY <2>2, <2>3
  <1>7. ASSUME NEW d \in Client PROVE ClientOK(d)'
    <2>1. CASE d # c
      <3>1. ClientOK(d)
        BY DEF IInv
      <3> QED
        BY <1>1, <1>2, <2>1, <3>1 DEF ClientOK, Dead
    <2> QED
      BY <2>1
  <1>8. CleanRun'
    BY DEF IInv, CleanRun
  <1> QED
    BY <1>4, <1>5, <1>6, <1>7, <1>8 DEF IInv

LEMMA FinalizedIInv == ASSUME IInv, NEW c \in Client, Finalized(c) PROVE IInv'
  <1>1. /\ os[c] = "finalizing" /\ Alive(c) /\ ClientOK(c) /\ stage[c] \in Stage /\ abort \in BOOLEAN
        /\ {up, sigchld} \subseteq BOOLEAN /\ ended \subseteq Client /\ killed \subseteq Client
    BY DEF Finalized, Alive, IInv, TypeOK
  <1>2. overtook \subseteq overtook' /\ overtook' \subseteq Client
        /\ (stage[c] = "UNINIT" => c \in overtook')
    BY DEF Finalized, Overtake, IInv, TypeOK
  <1>3. UNCHANGED <<pid, ranked, ns, k, ret, fail, frame, handler, sigchld, ended, killed>>
    BY DEF Finalized
  <1>4. \A d : Fine(d)' => Fine(d)
    BY <1>2, <1>3 DEF Fine
  <1>5. Fine(c)' => stage[c] = "FORKED"
    BY <1>1, <1>2, <1>4 DEF ClientOK, Fine, Dead, Stage
  <1>6. stage[c] # "TERM" /\ (c \notin killed => <<"doubleFree", c>> \notin faults /\ ns[c] # "freed")
    BY <1>1 DEF ClientOK, Dead
  <1>7. CASE Crash(c)
    <2>1. PICK d \in Client : d \in ranked /\ ns[d] = "NULL"
      BY <1>7 DEF Crash, Compared, IInv, TypeOK
    <2>2. pc # "pid" /\ pc' = "crashed" /\ up' = FALSE /\ UNCHANGED <<stage, abort, os, faults>>
      BY <1>7, <2>1 DEF Crash, IInv, LaunchInv
    <2>3. stage' = [stage EXCEPT ![c] = stage[c]] /\ os' = [os EXCEPT ![c] = "finalizing"]
      BY <1>1, <2>2 DEF IInv, TypeOK
    <2>4. ClientOK(c)'
      BY <1>1, <1>3, <1>5, <1>6, <2>2 DEF ClientOK
    <2> QED
      BY <1>1, <1>2, <1>3, <2>2, <2>3, <2>4, AliveIInv
  <1>8. CASE /\ Answer(c) \/ NoAnswer(c)
             /\ faults' = faults \cup (IF ReadsFreed(c) THEN {<<"freedName", c>>} ELSE {})
             /\ UNCHANGED <<pc, up>>
    <2>1. \A d \in Client : <<"doubleFree", d>> \in faults' => <<"doubleFree", d>> \in faults
      BY <1>8
    <2>2. CASE Answer(c)
      <3>1. stage' = [stage EXCEPT ![c] = "FIN"] /\ os' = [os EXCEPT ![c] = "finalized"] /\ "FIN" \in Stage
            /\ abort' = (abort \/ NextState[stage[c]] # "FIN")
        BY <2>2 DEF Answer, SetFin, Stage
      <3>2. NextState["FORKED"] = "FIN"
        BY DEF NextState, Stage
      <3>3. abort' \in BOOLEAN /\ (abort' => abort \/ ended' \cup overtook' \cup killed # {})
        BY <1>1, <1>3, <1>5, <3>1, <3>2 DEF Fine
      <3>4. stage'[c] = "FIN" /\ os'[c] = "finalized"
        BY <3>1 DEF IInv, TypeOK
      <3>5. ClientOK(c)'
        BY <1>3, <1>6, <2>1, <3>4 DEF ClientOK
      <3> QED
        BY <1>1, <1>2, <1>3, <1>8, <2>1, <3>1, <3>3, <3>5, AliveIInv
    <2>3. CASE NoAnswer(c)
      <3>1. stage' = stage /\ abort' = abort /\ os' = [os EXCEPT ![c] = "stuck"]
        BY <2>3 DEF NoAnswer
      <3>2. stage' = [stage EXCEPT ![c] = stage[c]] /\ os'[c] = "stuck"
        BY <3>1 DEF IInv, TypeOK
      <3>3. ClientOK(c)'
        BY <1>3, <1>5, <1>6, <2>1, <3>1, <3>2 DEF ClientOK
      <3> QED
        BY <1>1, <1>2, <1>3, <1>8, <2>1, <3>1, <3>2, <3>3, AliveIInv
    <2> QED
      BY <1>8, <2>2, <2>3
  <1> QED
    BY <1>7, <1>8 DEF Finalized

LEMMA ClientIInv == ASSUME IInv, NEW c \in Client, Aborts(c) \/ ClientStep(c) PROVE IInv'
  <1> DEFINE o == os'[c]
  <1>1. ClientOK(c) /\ os[c] \in {"running", "finalized"} /\ stage[c] \in Stage
    BY DEF Aborts, ClientStep, CallsFinalize, Exits, IInv, TypeOK
  <1>2. /\ UNCHANGED <<stage, pid, ranked, ns, pc, k, ret, fail, frame, handler, up, overtook, killed, faults>>
        /\ ended' \in {ended, ended \cup {c}}
    BY DEF Aborts, ClientStep, CallsFinalize, Exits, info, main, progress, history
  <1>3. /\ o \in {"running", "finalizing", "zombie"} /\ os' = [os EXCEPT ![c] = o]
        /\ o = "running" => os[c] = "running"
        /\ o = "finalizing" => os[c] = "running"
        /\ o = "zombie" => os[c] = "finalized" \/ c \in ended'
    BY <1>1 DEF Aborts, ClientStep, CallsFinalize, Exits, history, IInv, TypeOK
  <1>4. {abort, up, sigchld}' \subseteq BOOLEAN /\ (abort' => abort \/ c \in ended')
    <2>1. {abort, up, sigchld} \subseteq BOOLEAN
      BY DEF IInv, TypeOK
    <2>2. CASE Aborts(c)
      BY <2>1, <2>2 DEF Aborts, progress
    <2>3. CASE CallsFinalize(c)
      BY <2>1, <2>3 DEF CallsFinalize, info, progress
    <2>4. CASE Exits(c)
      BY <2>1, <2>4 DEF Exits, info
    <2> QED
      BY <2>2, <2>3, <2>4 DEF ClientStep
  <1>5. stage' = [stage EXCEPT ![c] = stage[c]] /\ ended' \subseteq Client /\ overtook \subseteq Client
    BY <1>2 DEF IInv, TypeOK
  <1>6. ClientOK(c)'
    BY <1>1, <1>2, <1>3 DEF ClientOK, Fine, Dead
  <1> QED
    BY <1>1, <1>2, <1>3, <1>4, <1>5, <1>6, AliveIInv DEF Alive

LEMMA ProgressIInv == IInv /\ ProgressStep => IInv'
  <1> SUFFICES ASSUME IInv, ProgressStep PROVE IInv'
    OBVIOUS
  <1>1. CASE HandlerStarts \/ HandlerEnds
    <2>1. /\ ret \in {"none", "mismatch", "loop", "verdict"} /\ {fail, up, sigchld} \subseteq BOOLEAN
          /\ pc \in {"kill", "killPid"} => ret # "none"
      BY DEF IInv, TypeOK, LaunchInv
    <2> QED
      BY <1>1, <2>1, OtherIInv DEF HandlerStarts, HandlerEnds, main
  <1>2. CASE HandlerReaps
    BY <1>2, ReapIInv DEF HandlerReaps, Thread
  <1>3. CASE CleanupStep("progress")
    BY <1>3, CleanupIInv DEF Thread
  <1>4. CASE \E c \in Client : Finalized(c)
    BY <1>4, FinalizedIInv
  <1> QED
    BY <1>1, <1>2, <1>3, <1>4 DEF ProgressStep

LEMMA StepIInv == IInv /\ [Next]_vars => IInv'
  <1> SUFFICES ASSUME IInv, [Next]_vars PROVE IInv'
    OBVIOUS
  <1>1. CASE MainStep
    BY <1>1, MainIInv
  <1>2. CASE ProgressStep
    BY <1>2, ProgressIInv
  <1>3. CASE \E c \in Client : Aborts(c) \/ ClientStep(c)
    BY <1>3, ClientIInv
  <1>4. CASE UNCHANGED vars
    BY <1>4 DEF vars, info, main, progress, world, history, IInv, TypeOK, LaunchInv, Recording, ClientOK,
       FrameOK, Fine, Dead, Alive, OneReaper, InCleanup, CleanRun
  <1> QED
    BY <1>1, <1>2, <1>3, <1>4 DEF Next, Done

LEMMA Inductive == Spec => []IInv
  BY InitIInv, StepIInv, PTL DEF Spec

-----------------------------------------------------------------------------
(* No run is aborted (test_abort) unless a client has ended or aborted     *)
(* without PMIx_Finalize, has been heard of before the launch loop stored  *)
(* CLI_FORKED, or has been killed by cli_kill_all: that main thread and    *)
(* SIGCHLD handler both reap and clean up is never the reason.             *)
THEOREM NoFalseAbort == Spec => []CleanRun
  <1>1. IInv => CleanRun
    BY DEF IInv
  <1> QED
    BY <1>1, Inductive, PTL

(* A client counts as terminated (CLI_TERM) only when its process is dead, *)
(* also one that cli_kill_all has cleaned up without having reaped it.     *)
THEOREM TerminatedIsDead == Spec => []TermMeansDead
  <1>1. IInv => TermMeansDead
    BY DEF IInv, ClientOK, TermMeansDead, Dead, Alive
  <1> QED
    BY <1>1, Inductive, PTL

(* cli_cleanup() by the two threads never frees the name of a client a     *)
(* second time, whatever the namespaces and the order of ends and launches;*)
(* only cli_kill_all cleans up without having reaped.                      *)
THEOREM NamesFreedOnce == Spec => []FreedOnce
  <1>1. IInv => FreedOnce
    BY DEF IInv, ClientOK, FreedOnce
  <1> QED
    BY <1>1, Inductive, PTL

(* A client that the server has neither heard of too soon nor killed goes  *)
(* through UNINIT, FORKED, FIN, TERM one after the other.                  *)
THEOREM StagesInOrder == Spec => StageOrder
  <1> DEFINE Steps == \A c \in Client \ (overtook \cup killed)' :
                        stage'[c] # stage[c] => <<stage[c], stage'[c]>> \in Order
  <1>1. IInv /\ [Next]_vars => [Steps]_vars
    <2> SUFFICES ASSUME IInv, Next, NEW c \in Client, c \notin (overtook \cup killed)', stage'[c] # stage[c]
                 PROVE  <<stage[c], stage'[c]>> \in Order
      OBVIOUS
    <2>1. stage \in [Client -> Stage] /\ k \in Client
      BY DEF IInv, TypeOK
    <2>2. ASSUME NEW t \in Thread, CleanupStep(t) PROVE <<stage[c], stage'[c]>> \in Order
      <3>1. InCleanup(t)
        BY <2>2 DEF CleanupStep, CleanupSwitch, CleanupFinalize, CleanupTerminate, CleanupTerminated,
           CleanupFrees, CleanupAborts, InCleanup
      <3>2. UNCHANGED <<overtook, killed>>
        BY <2>2 DEF CleanupStep, CleanupSwitch, CleanupFinalize, CleanupTerminate, CleanupTerminated,
           CleanupFrees, CleanupAborts, world, history
      <3>3. Fine(c) /\ FrameOK(t)
        BY <3>1, <3>2, FrameFacts DEF Fine
      <3>4. CASE CleanupFinalize(t)
        BY <2>1, <3>3, <3>4 DEF CleanupFinalize, SetFin, FrameOK, Order
      <3>5. CASE CleanupTerminated(t)
        BY <2>1, <3>3, <3>5 DEF CleanupTerminated, FrameOK, Order
      <3> QED
        BY <2>2, <3>4, <3>5 DEF CleanupStep, CleanupSwitch, CleanupTerminate, CleanupFrees, CleanupAborts
    <2>3. CASE RecordForked
      <3>1. c = k /\ Fine(c)
        BY <2>1, <2>3 DEF RecordForked, world, history, Fine
      <3> QED
        BY <2>1, <2>3, <3>1 DEF RecordForked, MainAt, IInv, LaunchInv, Recording, Order
    <2>4. ASSUME NEW d \in Client, Finalized(d) PROVE <<stage[c], stage'[c]>> \in Order
      <3>1. Answer(d) /\ d = c
        BY <2>1, <2>4 DEF Finalized, Crash, NoAnswer, Answer, SetFin
      <3>2. Fine(c) /\ stage[c] # "UNINIT" /\ os[c] = "finalizing" /\ ClientOK(c)
        BY <2>4, <3>1 DEF Finalized, Overtake, Fine, IInv
      <3> QED
        BY <2>1, <3>1, <3>2 DEF Answer, SetFin, ClientOK, Dead, Stage, Order
    <2>5. MainStep => RecordForked \/ CleanupStep("main")
      BY DEF MainStep, Fork, RecordPid, RecordRank, RecordName, Launched, LaunchFails, DistTooLarge, DistTooSmall,
         LaunchMismatch, Loop, TimesOut, PollReaps, PollEnds, KillSkips, KillChooses, KillSends, Verdict,
         LastWaitReaps, LastWaitEnds, info
    <2>6. ProgressStep => CleanupStep("progress") \/ \E d \in Client : Finalized(d)
      BY DEF ProgressStep, HandlerStarts, HandlerReaps, HandlerEnds, info
    <2>7. ~\E d \in Client : Aborts(d) \/ ClientStep(d)
      BY DEF Aborts, ClientStep, CallsFinalize, Exits, info
    <2> QED
      BY <2>2, <2>3, <2>4, <2>5, <2>6, <2>7 DEF Next, Done, vars, info, Thread
  <1> QED
    BY <1>1, Inductive, PTL DEF Spec, StageOrder
=============================================================================
