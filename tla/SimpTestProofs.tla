--------------------------- MODULE SimpTestProofs ---------------------------
(***************************************************************************)
(* What simptest.c counts and reports, for every number of clients, every  *)
(* exit status, and clients as quick as they like.  LInv is about the      *)
(* library and the launch, CInv about the count, EInv about the statuses.  *)
(***************************************************************************)
EXTENDS SimpTest, FiniteSetTheorems, TLAPS

(* The library calls back for the client that main() waits for.            *)
LInv ==
  /\ asked = active
  /\ "client" \in active => pc = "client"
  /\ pc = "client" /\ "client" \notin active => n \in registered
  /\ RegisteredFirst

(* The loop of main() forks each client once, the handler handles a client *)
(* once, and main() gets to its report before the first of them or after   *)
(* the last.                                                               *)
CInv ==
  /\ TypeOK
  /\ pc \in {"start", "inventory", "nspace"} => n = 0
  /\ pc \in {"start", "inventory", "nspace", "register", "client"} =>
       \A c \in Client : n <= c => os[c] = "unborn"
  /\ pc = "pid" => \A c \in Client : n < c => os[c] = "unborn"
  /\ \A c \in Held \cup lost : os[c] = "reaped"
  /\ Held \cap lost = {}
  /\ handler \in {"store", "count"} => found \in pid
  /\ CountExact
  /\ pc \in {"report", "done"} => (\A c \in Client : os[c] = "unborn") \/ Untold = {}

(* exit_code is that of the clients whose end the handler has stored.      *)
Stored(c) ==
  /\ os[c] = "reaped" /\ c \notin lost
  /\ ~(handler \in {"find", "store"} /\ c = found)
EInv == exitcode = 0 <=> \A c \in Client : Stored(c) => Status[c] = 0

IInv == LInv /\ CInv /\ EInv

-----------------------------------------------------------------------------
LEMMA ClientFinite == IsFiniteSet(Client) /\ Cardinality(Client) = NProcs
  <1>1. 0 \in Int /\ NProcs - 1 \in Int /\ NProcs \in Nat /\ ~(0 > NProcs - 1)
    BY SimpTestAssumption
  <1> QED
    BY <1>1, FS_Interval DEF Client

LEMMA UntoldFinite ==
  ASSUME TypeOK
  PROVE  /\ Untold \subseteq Client
         /\ IsFiniteSet(Untold) /\ Cardinality(Untold) \in Nat
  <1>1. Untold \subseteq Client
    BY DEF Untold, Held, TypeOK
  <1> QED
    BY <1>1, ClientFinite, FS_Subset, FS_CardinalityType

LEMMA InitIInv == Init => IInv
  <1> SUFFICES ASSUME Init PROVE IInv
    OBVIOUS
  <1>1. LInv
    BY DEF Init, LInv, RegisteredFirst
  <1>2. TypeOK
    BY SimpTestAssumption DEF Init, TypeOK, Client, Request
  <1>3. Untold = Client /\ Held = {}
    BY DEF Init, Untold, Held
  <1>4. CInv
    BY <1>2, <1>3, ClientFinite, SimpTestAssumption DEF CInv, Init, Client, CountExact
  <1>5. EInv
    BY DEF Init, EInv, Stored
  <1> QED
    BY <1>1, <1>4, <1>5 DEF IInv

(* The steps of main(): none of them reaps or counts.                      *)
LEMMA MainIInv == IInv /\ Main => IInv'
  <1> SUFFICES ASSUME IInv, Main PROVE IInv'
    OBVIOUS
  <1> USE DEF IInv, CInv, LInv, TypeOK, RegisteredFirst, Goto, At, Ask, Request, library,
              tracker, signals
  <1>0. UNCHANGED <<signals, code, wakeup, exitcode>>
    BY DEF Main, CollectInventory, InventoryFails, InventoryCollected, InventoryRefused,
       NspaceRegistered, RegisterClient, LaunchFails, Fork, RecordPid, Awake, Report
  <1>1. CASE CollectInventory \/ InventoryFails \/ InventoryCollected \/ InventoryRefused
             \/ NspaceRegistered \/ RegisterClient \/ LaunchFails \/ Report
    <2>1. UNCHANGED <<n, registered, tracker, os>>
      BY <1>1 DEF CollectInventory, InventoryFails, InventoryCollected, InventoryRefused,
         NspaceRegistered, RegisterClient, LaunchFails, Report
    <2>2. TypeOK'
      BY <1>0, <1>1, <2>1 DEF CollectInventory, InventoryFails, InventoryCollected,
         InventoryRefused, NspaceRegistered, RegisterClient, LaunchFails, Report
    <2>3. LInv'
      BY <1>1, <2>1 DEF CollectInventory, InventoryFails, InventoryCollected,
         InventoryRefused, NspaceRegistered, RegisterClient, LaunchFails, Report
    <2>4. Untold' = Untold /\ Held' = Held
      BY <1>0, <2>1 DEF Untold, Held
    <2>5. n = 0 => \A c \in Client : n <= c
      BY SimpTestAssumption DEF Client
    <2>6. CInv'
      BY <1>0, <1>1, <2>1, <2>2, <2>4, <2>5 DEF CollectInventory, InventoryFails,
         InventoryCollected, InventoryRefused, NspaceRegistered, RegisterClient, LaunchFails,
         Report, CountExact
    <2>7. EInv'
      BY <1>0, <2>1 DEF EInv, Stored
    <2> QED
      BY <2>3, <2>6, <2>7
  <1>2. CASE Fork
    <2>1. n \in Client /\ os[n] = "unborn" /\ os' = [os EXCEPT ![n] = "running"]
      BY <1>2 DEF Fork, Client
    <2>2. Untold' = Untold /\ Held' = Held
      BY <1>0, <2>1 DEF Untold, Held
    <2>3. LInv'
      BY <1>2, <2>1 DEF Fork, Awaited
    <2>4. TypeOK'
      BY <1>0, <1>2, <2>1 DEF Fork
    <2>5. \A c \in Client : os'[c] = "reaped" <=> os[c] = "reaped"
      BY <2>1
    <2>6. EInv'
      BY <1>0, <1>2, <2>5 DEF EInv, Stored, Fork
    <2>7. Held \cup lost \subseteq Client
      BY DEF Held
    <2>8. CInv'
      BY <1>0, <1>2, <2>1, <2>2, <2>4, <2>5, <2>7 DEF Fork, Client, CountExact
    <2> QED
      BY <2>3, <2>6, <2>8
  <1>3. CASE RecordPid
    <2>1. UNCHANGED <<library, code, wakeup, exitcode, os>> /\ pid' = pid \cup {n}
      BY <1>3 DEF RecordPid
    <2>2. Untold' = Untold /\ Held' = Held
      BY <1>0, <2>1 DEF Untold, Held
    <2>3. LInv'
      BY <1>3, <2>1 DEF RecordPid
    <2>4. TypeOK'
      BY <1>0, <1>3, <2>1, SimpTestAssumption DEF RecordPid, Client
    <2>5. EInv'
      BY <1>0, <2>1 DEF EInv, Stored
    <2>6. CInv'
      BY <1>0, <1>3, <2>1, <2>2, <2>4 DEF RecordPid, Client, CountExact
    <2> QED
      BY <2>3, <2>5, <2>6
  <1>4. CASE Awake
    <2>1. Untold = {}
      <3>1. Cardinality(Untold) = 0
        BY <1>4 DEF Awake, AllGone, CountExact
      <3> QED
        BY <3>1, UntoldFinite, FS_EmptySet
    <2>2. UNCHANGED <<n, library, tracker, os>> /\ pc = "wait" /\ pc' = "report"
      BY <1>4 DEF Awake
    <2>3. Untold' = Untold /\ Held' = Held
      BY <1>0, <2>2 DEF Untold, Held
    <2>4. EInv'
      BY <1>0, <2>2 DEF EInv, Stored
    <2> QED
      BY <1>0, <2>1, <2>2, <2>3, <2>4 DEF CountExact
  <1> QED
    BY <1>1, <1>2, <1>3, <1>4 DEF Main

(* The steps of the handler: only the last one for a child counts it.      *)
LEMMA HandlerIInv == IInv /\ Handler => IInv'
  <1> SUFFICES ASSUME IInv, Handler PROVE IInv'
    OBVIOUS
  <1> USE DEF IInv, CInv, TypeOK, library, tracker
  <1>1. ASSUME \A c \in Client : (os'[c] = "unborn") = (os[c] = "unborn"),
               UNCHANGED <<pc, n, library>>
        PROVE  LInv'
    BY <1>1 DEF LInv, RegisteredFirst
  <1>2. CASE HandlerStarts \/ HandlerEnds
    <2>1. UNCHANGED <<pc, n, library, tracker, found, lost, os>>
          /\ handler \in {"idle", "loop"} /\ handler' \in {"idle", "loop"} /\ sigchld' \in {FALSE, sigchld}
      BY <1>2 DEF HandlerStarts, HandlerEnds
    <2>2. Untold' = Untold /\ Held' = {} /\ Held = {}
      BY <2>1 DEF Untold, Held
    <2>3. LInv'
      BY <1>1, <2>1
    <2>4. EInv'
      BY <2>1 DEF EInv, Stored
    <2> QED
      BY <2>1, <2>2, <2>3, <2>4 DEF CountExact
  <1>3. CASE HandlerReaps
    <2>1. PICK c \in Zombies :
            /\ handler = "loop" /\ handler' = "find"
            /\ os' = [os EXCEPT ![c] = "reaped"] /\ found' = c
            /\ UNCHANGED <<pc, n, library, tracker, sigchld, lost>>
      BY <1>3 DEF HandlerReaps
    <2>2. c \in Client /\ os[c] = "zombie" /\ os'[c] = "reaped"
          /\ \A d \in Client : d # c => os'[d] = os[d]
      BY <2>1 DEF Zombies
    <2>3. Held = {} /\ Held' = {c} /\ c \notin lost
      BY <2>1, <2>2 DEF Held
    <2>4. Untold' = Untold
      BY <2>1, <2>2, <2>3 DEF Untold
    <2>5. LInv'
      BY <1>1, <2>1, <2>2
    <2>6. \A d \in Client : Stored(d)' <=> Stored(d)
      BY <2>1, <2>2 DEF Stored
    <2>7. EInv'
      BY <2>1, <2>6 DEF EInv
    <2>8. TypeOK'
      BY <2>1, <2>2
    <2>9. ~(pc \in {"report", "done"} /\ Untold = {})
      BY <2>2 DEF Untold
    <2>10. \A d \in Client : (os'[d] = "unborn") = (os[d] = "unborn")
      BY <2>2
    <2>11. ~(pc \in {"report", "done"})
      BY <2>2, <2>9
    <2>12. \A d \in Held' \cup lost' : os'[d] = "reaped"
      BY <2>1, <2>2, <2>3
    <2>13. CountExact'
      BY <2>1, <2>4 DEF CountExact
    <2>14. CInv'
      BY <2>1, <2>2, <2>3, <2>8, <2>10, <2>11, <2>12, <2>13
    <2> QED
      BY <2>5, <2>7, <2>14
  <1>4. CASE HandlerFinds
    <2>1. /\ handler = "find"
          /\ handler' = IF found \in pid THEN "store" ELSE "loop"
          /\ lost' = IF found \in pid THEN lost ELSE lost \cup {found}
          /\ UNCHANGED <<pc, n, library, tracker, found, sigchld, os>>
      BY <1>4 DEF HandlerFinds
    <2>2. Untold' = Untold
      BY <2>1 DEF Untold, Held
    <2>3. Held \cup lost = Held' \cup lost' /\ Held' \cap lost' = {}
      BY <2>1 DEF Held
    <2>4. LInv'
      BY <1>1, <2>1
    <2>5. \A d \in Client : Stored(d)' <=> Stored(d)
      BY <2>1 DEF Stored
    <2>6. EInv'
      BY <2>1, <2>5 DEF EInv
    <2>7. TypeOK'
      BY <2>1
    <2> QED
      BY <2>1, <2>2, <2>3, <2>4, <2>6, <2>7 DEF CountExact
  <1>5. CASE HandlerStores
    <2>1. /\ handler = "store" /\ handler' = "count"
          /\ code' = [code EXCEPT ![found] = Status[found]]
          /\ exitcode' = IF exitcode = 0 THEN Status[found] ELSE exitcode
          /\ UNCHANGED <<pc, n, library, pid, wakeup, found, sigchld, lost, os>>
      BY <1>5 DEF HandlerStores
    <2>2. Untold' = Untold /\ Held' = Held /\ found \in Held
      BY <2>1 DEF Untold, Held
    <2>3. LInv'
      BY <1>1, <2>1
    <2>4. Stored(found)' /\ \A d \in Client : d # found => (Stored(d)' <=> Stored(d))
      BY <2>1, <2>2 DEF Stored
    <2>5. Status[found] \in Nat /\ ~Stored(found)
      BY <2>1, SimpTestAssumption DEF Stored
    <2>6. EInv'
      BY <2>1, <2>4, <2>5 DEF EInv
    <2>7. TypeOK'
      BY <2>1, <2>5
    <2> QED
      BY <2>1, <2>2, <2>3, <2>6, <2>7 DEF CountExact
  <1>6. CASE HandlerCounts
    <2>1. /\ handler = "count" /\ handler' = "loop"
          /\ wakeup' = wakeup - 1
          /\ UNCHANGED <<pc, n, library, pid, code, exitcode, found, sigchld, lost, os>>
      BY <1>6 DEF HandlerCounts, Count
    <2>2. Held = {found} /\ Held' = {} /\ found \in Untold /\ Untold' = Untold \ {found}
      BY <2>1 DEF Untold, Held
    <2>3. Cardinality(Untold') = Cardinality(Untold) - 1
      BY <2>2, UntoldFinite, FS_RemoveElement
    <2>4. Cardinality(Untold') \in Nat
      BY <2>2, UntoldFinite, FS_RemoveElement, FS_CardinalityType
    <2>5. LInv'
      BY <1>1, <2>1
    <2>6. EInv'
      BY <2>1 DEF EInv, Stored
    <2>7. wakeup' \in 0 .. NProcs /\ CountExact'
      BY <2>1, <2>3, <2>4, SimpTestAssumption DEF CountExact
    <2> QED
      BY <2>1, <2>2, <2>5, <2>6, <2>7
  <1> QED
    BY <1>2, <1>3, <1>4, <1>5, <1>6 DEF Handler

LEMMA CallbackIInv == ASSUME IInv, NEW r \in Request, Callback(r) PROVE IInv'
  <1> USE DEF Callback, tracker, signals
  <1>1. LInv'
    BY DEF IInv, LInv, RegisteredFirst, CInv, TypeOK
  <1>2. TypeOK'
    BY DEF IInv, CInv, TypeOK
  <1>3. Untold' = Untold /\ Held' = Held
    BY DEF Untold, Held
  <1>4. EInv'
    BY DEF IInv, EInv, Stored
  <1> QED
    BY <1>1, <1>2, <1>3, <1>4 DEF IInv, CInv, CountExact

LEMMA ClientIInv == ASSUME IInv, NEW c \in Client, ClientEnds(c) PROVE IInv'
  <1> USE DEF ClientEnds, library, tracker
  <1>1. LInv'
    BY DEF IInv, LInv, RegisteredFirst, CInv, TypeOK
  <1>2. TypeOK'
    BY DEF IInv, CInv, TypeOK
  <1>3. \A d \in Client : os'[d] = "reaped" <=> os[d] = "reaped"
    BY DEF IInv, CInv, TypeOK
  <1>4. Untold' = Untold /\ Held' = Held
    BY <1>3 DEF Untold, Held
  <1>5. EInv'
    BY <1>3 DEF IInv, EInv, Stored
  <1>6. \A d \in Client : os'[d] = "unborn" <=> os[d] = "unborn"
    BY DEF IInv, CInv, TypeOK
  <1>7. Held \cup lost \subseteq Client
    BY DEF Held, IInv, CInv, TypeOK
  <1> QED
    BY <1>1, <1>2, <1>3, <1>4, <1>5, <1>6, <1>7 DEF IInv, CInv, CountExact

LEMMA StepIInv == IInv /\ [Next]_vars => IInv'
  <1> SUFFICES ASSUME IInv, [Next]_vars PROVE IInv'
    OBVIOUS
  <1>1. CASE UNCHANGED vars
    BY <1>1 DEF vars, IInv, LInv, CInv, EInv, TypeOK, RegisteredFirst, Untold, Held, Stored,
       CountExact, library, tracker, signals
  <1> QED
    BY <1>1, MainIInv, HandlerIInv, CallbackIInv, ClientIInv DEF Next, Stopped

LEMMA Inductive == Spec => []IInv
  BY InitIInv, StepIInv, PTL DEF Spec

(* Every variable keeps its type; wakeup never falls below zero, also when *)
(* clients are not found in children.                                      *)
THEOREM TypeCorrect == Spec => []TypeOK
  <1>1. IInv => TypeOK
    BY DEF IInv, CInv
  <1> QED
    BY <1>1, Inductive, PTL

(* No client is forked before the library has called back for its          *)
(* registration, however quick the clients are (simptest.c:475-481).       *)
THEOREM ForkedWhenRegistered == Spec => []RegisteredFirst
  <1>1. IInv => RegisteredFirst
    BY DEF IInv, LInv
  <1> QED
    BY <1>1, Inductive, PTL

(* wakeup counts exactly the clients whose end main() has not been told    *)
(* of, those that the handler drops because they ended too soon included   *)
(* (simptest.c:1030-1042).                                                 *)
THEOREM CountIsExact == Spec => []CountExact
  <1>1. IInv => CountExact
    BY DEF IInv, CInv
  <1> QED
    BY <1>1, Inductive, PTL

(* After a complete launch the report comes last and after no client has   *)
(* been dropped, and tells success exactly if every client ended with it,  *)
(* whatever the statuses and however quick the clients are.                *)
THEOREM ReportIsTrue == Spec => []ReportIsRight
  <1>1. IInv => ReportIsRight
    <2> SUFFICES ASSUME IInv, pc \in {"report", "done"}, Launched PROVE ReportIsRight
      BY DEF ReportIsRight
    <2>1. 0 \in Client
      BY SimpTestAssumption DEF Client
    <2>2. Untold = {}
      BY <2>1 DEF IInv, CInv, Launched
    <2>3. \A c \in Client : os[c] = "reaped"
      BY <2>2 DEF Untold
    <2>4. lost = {} /\ Held = {}
      BY <2>2 DEF Untold
    <2>5. \A c \in Client : Stored(c)
      BY <2>3, <2>4 DEF Stored, Held
    <2> QED
      BY <2>3, <2>4, <2>5 DEF ReportIsRight, IInv, EInv
  <1> QED
    BY <1>1, Inductive, PTL
=============================================================================
