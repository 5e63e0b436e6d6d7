---------------------------- MODULE ScannerProofs ----------------------------
(***************************************************************************)
(* Theorems about Scanner, for any number of worker slots, processes,      *)
(* addresses and results per address, any size of ring and pipe, and any   *)
(* number of calls of start().                                             *)
(***************************************************************************)
EXTENDS Scanner, ListLemmas, FiniteSetTheorems, SequenceTheorems, TLAPS

(* The lemmas about the ring, for the wiring the coordinator gives it.     *)
RP == INSTANCE RingBufferProofs WITH
        Producers <- {Coord}, Consumers <- Pids, Unstorable <- {},
        Locks <- Pids \cup {Coord},
        LockOf <- [p \in Pids \cup {Coord} |-> p],
        Killable <- Pids,
        MaxAccepted <- Cardinality(Addrs),
        MaxDelivered <- 2 * Cardinality(Addrs)

LEMMA Processes ==
  /\ IsFiniteSet(Pids)
  /\ DOMAIN ProcessIds = 1 .. Len(ProcessIds) /\ Len(ProcessIds) \in Nat
  /\ \A i \in 1 .. Len(ProcessIds) : ProcessIds[i] \in Pids
  /\ \A i, j \in 1 .. Len(ProcessIds) : ProcessIds[i] = ProcessIds[j] => i = j
  /\ Coord \notin Pids /\ NoOne \notin Pids
  <1>1. ProcessIds \in Seq(Pids) /\ IsInjective(ProcessIds)
    BY ScannerAssumption, Zenon
  <1>2. /\ DOMAIN ProcessIds = 1 .. Len(ProcessIds) /\ Len(ProcessIds) \in Nat
        /\ \A i \in 1 .. Len(ProcessIds) : ProcessIds[i] \in Pids
    BY <1>1, SMT
  <1>3. \A i, j \in 1 .. Len(ProcessIds) : ProcessIds[i] = ProcessIds[j] => i = j
    BY <1>1, <1>2, Zenon DEF IsInjective
  <1>4. IsFiniteSet(Pids)
    <2>1. IsFiniteSet(DOMAIN ProcessIds)
      BY <1>2, FS_Interval, SMT
    <2>2. ProcessIds \in Surjection(DOMAIN ProcessIds, Pids)
      BY <1>1, <1>2, SMT DEF Surjection, Pids
    <2>3. QED
      BY <2>1, <2>2, FS_Surjection, Zenon
  <1>5. Coord \notin Pids /\ NoOne \notin Pids
    BY ScannerAssumption DEF Coord, NoOne
  <1>6. QED
    BY <1>2, <1>3, <1>4, <1>5

LEMMA RingConstants == RP!RingAssumption
  <1>1. Cardinality(Addrs) \in Nat /\ 2 * Cardinality(Addrs) \in Nat
    BY ScannerAssumption, FS_CardinalityType, SMT
  <1>2. /\ {Coord} \cap Pids = {}
        /\ {Ring!Free, Ring!Abandoned} \cap (Pids \cup {Coord}) = {}
    BY ScannerAssumption DEF Coord, Ring!Free, Ring!Abandoned
  <1>3. Capacity \in 1 .. RP!HARD_CAPACITY_LIMIT
    <2>1. RP!HARD_CAPACITY_LIMIT = Ring!HARD_CAPACITY_LIMIT
      BY Z3 DEF RP!HARD_CAPACITY_LIMIT, Ring!HARD_CAPACITY_LIMIT
    <2>2. Capacity \in 1 .. Ring!HARD_CAPACITY_LIMIT
      BY ScannerAssumption, SMTT(30)
    <2>3. QED
      BY <2>1, <2>2, Zenon
  <1>4. Addrs \subseteq Nat
    BY ScannerAssumption, Zenon
  <1>5. QED
    BY <1>1, <1>2, <1>3, <1>4
       DEF RP!RingAssumption, RP!Procs, RP!Free, RP!Abandoned, Ring!Free, Ring!Abandoned

-----------------------------------------------------------------------------
(* Every step of the scanner but start() is a step of the ring or leaves   *)
(* it alone.                                                               *)

LEMMA RingStep ==
  ASSUME NEW p \in Pids \cup {Coord},
         \/ Ring!Attach(p) \/ Ring!Close(p) \/ Ring!Crash(p) \/ Ring!Unlink(p)
         \/ Ring!GetCall(p) \/ Ring!GetEnter(p) \/ Ring!GetReadTail(p)
         \/ Ring!GetFetch(p) \/ Ring!GetCommit(p) \/ Ring!PutEnter(p)
         \/ Ring!PutReadTail(p) \/ Ring!PutStore(p) \/ Ring!PutPublish(p)
         \/ Ring!Leave(p) \/ \E a \in Addrs : Ring!PutCall(p, a)
  PROVE  RP!Next
  <1> USE DEF Ring!shared, RP!shared, Ring!locals, RP!locals, Ring!history, RP!history
  <1>1. p \in RP!Procs
    BY DEF RP!Procs
  <1>2. Ring!Attach(p) => RP!Attach(p)
    BY DEF Ring!Attach, RP!Attach, Ring!Private, RP!Private, Ring!Procs, RP!Procs,
           Ring!Free, RP!Free
  <1>3. Ring!Close(p) => RP!Close(p)
    BY DEF Ring!Close, RP!Close
  <1>4. Ring!Crash(p) => RP!Crash(p)
    BY DEF Ring!Crash, RP!Crash, Ring!Critical, RP!Critical, Ring!Abandoned, RP!Abandoned
  <1>5. Ring!Unlink(p) => RP!Unlink(p)
    BY DEF Ring!Unlink, RP!Unlink
  <1>6. Ring!GetCall(p) => RP!GetCall(p)
    BY DEF Ring!GetCall, RP!GetCall
  <1>7. Ring!GetEnter(p) => RP!Enter(p)
    BY DEF Ring!GetEnter, RP!GetEnter, Ring!Acquire, RP!Acquire, Ring!Free, RP!Free,
           RP!Enter
  <1>8. Ring!PutEnter(p) => RP!Enter(p)
    BY DEF Ring!PutEnter, RP!PutEnter, Ring!Acquire, RP!Acquire, Ring!Free, RP!Free,
           RP!Enter
  <1>9. Ring!GetReadTail(p) => RP!Step(p)
    BY DEF Ring!GetReadTail, RP!GetReadTail, RP!Step
  <1>10. Ring!GetFetch(p) => RP!Step(p)
    BY DEF Ring!GetFetch, RP!GetFetch, RP!Step
  <1>11. Ring!GetCommit(p) => RP!Step(p)
    BY DEF Ring!GetCommit, RP!GetCommit, Ring!Succ, RP!Succ, RP!Step
  <1>12. Ring!PutReadTail(p) => RP!Step(p)
    BY DEF Ring!PutReadTail, RP!PutReadTail, Ring!Full, RP!Full, Ring!Succ, RP!Succ,
           RP!Step
  <1>13. Ring!PutStore(p) => RP!Step(p)
    BY DEF Ring!PutStore, RP!PutStore, RP!Step
  <1>14. Ring!PutPublish(p) => RP!Step(p)
    BY DEF Ring!PutPublish, RP!PutPublish, Ring!Succ, RP!Succ, RP!Step
  <1>15. Ring!Leave(p) => RP!Step(p)
    BY DEF Ring!Leave, RP!Leave, Ring!Free, RP!Free, RP!Step
  <1>16. ASSUME NEW a \in Addrs PROVE Ring!PutCall(p, a) => RP!PutCall(p, a)
    BY DEF Ring!PutCall, RP!PutCall
  <1>17. QED
    BY <1>1, <1>2, <1>3, <1>4, <1>5, <1>6, <1>7, <1>8, <1>9, <1>10, <1>11, <1>12,
       <1>13, <1>14, <1>15, <1>16 DEF RP!Next

LEMMA StartOrRingStep ==
  ASSUME [Next]_vars
  PROVE  Start \/ [RP!Next]_(RP!vars)
  <1>1. ASSUME \/ Stop \/ StopNotStarted \/ DrainResults \/ Spawn \/ SpawnFails \/ Started
               \/ DrainOne \/ DrainEmpty \/ Join \/ CheckFine \/ Respawn \/ RespawnFails
               \/ RespawnRefused \/ Terminate
               \/ UNCHANGED vars
        PROVE  UNCHANGED ringVars
    BY <1>1 DEF Stop, StopNotStarted, DrainResults, Spawn, SpawnFails, Started, DrainOne,
                DrainEmpty, Join, CheckFine, Respawn, RespawnFails, RespawnRefused,
                Terminate, vars
  <1>2. ASSUME NEW w \in Pids,
               \/ BootFails(w) \/ Work(w) \/ WorkFails(w) \/ Exit(w)
               \/ FeederLocks(w) \/ FeederSends(w)
        PROVE  UNCHANGED ringVars
    BY <1>2 DEF BootFails, Work, WorkFails, Exit, FeederLocks, FeederSends
  <1>3. UNCHANGED ringVars => UNCHANGED RP!vars
    BY DEF ringVars, RP!vars
  <1>4. ASSUME NEW a \in Addrs, Submit(a) PROVE RP!Next
    BY <1>4, RingStep DEF Submit
  <1>5. ASSUME SubmitStep \/ SubmitReturns \/ CleanUp PROVE RP!Next
    BY <1>5, RingStep DEF SubmitStep, SubmitReturns, CleanUp
  <1>6. ASSUME NEW w \in Pids, Boot(w) \/ Poll(w) \/ GetStep(w) \/ GetReturns(w) \/ CloseRing(w)
        PROVE  RP!Next
    BY <1>6, RingStep DEF Boot, Poll, GetStep, GetReturns, CloseRing
  <1>7. ASSUME NEW w \in Pids, Killed(w) \/ Terminated(w) PROVE RP!Next \/ UNCHANGED ringVars
    BY <1>7, RingStep DEF Killed, Terminated, Dies
  <1>8. QED
    BY <1>1, <1>2, <1>3, <1>4, <1>5, <1>6, <1>7
       DEF Next, Client, CoordStep, WorkerStep, Feeder

-----------------------------------------------------------------------------
(* Where the client thread can be, and who the session's workers are.      *)

Calls == {"submit", "join", "check", "term", "clean"}   (* made after start() *)

Coordinator ==
  /\ started \in BOOLEAN /\ event \in BOOLEAN /\ stopped \in BOOLEAN
  /\ workers \in Seq(Pids) /\ Len(workers) <= NumWorkers
  /\ cpc \in Calls \cup {"idle", "drain", "spawn"}
  /\ ci \in 1 .. NumWorkers /\ nproc \in 0 .. Len(ProcessIds)
  /\ cpc \in Calls => started
  /\ cpc = "spawn" => ~started
  /\ started => Len(workers) = NumWorkers

Lives ==
  /\ life \in [Pids -> {"unborn", "alive", "ok", "crashed"}]
  /\ wpc \in [Pids -> {"boot", "ready", "get", "work", "close", "flush", "gone", "stray"}]
  /\ signalled \subseteq Pids /\ raised \subseteq Pids

(* A step of a worker, of its feeder thread or of the system that ends it. *)
ProcessStep(w) == WorkerStep(w) \/ Feeder(w) \/ Killed(w) \/ Terminated(w)

LEMMA ProcessFrame ==
  ASSUME Lives, NEW w \in Pids, ProcessStep(w)
  PROVE  /\ UNCHANGED <<coordVars, signalled, drained>>
         /\ Alive(w) /\ life'[w] \in {"alive", "ok", "crashed"}
         /\ wpc'[w] = "stray" => wpc[w] = "stray"
         /\ wpc[w] = "stray" => wpc'[w] = "stray" \/ life'[w] = "crashed"
         /\ \A v \in Pids \ {w} : life'[v] = life[v] /\ wpc'[v] = wpc[v]
         /\ Lives'
  <1> USE DEF Lives, Alive, Worker, queueVars
  <1>1. CASE Boot(w)
    BY <1>1 DEF Boot
  <1>2. CASE BootFails(w)
    BY <1>2 DEF BootFails
  <1>3. CASE Poll(w)
    BY <1>3 DEF Poll
  <1>4. CASE GetStep(w)
    BY <1>4 DEF GetStep
  <1>5. CASE GetReturns(w)
    BY <1>5 DEF GetReturns
  <1>6. CASE Work(w)
    BY <1>6 DEF Work
  <1>7. CASE WorkFails(w)
    BY <1>7 DEF WorkFails
  <1>8. CASE CloseRing(w)
    BY <1>8 DEF CloseRing
  <1>9. CASE Exit(w)
    BY <1>9 DEF Exit
  <1>10. CASE Feeder(w)
    BY <1>10 DEF Feeder, FeederLocks, FeederSends, procVars
  <1>11. CASE Killed(w) \/ Terminated(w)
    BY <1>11 DEF Killed, Terminated, Dies
  <1>12. QED
    BY <1>1, <1>2, <1>3, <1>4, <1>5, <1>6, <1>7, <1>8, <1>9, <1>10, <1>11
       DEF ProcessStep, WorkerStep

(* A step of the client thread that launches no process.                   *)
QuietCall ==
  \/ Stop \/ StopNotStarted \/ DrainResults \/ \E a \in Addrs : Submit(a)
  \/ SpawnFails \/ Started \/ SubmitStep \/ SubmitReturns \/ DrainOne \/ DrainEmpty
  \/ Join \/ CheckFine \/ RespawnFails \/ RespawnRefused \/ Terminate \/ CleanUp

LEMMA QuietFrame ==
  ASSUME QuietCall
  PROVE  UNCHANGED <<life, wpc, draining, hit, raised, buffer, wlock, processed, starts, nproc>>
  BY DEF QuietCall, Stop, StopNotStarted, DrainResults, Submit, SpawnFails, Started,
         SubmitStep, SubmitReturns, DrainOne, DrainEmpty, Join, CheckFine, RespawnFails,
         RespawnRefused, Terminate, CleanUp, coordVars, procVars, queueVars

LEMMA Steps ==
  ASSUME [Next]_vars
  PROVE  \/ Start \/ Spawn \/ Respawn \/ QuietCall
         \/ \E w \in Pids : ProcessStep(w)
         \/ UNCHANGED vars
  BY Zenon DEF Next, Client, CoordStep, QuietCall, ProcessStep

LEMMA CoordinatorInit == Init => Coordinator /\ Lives
  <1>1. NumWorkers \in Nat \ {0} /\ <<>> \in Seq(Pids) /\ Len(<<>>) = 0
    BY ScannerAssumption, EmptySeq
  <1>2. Init => Coordinator
    <2> SUFFICES ASSUME Init PROVE Coordinator
      OBVIOUS
    <2>1. /\ started = FALSE /\ event = FALSE /\ stopped = FALSE
          /\ workers = <<>> /\ cpc = "idle" /\ ci = 1 /\ nproc = 0
      BY DEF Init
    <2>2. ci \in 1 .. NumWorkers /\ nproc \in 0 .. Len(ProcessIds)
      BY <1>1, <2>1, Processes
    <2>3. workers \in Seq(Pids) /\ Len(workers) <= NumWorkers
      BY <1>1, <2>1
    <2>4. QED
      BY <2>1, <2>2, <2>3 DEF Coordinator, Calls
  <1>3. Init => Lives
    BY DEF Init, Lives
  <1>4. QED
    BY <1>2, <1>3

LEMMA CoordinatorStep ==
  ASSUME Coordinator, Lives, [Next]_vars
  PROVE  Coordinator' /\ Lives'
  <1> USE DEF Coordinator, Calls
  <1>0. NumWorkers \in Nat \ {0}
    BY ScannerAssumption
  <1>00. <<>> \in Seq(Pids) /\ Len(<<>>) = 0 /\ 0 <= NumWorkers
    BY <1>0, EmptySeq
  <1>1. CASE Start
    <2>1. Lives'
      BY <1>1 DEF Start, Lives, Alive
    <2>2. Coordinator'
      BY <1>00, <1>1 DEF Start
    <2>3. QED
      BY <2>1, <2>2
  <1>2. CASE Spawn
    <2>1. ProcessIds[nproc + 1] \in Pids /\ nproc + 1 \in 0 .. Len(ProcessIds)
      BY <1>2, Processes DEF Spawn, Launch
    <2>2. workers' \in Seq(Pids) /\ Len(workers') = Len(workers) + 1
      BY <1>2, <2>1, AppendProperties DEF Spawn
    <2>3. Lives'
      BY <1>2 DEF Spawn, Launch, Lives
    <2>4. Coordinator'
      BY <1>0, <1>2, <2>1, <2>2 DEF Spawn, Launch
    <2>5. QED
      BY <2>3, <2>4
  <1>3. CASE Respawn
    <2>1. ProcessIds[nproc + 1] \in Pids /\ nproc + 1 \in 0 .. Len(ProcessIds)
      BY <1>3, Processes DEF Respawn, Launch
    <2>2. workers' \in Seq(Pids) /\ Len(workers') = Len(workers)
      BY <1>3, <2>1, ExceptSeq DEF Respawn
    <2>3. Lives'
      BY <1>3 DEF Respawn, Launch, Lives
    <2>4. Coordinator'
      BY <1>0, <1>3, <2>1, <2>2 DEF Respawn, Launch, NextCheck, Goto
    <2>5. QED
      BY <2>3, <2>4
  <1>4. CASE QuietCall
    <2>1. Lives'
      <3>1. signalled' \subseteq Pids
        BY <1>4 DEF QuietCall, Stop, StopNotStarted, DrainResults, Submit, SpawnFails, Started,
           SubmitStep, SubmitReturns, DrainOne, DrainEmpty, Join, CheckFine, RespawnFails,
           RespawnRefused, Terminate, CleanUp, procVars, Lives
      <3>2. QED
        BY <1>4, <3>1, QuietFrame DEF Lives
    <2>2. Coordinator'
      <3>1. CASE Stop
        BY <1>0, <3>1 DEF Stop, Goto
      <3>2. CASE StopNotStarted
        BY <3>2 DEF StopNotStarted
      <3>3. CASE DrainResults
        BY <3>3 DEF DrainResults
      <3>4. CASE \E a \in Addrs : Submit(a)
        BY <3>4 DEF Submit
      <3>5. CASE SpawnFails
        BY <3>5 DEF SpawnFails
      <3>6. CASE Started
        BY <3>6 DEF Started
      <3>7. CASE SubmitStep
        BY <3>7 DEF SubmitStep, coordVars
      <3>8. CASE SubmitReturns
        BY <3>8 DEF SubmitReturns
      <3>9. CASE DrainOne
        BY <3>9 DEF DrainOne, coordVars
      <3>10. CASE DrainEmpty
        BY <3>10 DEF DrainEmpty
      <3>11. CASE Join
        BY <1>0, <3>11 DEF Join, Goto
      <3>12. CASE CheckFine
        BY <1>0, <3>12 DEF CheckFine, NextCheck, Goto
      <3>13. CASE RespawnFails
        BY <3>13 DEF RespawnFails
      <3>14. CASE RespawnRefused
        BY <1>0, <3>14 DEF RespawnRefused, NextCheck, Goto
      <3>15. CASE Terminate
        BY <1>0, <3>15 DEF Terminate, Goto
      <3>16. CASE CleanUp
        BY <1>00, <3>16 DEF CleanUp
      <3>17. QED
        BY <1>4, <3>1, <3>2, <3>3, <3>4, <3>5, <3>6, <3>7, <3>8, <3>9, <3>10, <3>11,
           <3>12, <3>13, <3>14, <3>15, <3>16, Zenon DEF QuietCall
    <2>3. QED
      BY <2>1, <2>2
  <1>5. CASE \E w \in Pids : ProcessStep(w)
    BY <1>5, ProcessFrame DEF coordVars
  <1>6. CASE UNCHANGED vars
    BY <1>6 DEF vars, coordVars, procVars, Lives
  <1>7. QED
    BY <1>1, <1>2, <1>3, <1>4, <1>5, <1>6, Steps

LEMMA CoordinatorInvariant == Spec => [](Coordinator /\ Lives)
  BY CoordinatorInit, CoordinatorStep, PTL DEF Spec

-----------------------------------------------------------------------------
(* Never more live workers than slots.                                     *)

(* The live processes of this session.                                     *)
Active == {w \in Pids : Alive(w) /\ wpc[w] # "stray"}
InSlots(l) == {l[i] : i \in 1 .. Len(l)}

Team ==
  /\ cpc = "spawn" \/ started => Active \subseteq InSlots(workers)
  /\ Cardinality(Active) <= NumWorkers

LEMMA AtMostSlots ==
  ASSUME NEW l \in Seq(Pids), Len(l) <= NumWorkers, NEW S, S \subseteq InSlots(l)
  PROVE  Cardinality(S) <= NumWorkers
  <1>1. /\ NumWorkers \in Nat /\ Len(l) \in Nat
        /\ DOMAIN l = 1 .. Len(l) /\ l \in [1 .. Len(l) -> InSlots(l)]
    BY ScannerAssumption DEF InSlots
  <1>2. l \in Surjection(1 .. Len(l), InSlots(l))
    BY <1>1, Zenon DEF Surjection, InSlots
  <1>3. IsFiniteSet(1 .. Len(l)) /\ Cardinality(1 .. Len(l)) = Len(l)
    <2>1. 1 \in Int /\ Len(l) \in Int
      BY <1>1
    <2>2. /\ IsFiniteSet(1 .. Len(l))
          /\ Cardinality(1 .. Len(l)) = IF 1 > Len(l) THEN 0 ELSE Len(l) - 1 + 1
      BY <2>1, FS_Interval, Zenon
    <2>3. QED
      BY <1>1, <2>2
  <1>4. IsFiniteSet(InSlots(l)) /\ Cardinality(InSlots(l)) <= Len(l)
    BY <1>2, <1>3, FS_Surjection
  <1>5. /\ Cardinality(S) <= Cardinality(InSlots(l))
        /\ Cardinality(S) \in Nat /\ Cardinality(InSlots(l)) \in Nat
    BY <1>4, FS_Subset, FS_CardinalityType
  <1>6. QED
    BY <1>1, <1>4, <1>5

LEMMA OneMoreSlot ==
  ASSUME NEW l \in Seq(Pids), NEW new \in Pids
  PROVE  InSlots(Append(l, new)) = InSlots(l) \cup {new}
  <1>1. /\ Len(Append(l, new)) = Len(l) + 1 /\ Len(l) \in Nat
        /\ Append(l, new)[Len(l) + 1] = new
        /\ \A i \in 1 .. Len(l) : Append(l, new)[i] = l[i]
    BY AppendProperties
  <1>2. QED
    BY <1>1 DEF InSlots

LEMMA FewerActive ==
  ASSUME Team, Active' \subseteq Active
  PROVE  Cardinality(Active') <= NumWorkers
  <1>1. IsFiniteSet(Active)
    BY Processes, FS_Subset DEF Active
  <1>2. /\ Cardinality(Active') <= Cardinality(Active)
        /\ Cardinality(Active') \in Nat /\ Cardinality(Active) \in Nat
    BY <1>1, FS_Subset, FS_CardinalityType
  <1>3. QED
    BY <1>2, ScannerAssumption DEF Team

LEMMA SessionFrame ==
  ASSUME Coordinator, QuietCall
  PROVE  (cpc = "spawn" \/ started)' => (cpc = "spawn" \/ started) /\ workers' = workers
  <1>1. CASE CleanUp
    BY <1>1 DEF CleanUp
  <1>2. CASE Stop \/ StopNotStarted \/ DrainResults \/ \E a \in Addrs : Submit(a)
    BY <1>2 DEF Stop, StopNotStarted, DrainResults, Submit, Goto
  <1>3. CASE SpawnFails \/ Started
    BY <1>3 DEF SpawnFails, Started
  <1>4. CASE SubmitStep \/ SubmitReturns \/ DrainOne \/ DrainEmpty
    BY <1>4 DEF SubmitStep, SubmitReturns, DrainOne, DrainEmpty, coordVars
  <1>5. CASE Join \/ CheckFine \/ RespawnFails \/ RespawnRefused \/ Terminate
    BY <1>5 DEF Join, CheckFine, RespawnFails, RespawnRefused, Terminate, NextCheck, Goto
  <1>6. QED
    BY <1>1, <1>2, <1>3, <1>4, <1>5, Zenon DEF QuietCall

LEMMA TeamStep ==
  ASSUME Coordinator, Lives, Team, [Next]_vars
  PROVE  Team'
  <1>0. NumWorkers \in Nat \ {0} /\ Coordinator' /\ Lives'
    BY ScannerAssumption, CoordinatorStep
  <1>1. CASE Start
    <2>1. Active' = {}
      BY <1>1, <1>0 DEF Start, Active, Alive, Lives
    <2>2. Cardinality(Active') <= NumWorkers
      BY <2>1, FewerActive
    <2>3. QED
      BY <2>1, <2>2 DEF Team
  <1>2. CASE Spawn
    <2> DEFINE new == ProcessIds[nproc + 1]
    <2>1. /\ new \in Pids /\ workers' = Append(workers, new)
          /\ Active' \subseteq Active \cup {new} /\ cpc = "spawn"
      BY <1>2, Processes DEF Spawn, Launch, Active, Alive, Lives, Coordinator
    <2>2. InSlots(workers') = InSlots(workers) \cup {new}
      BY <2>1, OneMoreSlot DEF Coordinator
    <2>3. Active' \subseteq InSlots(workers')
      BY <2>1, <2>2 DEF Team
    <2>4. Cardinality(Active') <= NumWorkers
      BY <1>0, <2>3, AtMostSlots DEF Coordinator
    <2>5. QED
      BY <2>3, <2>4 DEF Team
  <1>3. CASE Respawn
    <2> DEFINE new == ProcessIds[nproc + 1]
    <2>1. /\ new \in Pids /\ workers' = [workers EXCEPT ![ci] = new]
          /\ Active' \subseteq Active \cup {new} /\ workers[ci] \notin Active
          /\ started /\ ci \in 1 .. Len(workers)
      BY <1>3, Processes
         DEF Respawn, Crashed, Launch, Active, Alive, Lives, Coordinator, Calls
    <2>2. InSlots(workers) \cup {new} \subseteq InSlots(workers') \cup {workers[ci]}
      <3> HIDE DEF new
      <3>1. /\ Len(workers') = Len(workers) /\ workers'[ci] = new
            /\ \A i \in 1 .. Len(workers) : i # ci => workers'[i] = workers[i]
        BY <2>1, ExceptSeq DEF Coordinator
      <3>2. QED
        BY <2>1, <3>1 DEF InSlots
    <2>3. Active' \subseteq InSlots(workers')
      <3>1. workers[ci] \notin Active' \/ workers[ci] = new
        BY <2>1
      <3>2. new \in InSlots(workers')
        <4> HIDE DEF new
        <4>1. Len(workers') = Len(workers) /\ workers'[ci] = new
          BY <2>1, ExceptSeq DEF Coordinator
        <4>2. QED
          BY <2>1, <4>1 DEF InSlots
      <3>3. QED
        BY <2>1, <2>2, <3>1, <3>2 DEF Team
    <2>4. Cardinality(Active') <= NumWorkers
      BY <1>0, <2>3, AtMostSlots DEF Coordinator
    <2>5. QED
      BY <2>3, <2>4 DEF Team
  <1>4. CASE QuietCall
    <2>1. Active' = Active
      BY <1>4, QuietFrame DEF Active, Alive
    <2>2. Cardinality(Active') <= NumWorkers
      BY <2>1, FewerActive
    <2>3. (cpc = "spawn" \/ started)' => (cpc = "spawn" \/ started) /\ workers' = workers
      BY <1>4, SessionFrame
    <2>4. QED
      BY <2>1, <2>2, <2>3 DEF Team
  <1>5. ASSUME NEW w \in Pids, ProcessStep(w)
        PROVE  Team'
    <2>1. Active' \subseteq Active /\ UNCHANGED <<started, cpc, workers>>
      BY <1>5, ProcessFrame DEF Active, Alive, coordVars
    <2>2. Cardinality(Active') <= NumWorkers
      BY <2>1, FewerActive
    <2>3. QED
      BY <2>1, <2>2 DEF Team
  <1>6. CASE UNCHANGED vars
    BY <1>6 DEF vars, coordVars, procVars, Team, Active, Alive
  <1>7. QED
    BY <1>1, <1>2, <1>3, <1>4, <1>5, <1>6, Steps

LEMMA TeamInvariant == Spec => []Team
  <1>1. Init => Team
    <2> SUFFICES ASSUME Init PROVE Team
      OBVIOUS
    <2>1. Active = {}
      BY DEF Init, Active, Alive
    <2>2. Cardinality({}) = 0 /\ NumWorkers \in Nat
      BY FS_EmptySet, ScannerAssumption
    <2>3. QED
      BY <2>1, <2>2 DEF Team
  <1>2. QED
    BY <1>1, TeamStep, CoordinatorInvariant, PTL DEF Spec

(* Never more live workers than worker slots: whatever crashes, whenever   *)
(* start() and stop() are interrupted by a failing Process.start(), and    *)
(* however often the client calls them again.                              *)
THEOREM NeverTooManyWorkers == Spec => []NoExtraWorkers
  <1>1. Team => NoExtraWorkers
    BY DEF Team, NoExtraWorkers, Active
  <1>2. QED
    BY <1>1, TeamInvariant, PTL

-----------------------------------------------------------------------------
(* What stop() leaves behind.                                              *)

(* Live processes are workers of the session or were sent SIGTERM, all of  *)
(* them once stop() is through; what it has looked at is signalled.        *)
Signalling ==
  /\ stopped => ~started /\ cpc \in {"idle", "drain"} /\ ~linked
  /\ cpc = "spawn" \/ started =>
       \A w \in Pids : Alive(w) => w \in InSlots(workers) \cup signalled
  /\ ~started /\ cpc \in {"idle", "drain"} =>
       /\ \A w \in Pids : Alive(w) => w \in signalled
       /\ starts > 0 => ~linked
  /\ cpc = "term" =>
       \A i \in 1 .. ci - 1 : Alive(workers[i]) => workers[i] \in signalled
  /\ cpc = "clean" =>
       \A i \in 1 .. Len(workers) : Alive(workers[i]) => workers[i] \in signalled

LEMMA Linking ==
  ASSUME [Next]_vars
  PROVE  Start \/ CleanUp \/ linked' = linked
  <1>1. ASSUME Start \/ CleanUp PROVE Start \/ CleanUp \/ linked' = linked
    BY <1>1
  <1>2. ASSUME \/ Stop \/ StopNotStarted \/ DrainResults \/ Spawn \/ SpawnFails \/ Started
               \/ DrainOne \/ DrainEmpty \/ Join \/ CheckFine \/ Respawn \/ RespawnFails
               \/ RespawnRefused \/ Terminate
               \/ UNCHANGED vars
        PROVE  linked' = linked
    BY <1>2 DEF Stop, StopNotStarted, DrainResults, Spawn, SpawnFails, Started, DrainOne,
                DrainEmpty, Join, CheckFine, Respawn, RespawnFails, RespawnRefused,
                Terminate, vars, ringVars
  <1>3. ASSUME NEW a \in Addrs, Submit(a) PROVE linked' = linked
    BY <1>3 DEF Submit, Ring!PutCall
  <1>4. ASSUME SubmitStep \/ SubmitReturns PROVE linked' = linked
    BY <1>4 DEF SubmitStep, SubmitReturns, Ring!PutEnter, Ring!Acquire, Ring!PutReadTail,
                Ring!PutStore, Ring!PutPublish, Ring!Leave
  <1>5. ASSUME NEW w \in Pids, ProcessStep(w) PROVE linked' = linked
    <2>1. CASE BootFails(w) \/ Work(w) \/ WorkFails(w) \/ Exit(w)
               \/ FeederLocks(w) \/ FeederSends(w)
      BY <2>1 DEF BootFails, Work, WorkFails, Exit, FeederLocks, FeederSends, ringVars
    <2>2. CASE Boot(w) \/ Poll(w) \/ GetStep(w) \/ GetReturns(w) \/ CloseRing(w)
      BY <2>2 DEF Boot, Poll, GetStep, GetReturns, CloseRing, Ring!Attach, Ring!GetCall,
                  Ring!GetEnter, Ring!Acquire, Ring!GetReadTail, Ring!GetFetch,
                  Ring!GetCommit, Ring!Leave, Ring!Close
    <2>3. CASE Killed(w) \/ Terminated(w)
      BY <2>3 DEF Killed, Terminated, Dies, Ring!Crash, ringVars
    <2>4. QED
      BY <1>5, <2>1, <2>2, <2>3, Zenon DEF ProcessStep, WorkerStep, Feeder
  <1>6. QED
    BY <1>1, <1>2, <1>3, <1>4, <1>5, Steps, Zenon DEF QuietCall

LEMMA SignallingStep ==
  ASSUME ~SpawnMayFail, Coordinator, Lives, Signalling, [Next]_vars
  PROVE  Signalling'
  <1> USE DEF Signalling, Coordinator, Calls
  <1>0. Coordinator' /\ Lives'
    BY CoordinatorStep
  <1>1. CASE Start
    <2>1. /\ cpc' = "spawn" /\ ~stopped' /\ cpc = "idle" /\ ~started
          /\ life' = life /\ signalled' = signalled /\ started' = started
      BY <1>1 DEF Start
    <2>2. QED
      BY <2>1 DEF Alive
  <1>2. CASE Spawn
    <2> DEFINE new == ProcessIds[nproc + 1]
    <2>1. /\ new \in Pids /\ workers' = Append(workers, new)
          /\ \A w \in Pids : Alive(w)' => Alive(w) \/ w = new
          /\ UNCHANGED <<started, cpc, signalled, stopped, linked>> /\ cpc = "spawn"
      BY <1>2, Processes DEF Spawn, Launch, Alive, Lives, ringVars
    <2>2. InSlots(workers) \cup {new} \subseteq InSlots(workers')
      BY <2>1, OneMoreSlot
    <2> HIDE DEF new
    <2>3. QED
      BY <2>1, <2>2
  <1>3. CASE Respawn
    <2> DEFINE new == ProcessIds[nproc + 1]
    <2>1. /\ new \in Pids /\ workers' = [workers EXCEPT ![ci] = new]
          /\ \A w \in Pids : Alive(w)' => Alive(w) \/ w = new
          /\ ~Alive(workers[ci]) /\ ci \in 1 .. Len(workers)
      BY <1>3, Processes DEF Respawn, Crashed, Launch, Alive, Lives
    <2>2. /\ UNCHANGED <<started, signalled, stopped, linked>> /\ started
          /\ cpc' = "check" \/ (cpc' = "term" /\ ci' = 1)
      BY <1>3 DEF Respawn, NextCheck, Goto, ringVars
    <2>3. /\ InSlots(workers) \subseteq InSlots(workers') \cup {workers[ci]}
          /\ new \in InSlots(workers')
      <3> HIDE DEF new
      <3>1. /\ Len(workers') = Len(workers) /\ workers'[ci] = new
            /\ \A i \in 1 .. Len(workers) : i # ci => workers'[i] = workers[i]
        BY <2>1, ExceptSeq
      <3>2. QED
        BY <2>1, <3>1 DEF InSlots
    <2> HIDE DEF new
    <2>4. \A w \in Pids : Alive(w)' => w \in InSlots(workers') \cup signalled
      BY <2>1, <2>2, <2>3
    <2>5. QED
      BY <2>2, <2>4
  <1>4. CASE CleanUp
    <2>1. /\ linked' = FALSE /\ started' = FALSE /\ cpc' = "idle" /\ started /\ cpc = "clean"
          /\ UNCHANGED <<life, signalled>>
      BY <1>4 DEF CleanUp, Ring!Unlink, procVars
    <2>2. \A w \in Pids : Alive(w) => w \in signalled
      BY <2>1 DEF InSlots
    <2>3. QED
      BY <2>1, <2>2 DEF Alive
  <1>5. CASE Terminate
    <2>1. /\ signalled \subseteq signalled'
          /\ Alive(workers[ci]) => workers[ci] \in signalled'
          /\ UNCHANGED <<started, stopped, workers, life, linked, starts>> /\ started
          /\ cpc = "term" /\ ci \in 1 .. Len(workers)
          /\ \/ cpc' = "term" /\ ci' = ci + 1
             \/ cpc' = "clean" /\ ci = Len(workers)
      BY <1>5 DEF Terminate, Goto, ringVars
    <2>2. \A i \in 1 .. ci : Alive(workers[i])' => workers'[i] \in signalled'
      <3>1. ASSUME NEW i \in 1 .. ci, life[workers[i]] = "alive"
            PROVE  workers[i] \in signalled'
        <4>1. CASE i = ci
          BY <2>1, <3>1, <4>1 DEF Alive
        <4>2. CASE i \in 1 .. ci - 1
          BY <2>1, <3>1, <4>2 DEF Alive
        <4>3. QED
          BY <2>1, <3>1, <4>1, <4>2
      <3>2. QED
        BY <2>1, <3>1 DEF Alive
    <2>3. \A w \in Pids : Alive(w)' => w \in InSlots(workers') \cup signalled'
      BY <2>1 DEF Alive
    <2>4. CASE cpc' = "term" /\ ci' = ci + 1
      BY <2>1, <2>2, <2>3, <2>4
    <2>5. CASE cpc' = "clean" /\ ci = Len(workers)
      BY <2>1, <2>2, <2>3, <2>5
    <2>6. QED
      BY <2>1, <2>4, <2>5
  <1>6. CASE QuietCall /\ ~CleanUp /\ ~Terminate
    <2>1. UNCHANGED <<life, signalled, starts, linked>>
      <3>1. linked' = linked
        BY <1>6, Linking DEF QuietCall, Start, Stop, StopNotStarted, DrainResults, Submit,
           SpawnFails, Started, SubmitStep, SubmitReturns, DrainOne, DrainEmpty, Join,
           CheckFine, RespawnFails, RespawnRefused, coordVars
      <3>2. signalled' = signalled
        BY <1>6 DEF QuietCall, Stop, StopNotStarted, DrainResults, Submit, SpawnFails, Started,
           SubmitStep, SubmitReturns, DrainOne, DrainEmpty, Join, CheckFine, RespawnFails,
           RespawnRefused, procVars
      <3>3. QED
        BY <1>6, <3>1, <3>2, QuietFrame
    <2>2. workers' = workers
      BY <1>6 DEF QuietCall, Stop, StopNotStarted, DrainResults, Submit, SpawnFails, Started,
         SubmitStep, SubmitReturns, DrainOne, DrainEmpty, Join, CheckFine, RespawnFails,
         RespawnRefused, coordVars
    <2>3. /\ \A w \in Pids : Alive(w)' <=> Alive(w)
          /\ \A i \in 1 .. Len(workers) : Alive(workers[i])' <=> Alive(workers[i])
      BY <2>1, <2>2 DEF Alive
    <2> USE <2>1, <2>2, <2>3
    <2>4. CASE Stop
      BY <2>4 DEF Stop, Goto
    <2>5. CASE StopNotStarted
      BY <2>5 DEF StopNotStarted
    <2>6. CASE DrainResults
      BY <2>6 DEF DrainResults
    <2>7. CASE \E a \in Addrs : Submit(a)
      BY <2>7 DEF Submit
    <2>8. CASE Started
      BY <2>8 DEF Started
    <2>9. CASE SubmitStep \/ DrainOne
      BY <2>9 DEF SubmitStep, DrainOne, coordVars
    <2>10. CASE SubmitReturns
      BY <2>10 DEF SubmitReturns
    <2>11. CASE DrainEmpty
      BY <2>11 DEF DrainEmpty
    <2>12. CASE Join
      BY <2>12 DEF Join, Goto
    <2>13. CASE CheckFine
      BY <2>13 DEF CheckFine, NextCheck, Goto
    <2>14. CASE RespawnRefused
      BY <2>14 DEF RespawnRefused, NextCheck, Goto
    <2>15. ~SpawnFails /\ ~RespawnFails
      BY DEF SpawnFails, RespawnFails
    <2>16. QED
      BY <1>6, <2>4, <2>5, <2>6, <2>7, <2>8, <2>9, <2>10, <2>11, <2>12, <2>13, <2>14,
         <2>15, Zenon DEF QuietCall
  <1>7. ASSUME NEW w \in Pids, ProcessStep(w)
        PROVE  Signalling'
    <2>1. /\ UNCHANGED <<coordVars, signalled>>
          /\ \A v \in Pids : Alive(v)' => Alive(v)
      BY <1>7, ProcessFrame DEF Alive
    <2>2. linked' = linked
      BY <1>7, <2>1, Linking DEF Start, CleanUp, coordVars
    <2>3. \A i \in 1 .. Len(workers) : workers[i] \in Pids
      OBVIOUS
    <2>4. QED
      BY <2>1, <2>2, <2>3 DEF coordVars
  <1>8. CASE UNCHANGED vars
    BY <1>8 DEF vars, ringVars, coordVars, procVars, Alive
  <1>9. QED
    BY <1>1, <1>2, <1>3, <1>4, <1>5, <1>6, <1>7, <1>8, Steps, Zenon

(* A stop() that returns leaves no shared memory and no process that was   *)
(* not told to end, whoever crashes, hangs or raises: as long as           *)
(* Process.start() does not raise, which leaves the cleaning to nobody.    *)
THEOREM StoppedIsCleanedUp == ~SpawnMayFail => (Spec => []StopCleansUp)
  <1> SUFFICES ASSUME ~SpawnMayFail PROVE Spec => []StopCleansUp
    OBVIOUS
  <1>1. Init => Signalling
    BY DEF Init, Signalling, Alive
  <1>2. Coordinator /\ Lives /\ Signalling /\ [Next]_vars => Signalling'
    BY SignallingStep
  <1>3. Signalling => StopCleansUp
    BY DEF Signalling, StopCleansUp
  <1>4. QED
    BY <1>1, <1>2, <1>3, CoordinatorInvariant, PTL DEF Spec

-----------------------------------------------------------------------------
(* The ring's variables in the hands of the scanner.                       *)

Points == {"detached", "idle", "leave", "putLock", "putTail", "putStore", "putPublish",
           "getLock", "getTail", "getFetch", "getCommit"}
Holders == Pids \cup {Coord}
Cells == 0 .. Capacity - 1

RingTypes ==
  /\ head \in Cells /\ tail \in Cells /\ data \in [Cells -> Addrs \cup {0}]
  /\ pc \in [Holders -> Points]
  /\ lhead \in [Holders -> Cells] /\ ltail \in [Holders -> Cells]
  /\ laddr \in [Holders -> Addrs \cup {0}]
  /\ accepted \in Seq(Addrs) /\ delivered \in Seq(Addrs \cup {0})

LEMMA RingIsTyped == RP!TypeInv => RingTypes
  BY DEF RP!TypeInv, RP!TypeOK, RingTypes, Points, Holders, Cells, RP!Slots, RP!Procs,
         RP!PutPoints, RP!GetPoints

LEMMA RingTypeOK == RP!TypeInv => Ring!TypeOK
  BY DEF RP!TypeInv, RP!TypeOK, Ring!TypeOK, RP!Slots, Ring!Slots, RP!Procs, Ring!Procs,
         RP!Free, Ring!Free, RP!Abandoned, Ring!Abandoned, RP!PutPoints, Ring!PutPoints,
         RP!GetPoints, Ring!GetPoints

LEMMA Sizes == Capacity \in Nat /\ Capacity > 0 /\ 0 \in Cells
  BY RingConstants, RP!CapacityPositive DEF Cells

(* start() makes the ring afresh.                                          *)
LEMMA FreshRing ==
  ASSUME RP!TypeInv, Start
  PROVE  RP!TypeInv' /\ RP!LockInv' /\ RP!DataInv'
  <1>1. /\ head' = 0 /\ tail' = 0 /\ data' = [i \in Cells |-> 0] /\ linked' = TRUE
        /\ lock' = [p \in DOMAIN lock |-> "free"]
        /\ pc' = [p \in DOMAIN pc |-> IF p = Coord THEN "idle" ELSE "detached"]
        /\ accepted' = <<>> /\ delivered' = <<>>
        /\ UNCHANGED <<lhead, ltail, laddr>>
    BY DEF Start, Ring!Free, Cells
  <1>2. DOMAIN lock = Holders /\ DOMAIN pc = Holders
    BY DEF RP!TypeInv, RP!TypeOK, RP!Procs, Holders
  <1>3. \A p \in Holders : pc'[p] = IF p = Coord THEN "idle" ELSE "detached"
    BY <1>1, <1>2
  <1>4. RP!Span(0, 0) = 0 /\ 0 \in RP!Slots
    BY Sizes DEF RP!Span, RP!Slots
  <1>5. RP!TypeInv'
    <2>1. RP!TypeOK'
      <3>1. /\ lock' \in [Holders -> Holders \cup {"free", "abandoned"}]
            /\ pc' \in [Holders -> {"idle", "detached"}]
            /\ data' \in [Cells -> Addrs \cup {0}]
        BY <1>1, <1>2
      <3>2. accepted' \in Seq(Addrs) /\ delivered' \in Seq(Addrs \cup {0})
        BY <1>1, EmptySeq
      <3>3. QED
        BY <1>1, <1>4, <3>1, <3>2
           DEF RP!TypeInv, RP!TypeOK, RP!Free, RP!Abandoned, RP!Procs, RP!Slots, Holders, Cells
    <2>2. RP!CarriesAddress'
      BY <1>3 DEF RP!CarriesAddress, RP!Procs, Holders
    <2>3. QED
      BY <2>1, <2>2 DEF RP!TypeInv
  <1>6. RP!LockInv'
    BY <1>3 DEF RP!LockInv, RP!StepsOfRole, RP!HolderHasLock, RP!Procs, RP!PutPoints,
                RP!GetPoints, RP!Critical, Holders
  <1>7. RP!DataInv'
    <2>1. RP!ProducerView' /\ RP!ConsumerView'
      BY <1>3 DEF RP!ProducerView, RP!ConsumerView, Holders
    <2>2. RP!DeliveredInOrder' /\ RP!RingHoldsPending'
      <3>1. Len(accepted') = 0 /\ Len(delivered') = 0 /\ RP!Span(head', tail') = 0
        BY <1>1, <1>4, EmptySeq
      <3>2. QED
        BY <3>1 DEF RP!DeliveredInOrder, RP!RingHoldsPending
    <2>3. QED
      BY <2>1, <2>2 DEF RP!DataInv
  <1>8. QED
    BY <1>5, <1>6, <1>7

LEMMA RingTypeStep ==
  ASSUME RP!TypeInv, [Next]_vars
  PROVE  RP!TypeInv'
  <1>1. CASE Start
    BY <1>1, FreshRing
  <1>2. CASE [RP!Next]_(RP!vars)
    BY <1>2, RingConstants, RP!TypeStep
  <1>3. QED
    BY <1>1, <1>2, StartOrRingStep

(* The client thread leaves the workers' part of the ring alone, ...       *)
LEMMA CallFrame ==
  ASSUME RingTypes, QuietCall
  PROVE  /\ UNCHANGED <<head, delivered>>
         /\ \A w \in Pids : pc'[w] = pc[w] /\ lhead'[w] = lhead[w] /\ laddr'[w] = laddr[w]
  <1> USE DEF RingTypes, Holders
  <1>0. Coord \notin Pids
    BY Processes
  <1>1. ASSUME NEW a \in Addrs, Submit(a)
        PROVE  /\ UNCHANGED <<head, delivered>>
               /\ \A w \in Pids : pc'[w] = pc[w] /\ lhead'[w] = lhead[w] /\ laddr'[w] = laddr[w]
    BY <1>0, <1>1 DEF Submit, Ring!PutCall, Ring!shared, Ring!history
  <1>2. CASE SubmitStep
    <2>1. CASE Ring!PutEnter(Coord)
      BY <1>0, <2>1 DEF Ring!PutEnter, Ring!Acquire, Ring!shared, Ring!history
    <2>2. CASE Ring!PutReadTail(Coord)
      BY <1>0, <2>2 DEF Ring!PutReadTail, Ring!shared, Ring!history
    <2>3. CASE Ring!PutStore(Coord)
      BY <1>0, <2>3 DEF Ring!PutStore, Ring!locals, Ring!history
    <2>4. CASE Ring!PutPublish(Coord)
      BY <1>0, <2>4 DEF Ring!PutPublish, Ring!locals
    <2>5. QED
      BY <1>2, <2>1, <2>2, <2>3, <2>4 DEF SubmitStep
  <1>3. CASE SubmitReturns
    BY <1>0, <1>3 DEF SubmitReturns, Ring!Leave, Ring!shared, Ring!locals, Ring!history
  <1>4. CASE CleanUp
    BY <1>0, <1>4 DEF CleanUp, Ring!Unlink, Ring!shared, Ring!locals, Ring!history
  <1>5. CASE \/ Stop \/ StopNotStarted \/ DrainResults \/ SpawnFails \/ Started
             \/ DrainOne \/ DrainEmpty \/ Join \/ CheckFine \/ RespawnFails
             \/ RespawnRefused \/ Terminate
    BY <1>5 DEF Stop, StopNotStarted, DrainResults, SpawnFails, Started, DrainOne, DrainEmpty,
                Join, CheckFine, RespawnFails, RespawnRefused, Terminate, ringVars
  <1>6. QED
    BY <1>1, <1>2, <1>3, <1>4, <1>5, Zenon DEF QuietCall

(* ... and a worker leaves the others' alone, and what put() writes.       *)
LEMMA WorkerFrame ==
  ASSUME RingTypes, NEW w \in Pids, ProcessStep(w)
  PROVE  /\ UNCHANGED <<tail, data, accepted>>
         /\ \A p \in Holders \ {w} : /\ pc'[p] = pc[p] /\ lhead'[p] = lhead[p]
                                     /\ ltail'[p] = ltail[p] /\ laddr'[p] = laddr[p]
  <1> USE DEF RingTypes, Holders
  <1>1. CASE Boot(w)
    BY <1>1 DEF Boot, Ring!Attach, Ring!shared, Ring!locals, Ring!history
  <1>2. CASE Poll(w)
    BY <1>2 DEF Poll, Ring!GetCall, Ring!shared, Ring!locals, Ring!history
  <1>3. CASE GetStep(w)
    <2>1. CASE Ring!GetEnter(w)
      BY <2>1 DEF Ring!GetEnter, Ring!Acquire, Ring!shared, Ring!history
    <2>2. CASE Ring!GetReadTail(w)
      BY <2>2 DEF Ring!GetReadTail, Ring!shared, Ring!history
    <2>3. CASE Ring!GetFetch(w)
      BY <2>3 DEF Ring!GetFetch, Ring!shared, Ring!history
    <2>4. CASE Ring!GetCommit(w)
      BY <2>4 DEF Ring!GetCommit, Ring!locals
    <2>5. QED
      BY <1>3, <2>1, <2>2, <2>3, <2>4 DEF GetStep
  <1>4. CASE GetReturns(w)
    BY <1>4 DEF GetReturns, Ring!Leave, Ring!shared, Ring!locals, Ring!history
  <1>5. CASE CloseRing(w)
    BY <1>5 DEF CloseRing, Ring!Close, Ring!shared, Ring!locals, Ring!history
  <1>6. CASE Killed(w) \/ Terminated(w)
    BY <1>6 DEF Killed, Terminated, Dies, Ring!Crash, Ring!shared, Ring!locals, Ring!history,
                ringVars
  <1>7. CASE BootFails(w) \/ Work(w) \/ WorkFails(w) \/ Exit(w)
             \/ FeederLocks(w) \/ FeederSends(w)
    BY <1>7 DEF BootFails, Work, WorkFails, Exit, FeederLocks, FeederSends, ringVars
  <1>8. QED
    BY <1>1, <1>2, <1>3, <1>4, <1>5, <1>6, <1>7, Zenon DEF ProcessStep, WorkerStep, Feeder

-----------------------------------------------------------------------------
(* Where a process is in its loop, and in get().                           *)

Born == \A i \in 1 .. Len(ProcessIds) : life[ProcessIds[i]] = "unborn" <=> i > nproc

InGet == {"getLock", "getTail", "getFetch", "getCommit", "leave"}
InPut == {"putLock", "putTail", "putStore", "putPublish", "leave"}

Posted ==
  /\ hit \in [Pids -> BOOLEAN] /\ draining \in [Pids -> BOOLEAN]
  /\ \A w \in Pids :
       /\ life[w] = "unborn" => wpc[w] = "boot" /\ ~draining[w]
       /\ life[w] \in {"ok", "crashed"} <=> wpc[w] = "gone"
       /\ wpc[w] \in {"boot", "flush", "gone", "stray"} => pc[w] = "detached"
       /\ wpc[w] \in {"ready", "work", "close"} => pc[w] = "idle"
       /\ wpc[w] = "get" => pc[w] \in InGet
  /\ cpc = "submit" => pc[Coord] \in InPut
  /\ cpc # "submit" => pc[Coord] \in {"idle", "detached"}

LEMMA BornStep ==
  ASSUME Coordinator, Lives, Born, [Next]_vars
  PROVE  Born'
  <1>1. ASSUME Launch PROVE Born'
    <2>1. /\ nproc' = nproc + 1 /\ nproc + 1 \in 1 .. Len(ProcessIds)
          /\ life' = [life EXCEPT ![ProcessIds[nproc + 1]] = "alive"]
          /\ life[ProcessIds[nproc + 1]] = "unborn"
      BY <1>1, Processes DEF Launch, Coordinator, Born
    <2>2. ASSUME NEW i \in 1 .. Len(ProcessIds)
          PROVE  life'[ProcessIds[i]] = "unborn" <=> i > nproc'
      <3>1. CASE i = nproc + 1
        BY <2>1, <3>1, Processes DEF Lives
      <3>2. CASE i # nproc + 1
        <4>1. life'[ProcessIds[i]] = life[ProcessIds[i]]
          BY <2>1, <3>2, Processes DEF Lives
        <4>2. i > nproc <=> i > nproc'
          BY <2>1, <3>2 DEF Coordinator
        <4>3. QED
          BY <4>1, <4>2 DEF Born
      <3>3. QED
        BY <3>1, <3>2
    <2>3. QED
      BY <2>2 DEF Born
  <1>2. CASE Start \/ QuietCall \/ UNCHANGED vars
    <2>1. UNCHANGED <<life, nproc>>
      BY <1>2, QuietFrame DEF Start, vars, coordVars, procVars
    <2>2. QED
      BY <2>1 DEF Born
  <1>3. ASSUME NEW w \in Pids, ProcessStep(w) PROVE Born'
    <2>1. /\ nproc' = nproc
          /\ \A v \in Pids : life'[v] = "unborn" <=> life[v] = "unborn"
      BY <1>3, ProcessFrame DEF coordVars, Alive
    <2>2. QED
      BY <2>1, Processes DEF Born
  <1>4. QED
    BY <1>1, <1>2, <1>3, Steps DEF Spawn, Respawn

(* What a launched process finds.                                          *)
LEMMA Launched ==
  ASSUME Coordinator, Lives, Born, Posted, Launch
  PROVE  LET new == ProcessIds[nproc + 1] IN
           /\ new \in Pids /\ life[new] = "unborn" /\ wpc[new] = "boot"
           /\ life' = [life EXCEPT ![new] = "alive"]
  BY Processes DEF Launch, Born, Posted, Coordinator

LEMMA FlagFrame ==
  ASSUME event \in BOOLEAN, Posted, NEW w \in Pids, ProcessStep(w)
  PROVE  /\ hit' \in [Pids -> BOOLEAN] /\ draining' \in [Pids -> BOOLEAN]
         /\ \A v \in Pids \ {w} : draining'[v] = draining[v] /\ hit'[v] = hit[v]
         /\ hit' = hit \/ GetStep(w)
         /\ draining' = draining \/ Poll(w)
  <1> USE DEF Posted
  <1>1. CASE Poll(w)
    BY <1>1 DEF Poll
  <1>2. CASE GetStep(w)
    BY <1>2 DEF GetStep
  <1>3. CASE Boot(w) \/ BootFails(w) \/ GetReturns(w) \/ Work(w) \/ WorkFails(w)
             \/ CloseRing(w) \/ Exit(w)
    BY <1>3 DEF Boot, BootFails, GetReturns, Work, WorkFails, CloseRing, Exit
  <1>4. CASE Feeder(w) \/ Killed(w) \/ Terminated(w)
    BY <1>4 DEF Feeder, FeederLocks, FeederSends, Killed, Terminated, Dies, procVars
  <1>5. QED
    BY <1>1, <1>2, <1>3, <1>4, Zenon DEF ProcessStep, WorkerStep

LEMMA PostedStep ==
  ASSUME Coordinator, Lives, RingTypes, Born, Posted, [Next]_vars
  PROVE  Posted'
  <1>0. Coord \notin Pids
    BY Processes
  <1>1. CASE Start
    <2>1. \A p \in Holders : pc'[p] = IF p = Coord THEN "idle" ELSE "detached"
      BY <1>1 DEF Start, RingTypes
    <2>2. \A w \in Pids : wpc'[w] = IF life[w] = "alive" THEN "stray" ELSE wpc[w]
      BY <1>1 DEF Start, Alive
    <2>3. UNCHANGED <<life, hit, draining>> /\ cpc' = "spawn"
      BY <1>1 DEF Start
    <2>4. QED
      BY <1>0, <2>1, <2>2, <2>3 DEF Posted, Holders, Lives
  <1>2. CASE Spawn \/ Respawn
    <2> DEFINE new == ProcessIds[nproc + 1]
    <2>1. /\ new \in Pids /\ life[new] = "unborn" /\ wpc[new] = "boot"
          /\ life' = [life EXCEPT ![new] = "alive"]
      BY <1>2, Launched DEF Spawn, Respawn
    <2>2. UNCHANGED <<wpc, pc, hit, draining>> /\ cpc # "submit" /\ cpc' # "submit"
      BY <1>2 DEF Spawn, Respawn, NextCheck, Goto, ringVars
    <2> HIDE DEF new
    <2>3. QED
      BY <2>1, <2>2 DEF Posted, Lives
  <1>3. CASE QuietCall
    <2>1. /\ UNCHANGED <<life, wpc, hit, draining>>
          /\ \A w \in Pids : pc'[w] = pc[w]
      BY <1>3, QuietFrame, CallFrame
    <2>2. /\ cpc' = "submit" => pc'[Coord] \in InPut
          /\ cpc' # "submit" => pc'[Coord] \in {"idle", "detached"}
      <3> USE DEF RingTypes, Holders, InPut, Posted
      <3>1. ASSUME NEW a \in Addrs, Submit(a)
            PROVE  cpc' = "submit" /\ pc'[Coord] \in InPut
        BY <3>1 DEF Submit, Ring!PutCall
      <3>2. CASE SubmitStep
        <4>1. cpc = "submit" /\ cpc' = "submit"
          BY <3>2 DEF SubmitStep, coordVars
        <4>2. pc'[Coord] \in InPut
          BY <3>2 DEF SubmitStep, Ring!PutEnter, Ring!Acquire, Ring!PutReadTail,
                      Ring!PutStore, Ring!PutPublish
        <4>3. QED
          BY <4>1, <4>2
      <3>3. CASE SubmitReturns
        BY <3>3 DEF SubmitReturns, Ring!Leave
      <3>4. CASE CleanUp
        BY <3>4 DEF CleanUp, Ring!Unlink
      <3>5. CASE \/ Stop \/ StopNotStarted \/ DrainResults \/ SpawnFails \/ Started
                 \/ DrainOne \/ DrainEmpty
        BY <3>5 DEF Stop, StopNotStarted, DrainResults, SpawnFails, Started,
                    DrainOne, DrainEmpty, Goto, coordVars, ringVars
      <3>6. CASE Join \/ CheckFine \/ RespawnFails \/ RespawnRefused \/ Terminate
        BY <3>6 DEF Join, CheckFine, RespawnFails, RespawnRefused, Terminate, NextCheck,
                    Goto, ringVars
      <3>7. QED
        BY <1>3, <3>1, <3>2, <3>3, <3>4, <3>5, <3>6, Zenon DEF QuietCall
    <2>3. QED
      BY <2>1, <2>2 DEF Posted
  <1>4. ASSUME NEW w \in Pids, ProcessStep(w)
        PROVE  Posted'
    <2>1. /\ cpc' = cpc /\ pc'[Coord] = pc[Coord]
          /\ \A v \in Pids \ {w} : /\ life'[v] = life[v] /\ wpc'[v] = wpc[v]
                                   /\ pc'[v] = pc[v]
          /\ life[w] = "alive" /\ life'[w] \in {"alive", "ok", "crashed"}
      BY <1>0, <1>4, ProcessFrame, WorkerFrame DEF Holders, coordVars, Alive
    <2>2. /\ hit' \in [Pids -> BOOLEAN] /\ draining' \in [Pids -> BOOLEAN]
          /\ \A v \in Pids \ {w} : draining'[v] = draining[v]
      BY <1>4, FlagFrame DEF Coordinator
    <2>3. /\ life'[w] \in {"ok", "crashed"} <=> wpc'[w] = "gone"
          /\ wpc'[w] \in {"boot", "flush", "gone", "stray"} => pc'[w] = "detached"
          /\ wpc'[w] \in {"ready", "work", "close"} => pc'[w] = "idle"
          /\ wpc'[w] = "get" => pc'[w] \in InGet
      <3> USE DEF Lives, RingTypes, Holders, Posted, Worker, Alive, InGet
      <3>1. CASE Boot(w)
        BY <2>1, <3>1 DEF Boot, Ring!Attach
      <3>2. CASE BootFails(w)
        BY <2>1, <3>2 DEF BootFails, ringVars
      <3>3. CASE Poll(w)
        BY <2>1, <3>3 DEF Poll, Ring!GetCall
      <3>4. CASE GetStep(w)
        BY <2>1, <3>4 DEF GetStep, Ring!GetEnter, Ring!Acquire, Ring!GetReadTail,
                          Ring!GetFetch, Ring!GetCommit
      <3>5. CASE GetReturns(w)
        BY <2>1, <3>5 DEF GetReturns, Ring!Leave
      <3>6. CASE Work(w)
        BY <2>1, <3>6 DEF Work, ringVars
      <3>7. CASE WorkFails(w)
        BY <2>1, <3>7 DEF WorkFails, ringVars
      <3>8. CASE CloseRing(w)
        BY <2>1, <3>8 DEF CloseRing, Ring!Close
      <3>9. CASE Exit(w)
        BY <2>1, <3>9 DEF Exit, ringVars
      <3>10. CASE Feeder(w)
        BY <2>1, <3>10 DEF Feeder, FeederLocks, FeederSends, procVars, ringVars
      <3>11. CASE Killed(w) \/ Terminated(w)
        BY <2>1, <3>11 DEF Killed, Terminated, Dies, Ring!Crash, ringVars
      <3>12. QED
        BY <1>4, <3>1, <3>2, <3>3, <3>4, <3>5, <3>6, <3>7, <3>8, <3>9, <3>10, <3>11, Zenon
           DEF ProcessStep, WorkerStep
    <2>4. QED
      BY <2>1, <2>2, <2>3 DEF Posted
  <1>5. CASE UNCHANGED vars
    BY <1>5 DEF vars, ringVars, coordVars, procVars, Posted
  <1>6. QED
    BY <1>1, <1>2, <1>3, <1>4, <1>5, Steps, Zenon

-----------------------------------------------------------------------------
(* Only addresses come out of the ring, although the workers race for      *)
(* them: a slot is never read before put() has written it.                 *)

Wrapped == \A i \in Cells : data[i] \in Addrs
NotYet ==
  /\ \A i \in Cells : i < tail => data[i] \in Addrs
  /\ head <= tail
  /\ \A w \in Pids :
       /\ pc[w] \in {"getTail", "getFetch", "getCommit"} => lhead[w] <= tail
       /\ pc[w] \in {"getFetch", "getCommit"} => lhead[w] < tail
Written == Wrapped \/ NotYet

Putting ==
  /\ pc[Coord] \in {"putStore", "putPublish"} => ltail[Coord] = tail
  /\ pc[Coord] = "putPublish" => data[tail] \in Addrs
  /\ pc[Coord] \in {"putLock", "putTail", "putStore", "putPublish"} => laddr[Coord] \in Addrs

(* A worker has an address it has not processed yet.                       *)
Pending(w) == wpc[w] = "work" \/ (wpc[w] = "get" /\ pc[w] = "leave" /\ hit[w])

Fetched == \A w \in Pids : pc[w] = "getCommit" \/ Pending(w) => laddr[w] \in Addrs

LEMMA Wraps ==
  ASSUME NEW i \in Cells
  PROVE  Ring!Succ(i) = IF i + 1 = Capacity THEN 0 ELSE i + 1
  <1>1. i \in RP!Slots
    BY DEF Cells, RP!Slots
  <1>2. RP!Succ(i) = IF i + 1 = Capacity THEN 0 ELSE i + 1
    BY <1>1, RingConstants, RP!SuccWraps
  <1>3. QED
    BY <1>2 DEF RP!Succ, Ring!Succ

LEMMA PuttingStep ==
  ASSUME Coordinator, Lives, RingTypes, Posted, Putting, [Next]_vars
  PROVE  Putting'
  <1> USE DEF RingTypes, Holders
  <1>0. Coord \notin Pids
    BY Processes
  <1>1. CASE Start
    BY <1>1 DEF Start, Putting
  <1>2. ASSUME UNCHANGED ringVars PROVE Putting'
    BY <1>2 DEF ringVars, Putting
  <1>3. ASSUME NEW a \in Addrs, Submit(a) PROVE Putting'
    BY <1>3 DEF Submit, Ring!PutCall, Putting
  <1>4. CASE SubmitStep
    <2>1. CASE Ring!PutEnter(Coord)
      BY <2>1 DEF Ring!PutEnter, Ring!Acquire, Ring!shared, Putting
    <2>2. CASE Ring!PutReadTail(Coord)
      BY <2>2 DEF Ring!PutReadTail, Ring!shared, Putting
    <2>3. CASE Ring!PutStore(Coord)
      BY <2>3 DEF Ring!PutStore, Ring!locals, Putting
    <2>4. CASE Ring!PutPublish(Coord)
      BY <2>4 DEF Ring!PutPublish, Putting
    <2>5. QED
      BY <1>4, <2>1, <2>2, <2>3, <2>4 DEF SubmitStep
  <1>5. CASE SubmitReturns
    BY <1>5 DEF SubmitReturns, Ring!Leave, Putting
  <1>6. CASE CleanUp
    BY <1>6 DEF CleanUp, Ring!Unlink, Putting
  <1>7. ASSUME NEW w \in Pids, ProcessStep(w) PROVE Putting'
    <2>1. /\ UNCHANGED <<tail, data>> /\ pc'[Coord] = pc[Coord]
          /\ ltail'[Coord] = ltail[Coord] /\ laddr'[Coord] = laddr[Coord]
      BY <1>0, <1>7, WorkerFrame
    <2>2. QED
      BY <2>1 DEF Putting
  <1>8. ASSUME \/ Stop \/ StopNotStarted \/ DrainResults \/ SpawnFails \/ Started
               \/ DrainOne \/ DrainEmpty \/ Join \/ CheckFine \/ RespawnFails
               \/ RespawnRefused \/ Terminate \/ Spawn \/ Respawn \/ UNCHANGED vars
        PROVE  UNCHANGED ringVars
    BY <1>8 DEF Stop, StopNotStarted, DrainResults, SpawnFails, Started, DrainOne, DrainEmpty,
                Join, CheckFine, RespawnFails, RespawnRefused, Terminate, Spawn, Respawn, vars
  <1>9. QED
    BY <1>1, <1>2, <1>3, <1>4, <1>5, <1>6, <1>7, <1>8, Steps, Zenon DEF QuietCall

(* A step that moves nobody on inside get().                               *)
LEMMA WrittenFrame ==
  ASSUME Written, UNCHANGED <<head, tail, data>>,
         \A w \in Pids : pc'[w] \in {"getTail", "getFetch", "getCommit"} =>
           pc'[w] = pc[w] /\ lhead'[w] = lhead[w]
  PROVE  Written'
  BY DEF Written, Wrapped, NotYet

LEMMA WrittenStep ==
  ASSUME Coordinator, Lives, RingTypes, Posted, Putting, Written, [Next]_vars
  PROVE  Written'
  <1> USE DEF RingTypes, Holders
  <1>0. Coord \notin Pids /\ Capacity \in Nat /\ Capacity > 0
    BY Processes, Sizes
  <1>1. CASE Start
    <2>1. /\ head' = 0 /\ tail' = 0
          /\ \A p \in Pids : pc'[p] = "detached"
      BY <1>0, <1>1 DEF Start
    <2>2. QED
      BY <2>1 DEF Written, NotYet, Cells
  <1>2. CASE Spawn \/ Respawn \/ UNCHANGED vars
    BY <1>2, WrittenFrame DEF Spawn, Respawn, vars, ringVars
  <1>3. CASE QuietCall
    <2>1. /\ head' = head
          /\ \A w \in Pids : pc'[w] = pc[w] /\ lhead'[w] = lhead[w]
      BY <1>3, CallFrame
    <2>2. ASSUME SubmitStep /\ Ring!PutStore(Coord)
          PROVE  Written'
      <3>1. /\ data' = [data EXCEPT ![tail] = laddr[Coord]] /\ laddr[Coord] \in Addrs
            /\ tail' = tail
        BY <2>2 DEF Ring!PutStore, Ring!locals, Putting
      <3>2. QED
        BY <2>1, <3>1 DEF Written, Wrapped, NotYet
    <2>3. ASSUME SubmitStep /\ Ring!PutPublish(Coord)
          PROVE  Written'
      <3>1. /\ data' = data /\ data[tail] \in Addrs
            /\ tail' = IF tail + 1 = Capacity THEN 0 ELSE tail + 1
        BY <2>3, Wraps DEF Ring!PutPublish, Putting
      <3>2. CASE Wrapped
        BY <3>1, <3>2 DEF Written, Wrapped
      <3>3. CASE NotYet /\ tail + 1 = Capacity
        BY <1>0, <3>1, <3>3 DEF Written, Wrapped, NotYet, Cells
      <3>4. CASE NotYet /\ tail + 1 # Capacity
        <4>1. \A i \in Cells : i < tail' => data'[i] \in Addrs
          BY <3>1, <3>4 DEF NotYet, Cells
        <4>2. tail' = tail + 1 /\ tail \in Nat /\ head \in Nat
          BY <1>0, <3>1, <3>4 DEF Cells
        <4>3. \A w \in Pids : lhead[w] \in Nat
          BY <1>0 DEF Cells
        <4>4. QED
          BY <2>1, <3>4, <4>1, <4>2, <4>3 DEF Written, NotYet
      <3>5. QED
        BY <3>2, <3>3, <3>4 DEF Written
    <2>4. ASSUME UNCHANGED <<tail, data>>
          PROVE  Written'
      BY <2>1, <2>4, WrittenFrame
    <2>5. ASSUME QuietCall, ~(SubmitStep /\ (Ring!PutStore(Coord) \/ Ring!PutPublish(Coord)))
          PROVE  UNCHANGED <<tail, data>>
      <3>1. CASE \E a \in Addrs : Submit(a)
        BY <3>1 DEF Submit, Ring!PutCall, Ring!shared
      <3>2. CASE SubmitStep \/ SubmitReturns \/ CleanUp
        BY <2>5, <3>2 DEF SubmitStep, SubmitReturns, CleanUp, Ring!PutEnter, Ring!Acquire,
           Ring!PutReadTail, Ring!Leave, Ring!Unlink, Ring!shared
      <3>3. CASE \/ Stop \/ StopNotStarted \/ DrainResults \/ SpawnFails \/ Started
                 \/ DrainOne \/ DrainEmpty \/ Join \/ CheckFine \/ RespawnFails
                 \/ RespawnRefused \/ Terminate
        BY <3>3 DEF Stop, StopNotStarted, DrainResults, SpawnFails, Started, DrainOne,
           DrainEmpty, Join, CheckFine, RespawnFails, RespawnRefused, Terminate, ringVars
      <3>4. QED
        BY <2>5, <3>1, <3>2, <3>3, Zenon DEF QuietCall
    <2>6. QED
      BY <1>3, <2>2, <2>3, <2>4, <2>5
  <1>4. ASSUME NEW w \in Pids, ProcessStep(w) PROVE Written'
    <2>1. /\ UNCHANGED <<tail, data>>
          /\ \A v \in Pids \ {w} : pc'[v] = pc[v] /\ lhead'[v] = lhead[v]
      BY <1>4, WorkerFrame
    <2>2. CASE GetStep(w)
      <3>1. CASE Ring!GetEnter(w)
        <4>1. head' = head /\ lhead'[w] = head /\ pc'[w] = "getTail"
          BY <3>1 DEF Ring!GetEnter, Ring!Acquire, Ring!shared
        <4>2. QED
          BY <2>1, <4>1 DEF Written, Wrapped, NotYet
      <3>2. CASE Ring!GetReadTail(w)
        <4>1. /\ head' = head /\ lhead'[w] = lhead[w] /\ pc[w] = "getTail"
              /\ pc'[w] = IF lhead[w] = tail THEN "leave" ELSE "getFetch"
          BY <3>2 DEF Ring!GetReadTail, Ring!shared
        <4>2. lhead[w] \in Nat /\ tail \in Nat
          BY <1>0 DEF Cells
        <4>3. QED
          BY <2>1, <4>1, <4>2 DEF Written, Wrapped, NotYet
      <3>3. CASE Ring!GetFetch(w)
        <4>1. /\ head' = head /\ lhead'[w] = lhead[w]
              /\ pc[w] = "getFetch" /\ pc'[w] = "getCommit"
          BY <3>3 DEF Ring!GetFetch, Ring!shared
        <4>2. QED
          BY <2>1, <4>1 DEF Written, Wrapped, NotYet
      <3>4. CASE Ring!GetCommit(w)
        <4>1. /\ head' = IF lhead[w] + 1 = Capacity THEN 0 ELSE lhead[w] + 1
              /\ pc[w] = "getCommit" /\ pc'[w] = "leave"
          BY <3>4, Wraps DEF Ring!GetCommit
        <4>2. lhead[w] \in Nat /\ tail \in Nat
          BY <1>0 DEF Cells
        <4>3. QED
          BY <2>1, <4>1, <4>2 DEF Written, Wrapped, NotYet
      <3>5. QED
        BY <2>2, <3>1, <3>2, <3>3, <3>4 DEF GetStep
    <2>3. CASE ~GetStep(w)
      <3>1. /\ head' = head
            /\ pc'[w] \in {"getTail", "getFetch", "getCommit"} =>
                 pc'[w] = pc[w] /\ lhead'[w] = lhead[w]
        <4>1. CASE Boot(w) \/ Poll(w) \/ GetReturns(w) \/ CloseRing(w)
          BY <4>1 DEF Boot, Poll, GetReturns, CloseRing, Ring!Attach, Ring!GetCall,
             Ring!Leave, Ring!Close, Ring!shared
        <4>2. CASE Killed(w) \/ Terminated(w)
          BY <4>2 DEF Killed, Terminated, Dies, Ring!Crash, Ring!shared, ringVars
        <4>3. CASE BootFails(w) \/ Work(w) \/ WorkFails(w) \/ Exit(w)
                   \/ FeederLocks(w) \/ FeederSends(w)
          BY <4>3 DEF BootFails, Work, WorkFails, Exit, FeederLocks, FeederSends, ringVars
        <4>4. QED
          BY <1>4, <2>3, <4>1, <4>2, <4>3, Zenon DEF ProcessStep, WorkerStep, Feeder
      <3>2. QED
        BY <2>1, <3>1, WrittenFrame
    <2>4. QED
      BY <2>2, <2>3
  <1>5. QED
    BY <1>1, <1>2, <1>3, <1>4, Steps, Zenon

LEMMA PendingFrame ==
  ASSUME Coordinator, Lives, RingTypes, Posted, NEW w \in Pids, ProcessStep(w)
  PROVE  /\ \A v \in Pids \ {w} : Pending(v)' = Pending(v) /\ laddr'[v] = laddr[v]
         /\ \/ Pending(w)' => Pending(w) /\ laddr'[w] = laddr[w]
            \/ GetStep(w) /\ Ring!GetCommit(w)
  <1> USE DEF RingTypes, Holders, Pending
  <1>1. \A v \in Pids \ {w} : /\ pc'[v] = pc[v] /\ laddr'[v] = laddr[v]
                              /\ wpc'[v] = wpc[v] /\ hit'[v] = hit[v]
    BY WorkerFrame, ProcessFrame, FlagFrame DEF Coordinator
  <1>2. CASE GetStep(w)
    <2>1. wpc'[w] = "get" /\ hit'[w] = (pc[w] = "getCommit")
      BY <1>2 DEF GetStep, Worker, Lives, Posted
    <2>2. pc[w] # "getCommit" \/ Ring!GetCommit(w)
      BY <1>2 DEF GetStep, Ring!GetEnter, Ring!Acquire, Ring!GetReadTail, Ring!GetFetch
    <2>3. QED
      BY <1>1, <1>2, <2>1, <2>2
  <1>3. CASE GetReturns(w)
    <2>1. /\ pc[w] = "leave" /\ pc'[w] = "idle" /\ laddr' = laddr /\ wpc[w] = "get"
          /\ wpc'[w] = "work" <=> hit[w]
          /\ wpc'[w] # "get"
      BY <1>3 DEF GetReturns, Ring!Leave, Ring!locals, Worker, Lives
    <2>2. QED
      BY <1>1, <2>1
  <1>4. CASE Boot(w) \/ Poll(w) \/ CloseRing(w) \/ BootFails(w)
    BY <1>1, <1>4 DEF Boot, Poll, CloseRing, BootFails, Ring!Attach, Ring!GetCall,
       Ring!Close, Worker, Lives, ringVars
  <1>5. CASE Work(w) \/ WorkFails(w) \/ Exit(w)
    BY <1>1, <1>5 DEF Work, WorkFails, Exit, Worker, Lives, ringVars
  <1>6. CASE Feeder(w)
    BY <1>1, <1>6 DEF Feeder, FeederLocks, FeederSends, ringVars, procVars
  <1>7. CASE Killed(w) \/ Terminated(w)
    BY <1>1, <1>7 DEF Killed, Terminated, Dies, Ring!Crash, ringVars, Lives
  <1>8. QED
    BY <1>2, <1>3, <1>4, <1>5, <1>6, <1>7, Zenon DEF ProcessStep, WorkerStep

(* After start() no process has an address to work on.                     *)
LEMMA StartFrame ==
  ASSUME Lives, RingTypes, Posted, Start
  PROVE  \A w \in Pids : pc'[w] = "detached" /\ ~Pending(w)'
  <1>1. \A p \in Pids : pc'[p] = "detached"
    BY Processes DEF Start, RingTypes, Holders
  <1>2. ASSUME NEW w \in Pids, wpc'[w] = "work" PROVE FALSE
    <2>1. life[w] # "alive" /\ wpc[w] = "work"
      BY <1>2 DEF Start, Alive, Lives
    <2>2. QED
      BY <2>1 DEF Lives, Posted
  <1>3. QED
    BY <1>1, <1>2 DEF Pending

LEMMA FetchedStep ==
  ASSUME Coordinator, Lives, RingTypes, Born, Posted, Written, Fetched, [Next]_vars
  PROVE  Fetched'
  <1> USE DEF RingTypes, Holders
  <1>0. Coord \notin Pids
    BY Processes
  <1>1. CASE Start
    BY <1>1, StartFrame DEF Fetched
  <1>2. CASE Spawn \/ Respawn \/ UNCHANGED vars
    BY <1>2 DEF Spawn, Respawn, vars, ringVars, procVars, Fetched, Pending
  <1>3. CASE QuietCall
    BY <1>3, QuietFrame, CallFrame DEF Fetched, Pending
  <1>4. ASSUME NEW w \in Pids, ProcessStep(w) PROVE Fetched'
    <2>1. \A v \in Pids \ {w} : pc'[v] = pc[v]
      BY <1>4, WorkerFrame
    <2>2. CASE GetStep(w) /\ Ring!GetCommit(w)
      <3>1. laddr' = laddr /\ pc[w] = "getCommit"
        BY <2>2 DEF Ring!GetCommit, Ring!locals
      <3>2. QED
        BY <1>4, <2>1, <3>1, PendingFrame DEF Fetched
    <2>3. CASE GetStep(w) /\ Ring!GetFetch(w)
      <3>1. laddr'[w] = data[lhead[w]] /\ pc[w] = "getFetch"
        BY <2>3 DEF Ring!GetFetch
      <3>2. laddr'[w] \in Addrs
        BY <3>1 DEF Written, Wrapped, NotYet
      <3>3. QED
        BY <1>4, <2>1, <3>2, PendingFrame DEF Fetched
    <2>4. CASE ~(GetStep(w) /\ (Ring!GetCommit(w) \/ Ring!GetFetch(w)))
      <3>1. pc'[w] # "getCommit" \/ UNCHANGED <<pc, laddr>>
        <4>1. CASE GetStep(w)
          BY <2>4, <4>1 DEF GetStep, Ring!GetEnter, Ring!Acquire, Ring!GetReadTail
        <4>2. CASE Boot(w) \/ Poll(w) \/ CloseRing(w) \/ GetReturns(w)
          BY <4>2 DEF Boot, Poll, CloseRing, GetReturns, Ring!Attach, Ring!GetCall,
             Ring!Close, Ring!Leave
        <4>3. CASE BootFails(w) \/ Work(w) \/ WorkFails(w) \/ Exit(w)
                   \/ FeederLocks(w) \/ FeederSends(w)
          BY <4>3 DEF BootFails, Work, WorkFails, Exit, FeederLocks, FeederSends, ringVars
        <4>4. CASE Killed(w) \/ Terminated(w)
          BY <4>4 DEF Killed, Terminated, Dies, Ring!Crash, ringVars
        <4>5. QED
          BY <1>4, <4>1, <4>2, <4>3, <4>4, Zenon DEF ProcessStep, WorkerStep, Feeder
      <3>2. QED
        BY <1>4, <2>1, <2>4, <3>1, PendingFrame DEF Fetched
    <2>5. QED
      BY <2>2, <2>3, <2>4
  <1>5. QED
    BY <1>1, <1>2, <1>3, <1>4, Steps, Zenon

-----------------------------------------------------------------------------
(* The result queue.                                                       *)

Candidates == Addrs \X Nat

Queue ==
  /\ buffer \in [Pids -> Seq(Candidates)] /\ wlock \in Pids \cup {NoOne}
  /\ pipe \in Seq(Candidates) /\ Len(pipe) <= PipeSize
  /\ processed \in Seq(Addrs)
  /\ \A w \in Pids :
       /\ ~Alive(w) \/ wpc[w] = "stray" => buffer[w] = <<>>
       /\ wlock = w => life[w] # "unborn" /\ (Alive(w) => buffer[w] # <<>>)

LEMMA ResultsAreCandidates ==
  ASSUME NEW a \in Addrs
  PROVE  Results(a) \in Seq(Candidates)
  <1>1. Hits[a] \in Nat
    BY ScannerAssumption
  <1>2. \A i \in 1 .. Hits[a] : <<a, i>> \in Candidates
    BY <1>1 DEF Candidates
  <1>3. QED
    BY <1>1, <1>2 DEF Results

LEMMA QueueStep ==
  ASSUME Coordinator, Lives, Born, RingTypes, Posted, Fetched, Queue, [Next]_vars
  PROVE  Queue'
  <1>0. NoOne \notin Pids /\ PipeSize \in Nat \ {0}
    BY Processes, ScannerAssumption
  <1>00. /\ <<>> \in Seq(Candidates) /\ <<>> \in Seq(Addrs) /\ Len(<<>>) = 0
    BY EmptySeq
  <1>1. CASE Start
    <2>1. /\ buffer' = [w \in Pids |-> <<>>] /\ wlock' = NoOne /\ pipe' = <<>>
          /\ processed' = <<>>
      BY <1>1 DEF Start
    <2>2. QED
      BY <1>0, <1>00, <2>1 DEF Queue
  <1>2. CASE Spawn \/ Respawn
    <2> DEFINE new == ProcessIds[nproc + 1]
    <2>1. /\ new \in Pids /\ life[new] = "unborn" /\ life' = [life EXCEPT ![new] = "alive"]
      BY <1>2, Launched DEF Spawn, Respawn
    <2>2. UNCHANGED <<buffer, wlock, pipe, processed, wpc>>
      BY <1>2 DEF Spawn, Respawn, queueVars
    <2> HIDE DEF new
    <2>3. QED
      BY <2>1, <2>2 DEF Queue, Alive, Lives
  <1>3. CASE QuietCall
    <2>1. UNCHANGED <<buffer, wlock, processed, life, wpc>>
      BY <1>3, QuietFrame
    <2>2. CASE DrainOne
      <3>1. pipe # <<>> /\ pipe' = Tail(pipe)
        BY <2>2 DEF DrainOne
      <3>2. pipe' \in Seq(Candidates) /\ Len(pipe') <= PipeSize
        BY <1>0, <3>1 DEF Queue
      <3>3. QED
        BY <2>1, <3>2 DEF Queue, Alive
    <2>3. CASE ~DrainOne
      <3>1. pipe' = pipe
        BY <1>3, <2>3 DEF QuietCall, Stop, StopNotStarted, DrainResults, Submit, SpawnFails,
           Started, SubmitStep, SubmitReturns, DrainEmpty, Join, CheckFine, RespawnFails,
           RespawnRefused, Terminate, CleanUp, queueVars
      <3>2. QED
        BY <2>1, <3>1 DEF Queue, Alive
    <2>4. QED
      BY <2>2, <2>3
  <1>4. ASSUME NEW w \in Pids, ProcessStep(w) PROVE Queue'
    <2>1. /\ \A v \in Pids \ {w} : life'[v] = life[v] /\ wpc'[v] = wpc[v]
          /\ life[w] = "alive" /\ life'[w] # "unborn"
      BY <1>4, ProcessFrame DEF Alive
    <2>2. CASE Work(w)
      <3>1. /\ wpc[w] = "work" /\ wpc'[w] = "ready" /\ UNCHANGED <<life, wlock, pipe>>
            /\ buffer' = [buffer EXCEPT ![w] = @ \o Results(laddr[w])]
            /\ processed' = Append(processed, laddr[w])
        BY <2>2 DEF Work, Worker, Lives
      <3>2. laddr[w] \in Addrs
        BY <3>1 DEF Fetched, Pending
      <3>3. processed' \in Seq(Addrs)
        BY <3>1, <3>2, AppendProperties DEF Queue
      <3>4. Results(laddr[w]) \in Seq(Candidates)
        BY <3>2, ResultsAreCandidates
      <3>5. /\ buffer[w] \o Results(laddr[w]) \in Seq(Candidates)
            /\ buffer[w] # <<>> => buffer[w] \o Results(laddr[w]) # <<>>
        <4>1. buffer[w] \in Seq(Candidates)
          BY DEF Queue
        <4>2. QED
          BY <3>4, <4>1, ConcatProperties, ConcatEqualIffEmpty
      <3>6. \A v \in Pids : buffer'[v] = IF v = w THEN buffer[w] \o Results(laddr[w]) ELSE buffer[v]
        BY <3>1 DEF Queue
      <3>7. buffer' \in [Pids -> Seq(Candidates)]
        BY <3>1, <3>5 DEF Queue
      <3> HIDE DEF Results
      <3>8. QED
        BY <2>1, <3>1, <3>3, <3>5, <3>6, <3>7 DEF Queue, Alive
    <2>3. CASE FeederLocks(w)
      BY <2>1, <2>3 DEF FeederLocks, procVars, Queue, Alive
    <2>4. CASE FeederSends(w)
      <3>1. /\ wlock = w /\ buffer[w] # <<>> /\ wlock' = NoOne /\ Len(pipe) < PipeSize
            /\ pipe' = Append(pipe, Head(buffer[w]))
            /\ buffer' = [buffer EXCEPT ![w] = Tail(@)]
            /\ UNCHANGED <<processed, life, wpc>>
        BY <2>4 DEF FeederSends, procVars, Queue
      <3>2. buffer[w] \in Seq(Candidates)
        BY DEF Queue
      <3>3. Head(buffer[w]) \in Candidates /\ Tail(buffer[w]) \in Seq(Candidates)
        BY <3>1, <3>2
      <3>4. pipe' \in Seq(Candidates) /\ Len(pipe') <= PipeSize
        BY <1>0, <3>1, <3>3, AppendProperties DEF Queue
      <3>5. /\ buffer' \in [Pids -> Seq(Candidates)]
            /\ \A v \in Pids \ {w} : buffer'[v] = buffer[v]
        BY <3>1, <3>3 DEF Queue
      <3>6. life[w] = "alive" /\ wpc[w] # "stray"
        BY <2>1, <3>1 DEF Queue, Alive
      <3>7. QED
        BY <1>0, <2>1, <3>1, <3>4, <3>5, <3>6 DEF Queue, Alive
    <2>5. CASE Killed(w) \/ Terminated(w)
      <3>1. /\ buffer' = [buffer EXCEPT ![w] = <<>>] /\ UNCHANGED <<processed, wlock, pipe>>
            /\ life'[w] = "crashed"
        BY <2>5 DEF Killed, Terminated, Dies, Lives
      <3>2. QED
        BY <1>00, <2>1, <3>1 DEF Queue, Alive
    <2>6. CASE Exit(w)
      BY <2>1, <2>6 DEF Exit, Worker, Lives, Queue, Alive, queueVars
    <2>7. CASE Boot(w) \/ BootFails(w) \/ Poll(w) \/ GetStep(w) \/ GetReturns(w)
               \/ WorkFails(w) \/ CloseRing(w)
      <3>1. /\ UNCHANGED <<buffer, wlock, pipe, processed, life>>
            /\ wpc'[w] # "stray"
        BY <2>7 DEF Boot, BootFails, Poll, GetStep, GetReturns, WorkFails, CloseRing, Worker,
                    Lives, queueVars
      <3>2. QED
        BY <2>1, <3>1 DEF Queue, Alive
    <2>8. QED
      BY <1>4, <2>2, <2>3, <2>4, <2>5, <2>6, <2>7, Zenon DEF ProcessStep, WorkerStep, Feeder
  <1>5. CASE UNCHANGED vars
    BY <1>5 DEF vars, procVars, queueVars, Queue, Alive
  <1>6. QED
    BY <1>1, <1>2, <1>3, <1>4, <1>5, Steps, Zenon

-----------------------------------------------------------------------------
(* Type correctness.                                                       *)

Base == Coordinator /\ Lives /\ RP!TypeInv /\ Born /\ Posted

Typed == Putting /\ Written /\ Fetched /\ Queue

LEMMA BaseInvariant == Spec => []Base
  <1>1. Init => Base
    <2> SUFFICES ASSUME Init PROVE Base
      OBVIOUS
    <2>1. RP!TypeInv
      <3>1. RP!Init
        BY DEF Init, Ring!Init, RP!Init, Ring!Slots, RP!Slots, Ring!Procs, RP!Procs,
               Ring!Free, RP!Free
      <3>2. QED
        BY <3>1, RingConstants, RP!TypeInit
    <2>2. Born
      BY Processes DEF Init, Born
    <2>3. Posted
      BY Processes DEF Init, Ring!Init, Ring!Procs, Posted
    <2>4. QED
      BY <2>1, <2>2, <2>3, CoordinatorInit DEF Base
  <1>2. Base /\ [Next]_vars => Base'
    BY CoordinatorStep, RingTypeStep, RingIsTyped, BornStep, PostedStep DEF Base
  <1>3. QED
    BY <1>1, <1>2, PTL DEF Spec

LEMMA TypedInvariant == Spec => []Typed
  <1>1. Init => Typed
    <2> SUFFICES ASSUME Init PROVE Typed
      OBVIOUS
    <2>1. /\ head = 0 /\ tail = 0
          /\ \A w \in Pids : pc[w] = "detached"
          /\ pc[Coord] = "idle"
      BY Processes DEF Init, Ring!Init, Ring!Procs
    <2>2. Putting
      BY <2>1 DEF Putting
    <2>3. Written
      BY <2>1 DEF Written, NotYet, Cells
    <2>4. Fetched
      BY <2>1 DEF Init, Fetched, Pending
    <2>5. Queue
      <3>1. <<>> \in Seq(Candidates) /\ <<>> \in Seq(Addrs) /\ Len(<<>>) = 0
        BY EmptySeq
      <3>2. PipeSize \in Nat /\ NoOne \notin Pids
        BY Processes, ScannerAssumption
      <3>3. /\ buffer = [w \in Pids |-> <<>>] /\ wlock = NoOne /\ pipe = <<>>
            /\ processed = <<>> /\ life = [w \in Pids |-> "unborn"]
        BY DEF Init
      <3>4. QED
        BY <3>1, <3>2, <3>3 DEF Queue, Alive
    <2>6. QED
      BY <2>2, <2>3, <2>4, <2>5 DEF Typed
  <1>2. Base /\ Typed /\ [Next]_vars => Typed'
    BY RingIsTyped, PuttingStep, WrittenStep, FetchedStep, QueueStep DEF Base, Typed
  <1>3. QED
    BY <1>1, <1>2, BaseInvariant, PTL DEF Spec

(* Variables keep their types, for any number of racing workers: indices   *)
(* stay inside the ring and the worker list, the pipe holds no more than   *)
(* it can, and only submitted addresses are processed, never the zeros of  *)
(* a slot that put() has not written.                                      *)
THEOREM ScannerTypes == Spec => []TypeOK
  <1>1. Base /\ Typed => TypeOK
    <2> SUFFICES ASSUME Base, Typed PROVE TypeOK
      OBVIOUS
    <2>1. Ring!TypeOK
      BY RingTypeOK DEF Base
    <2>2. ToSet(workers) \subseteq Pids /\ ToSet(processed) \subseteq Addrs
      BY DEF Base, Typed, Coordinator, Queue, ToSet
    <2>3. QED
      BY <2>1, <2>2 DEF Base, Typed, Coordinator, Lives, Queue, Calls, TypeOK
  <1>2. QED
    BY <1>1, BaseInvariant, TypedInvariant, PTL

-----------------------------------------------------------------------------
(* One worker slot: the ring is a queue, and its only reader processes     *)
(* what it takes before it takes more.                                     *)

LEMMA OneActive ==
  ASSUME NumWorkers = 1, Team, NEW v \in Active, NEW w \in Active
  PROVE  v = w
  <1>1. IsFiniteSet(Active)
    BY Processes, FS_Subset, Zenon DEF Active
  <1>2. Cardinality(Active) \in Nat /\ Cardinality(Active) <= 1
    BY <1>1, FS_CardinalityType DEF Team
  <1>3. Cardinality(Active) # 0
    BY <1>1, FS_EmptySet, Zenon
  <1>4. Cardinality(Active) = 1
    BY <1>2, <1>3
  <1>5. PICK x : Active = {x}
    BY <1>1, <1>4, FS_Singleton, Zenon
  <1>6. QED
    BY <1>5

(* A worker inside get(), or with an address in hand, is active.           *)
LEMMA Inside ==
  ASSUME Lives, Posted, NEW w \in Pids,
         wpc[w] \in {"ready", "get", "work", "close"} \/ pc[w] # "detached" \/ Pending(w)
  PROVE  w \in Active
  BY DEF Lives, Posted, Active, Alive, Pending

Data == RP!LockInv /\ RP!DataInv

LEMMA DataStepOfOne ==
  ASSUME NumWorkers = 1, Base, Team, Data, [Next]_vars
  PROVE  Data'
  <1>1. CASE Start
    BY <1>1, FreshRing DEF Base, Data
  <1>2. CASE [RP!Next]_(RP!vars)
    <2>1. RP!Exclusive
      <3>1. ASSUME NEW p \in Pids, NEW q \in Pids,
                   pc[p] \in RP!Critical, pc[q] \in RP!Critical
            PROVE  p = q
        <4>1. p \in Active /\ q \in Active
          BY <3>1, Inside DEF RP!Critical, Base
        <4>2. QED
          BY <4>1, OneActive
      <3>2. QED
        BY <3>1 DEF RP!Exclusive
    <2>2. RP!LockInv'
      BY <1>2, RingConstants, RP!LockStep DEF Base, Data
    <2>3. RP!DataInv'
      BY <1>2, <2>1, RingConstants, RP!DataStep DEF Base, Data
    <2>4. QED
      BY <2>2, <2>3 DEF Data
  <1>3. QED
    BY <1>1, <1>2, StartOrRingStep

(* What was processed was taken, in this order, and what a worker has in   *)
(* hand was taken last.                                                    *)
Follows(a, b) ==
  \E k, l \in 1 .. Len(delivered) : k < l /\ delivered[k] = a /\ delivered[l] = b
Taken(a, n) == \E k \in 1 .. n : delivered[k] = a
Busy == \E w \in Pids : Pending(w)

InOrder ==
  /\ \A i, j \in 1 .. Len(processed) : i < j => Follows(processed[i], processed[j])
  /\ \A i \in 1 .. Len(processed) :
       Taken(processed[i], IF Busy THEN Len(delivered) - 1 ELSE Len(delivered))
  /\ \A w \in Pids : Pending(w) =>
       Len(delivered) > 0 /\ laddr[w] = delivered[Len(delivered)]

LEMMA InOrderFrame ==
  ASSUME RingTypes, Queue, InOrder, UNCHANGED <<processed, delivered>>,
         \A w \in Pids : Pending(w)' => Pending(w) /\ laddr'[w] = laddr[w]
  PROVE  InOrder'
  <1>1. Busy' => Busy
    BY DEF Busy
  <1>2. Len(delivered) \in Nat
    BY DEF RingTypes
  <1>3. \A i \in 1 .. Len(processed) :
          Taken(processed[i], IF Busy THEN Len(delivered) - 1 ELSE Len(delivered))
            => Taken(processed[i], IF Busy' THEN Len(delivered) - 1 ELSE Len(delivered))
    BY <1>1, <1>2 DEF Taken
  <1>4. \A i, j \in 1 .. Len(processed) :
          Follows(processed[i], processed[j])' = Follows(processed[i], processed[j])
    BY DEF Follows
  <1>5. \A i \in 1 .. Len(processed) :
          Taken(processed[i], IF Busy THEN Len(delivered) - 1 ELSE Len(delivered))'
            <=> Taken(processed[i], IF Busy' THEN Len(delivered) - 1 ELSE Len(delivered))
    BY DEF Taken
  <1>6. QED
    BY <1>3, <1>4, <1>5 DEF InOrder

(* The only worker in the loop has nothing in hand: nobody has.            *)
LEMMA Idle ==
  ASSUME NumWorkers = 1, Team, Lives, Posted, NEW w \in Active, ~Pending(w)
  PROVE  ~Busy
  <1>1. ASSUME NEW v \in Pids, Pending(v) PROVE FALSE
    <2>1. v = w
      BY <1>1, Inside, OneActive
    <2>2. QED
      BY <1>1, <2>1
  <1>2. QED
    BY <1>1 DEF Busy

LEMMA TakeStep ==
  ASSUME NumWorkers = 1, Base, Team, Queue, InOrder,
         NEW w \in Pids, GetStep(w), Ring!GetCommit(w)
  PROVE  InOrder'
  <1>1. RingTypes /\ Lives /\ Posted /\ Coordinator
    BY RingIsTyped DEF Base
  <1>2. /\ wpc[w] = "get" /\ pc[w] = "getCommit" /\ laddr' = laddr
        /\ delivered' = Append(delivered, laddr[w]) /\ processed' = processed
    BY DEF GetStep, Worker, Ring!GetCommit, Ring!locals
  <1>3. w \in Active
    BY <1>1, <1>2, Inside
  <1>4. ~Busy
    BY <1>1, <1>2, <1>3, Idle DEF Pending
  <1>5. \A v \in Pids : Pending(v)' => v = w
    BY <1>1, <1>4, PendingFrame DEF Busy, ProcessStep, WorkerStep
  <1>6. /\ Len(delivered) \in Nat /\ Len(delivered') = Len(delivered) + 1
        /\ \A k \in 1 .. Len(delivered) : delivered'[k] = delivered[k]
        /\ delivered'[Len(delivered) + 1] = laddr[w]
    <2>1. delivered \in Seq(Addrs \cup {0}) /\ laddr[w] \in Addrs \cup {0}
      BY <1>1 DEF RingTypes, Holders
    <2>2. QED
      BY <1>2, <2>1, AppendProperties
  <1>7. \A i, j \in 1 .. Len(processed') :
          i < j => Follows(processed[i], processed[j])'
    <2> SUFFICES ASSUME NEW i \in 1 .. Len(processed), NEW j \in 1 .. Len(processed), i < j
                 PROVE  Follows(processed[i], processed[j])'
      BY <1>2
    <2>1. PICK k \in 1 .. Len(delivered), l \in 1 .. Len(delivered) :
            k < l /\ delivered[k] = processed[i] /\ delivered[l] = processed[j]
      BY DEF InOrder, Follows
    <2>2. QED
      BY <1>2, <1>6, <2>1 DEF Follows
  <1>8. ASSUME NEW i \in 1 .. Len(processed)
        PROVE  \E k \in 1 .. Len(delivered') - 1 : delivered'[k] = processed'[i]
    <2>1. PICK k \in 1 .. Len(delivered) : delivered[k] = processed[i]
      BY <1>4 DEF InOrder, Taken
    <2>2. QED
      BY <1>2, <1>6, <2>1
  <1>9. \A i \in 1 .. Len(processed') :
          Taken(processed[i], IF Busy THEN Len(delivered) - 1 ELSE Len(delivered))'
    <2>1. \A i \in 1 .. Len(processed) :
            \E k \in 1 .. Len(delivered') : delivered'[k] = processed'[i]
      BY <1>6, <1>8
    <2>2. QED
      BY <1>2, <1>8, <2>1 DEF Taken
  <1>10. \A v \in Pids : Pending(v)' =>
          Len(delivered') > 0 /\ laddr'[v] = delivered'[Len(delivered')]
    BY <1>2, <1>5, <1>6
  <1>11. QED
    BY <1>2, <1>7, <1>9, <1>10 DEF InOrder

LEMMA WorkStep ==
  ASSUME NumWorkers = 1, Base, Team, Queue, InOrder, NEW w \in Pids, Work(w)
  PROVE  InOrder' /\ ~Busy'
  <1>1. RingTypes /\ Lives /\ Posted /\ Coordinator
    BY RingIsTyped DEF Base
  <1>2. /\ Pending(w) /\ wpc'[w] = "ready" /\ UNCHANGED <<delivered, pc, laddr, hit>>
        /\ processed' = Append(processed, laddr[w])
        /\ \A v \in Pids \ {w} : wpc'[v] = wpc[v]
    BY <1>1 DEF Work, Worker, Lives, ringVars, Pending
  <1>3. Busy /\ ~Busy'
    <2>1. ASSUME NEW v \in Pids, Pending(v)' PROVE FALSE
      <3>1. CASE v = w
        BY <1>2, <2>1, <3>1 DEF Pending
      <3>2. CASE v # w
        <4>1. Pending(v)
          BY <1>2, <2>1, <3>2 DEF Pending
        <4>2. v \in Active /\ w \in Active
          BY <1>1, <1>2, <4>1, Inside
        <4>3. QED
          BY <3>2, <4>2, OneActive
      <3>3. QED
        BY <3>1, <3>2
    <2>2. QED
      BY <1>2, <2>1 DEF Busy
  <1>4. /\ Len(processed) \in Nat /\ Len(processed') = Len(processed) + 1
        /\ \A i \in 1 .. Len(processed) : processed'[i] = processed[i]
        /\ processed'[Len(processed) + 1] = laddr[w]
    <2>1. processed \in Seq(Addrs \cup {0}) /\ laddr[w] \in Addrs \cup {0}
      BY <1>1 DEF Queue, RingTypes, Holders
    <2>2. QED
      BY <1>2, <2>1, AppendProperties
  <1>5. Len(delivered) \in Nat /\ Len(delivered) > 0 /\ laddr[w] = delivered[Len(delivered)]
    BY <1>1, <1>2 DEF InOrder, RingTypes
  <1>6. \A i \in 1 .. Len(processed) :
          \E k \in 1 .. Len(delivered) - 1 : delivered[k] = processed[i]
    BY <1>3 DEF InOrder, Taken
  <1>7. ASSUME NEW i \in 1 .. Len(processed'), NEW j \in 1 .. Len(processed'), i < j
        PROVE  \E k, l \in 1 .. Len(delivered) :
                 k < l /\ delivered[k] = processed'[i] /\ delivered[l] = processed'[j]
    <2>1. i \in 1 .. Len(processed)
      BY <1>4, <1>7
    <2>2. CASE j = Len(processed')
      <3>1. PICK k \in 1 .. Len(delivered) - 1 : delivered[k] = processed[i]
        BY <1>6, <2>1
      <3>2. /\ k \in 1 .. Len(delivered) /\ Len(delivered) \in 1 .. Len(delivered)
            /\ k < Len(delivered)
        BY <1>5
      <3>3. processed'[i] = processed[i] /\ processed'[j] = delivered[Len(delivered)]
        BY <1>4, <1>5, <2>1, <2>2
      <3>4. QED
        BY <3>1, <3>2, <3>3
    <2>3. CASE j # Len(processed')
      <3>1. j \in 1 .. Len(processed)
        BY <1>4, <2>3
      <3>2. Follows(processed[i], processed[j])
        BY <1>7, <2>1, <3>1 DEF InOrder
      <3>3. processed'[i] = processed[i] /\ processed'[j] = processed[j]
        BY <1>4, <2>1, <3>1
      <3>4. QED
        BY <3>2, <3>3 DEF Follows
    <2>4. QED
      BY <2>2, <2>3
  <1>8. ASSUME NEW i \in 1 .. Len(processed')
        PROVE  \E k \in 1 .. Len(delivered) : delivered[k] = processed'[i]
    <2>1. CASE i = Len(processed')
      BY <1>4, <1>5, <2>1
    <2>2. CASE i # Len(processed')
      <3>1. i \in 1 .. Len(processed) /\ processed'[i] = processed[i]
        BY <1>4, <2>2
      <3>2. PICK k \in 1 .. Len(delivered) - 1 : delivered[k] = processed[i]
        BY <1>6, <3>1
      <3>3. k \in 1 .. Len(delivered)
        BY <1>5
      <3>4. QED
        BY <3>1, <3>2, <3>3
    <2>3. QED
      BY <2>1, <2>2
  <1>9. \A v \in Pids : ~Pending(v)'
    BY <1>3 DEF Busy
  <1>10. \A i, j \in 1 .. Len(processed') :
           i < j => Follows(processed[i], processed[j])'
    <2> SUFFICES ASSUME NEW i \in 1 .. Len(processed'), NEW j \in 1 .. Len(processed'), i < j
                 PROVE  Follows(processed[i], processed[j])'
      OBVIOUS
    <2>1. PICK k \in 1 .. Len(delivered), l \in 1 .. Len(delivered) :
            k < l /\ delivered[k] = processed'[i] /\ delivered[l] = processed'[j]
      BY <1>7
    <2>2. delivered' = delivered
      BY <1>2
    <2>3. QED
      BY <2>1, <2>2 DEF Follows
  <1>11. \A i \in 1 .. Len(processed') :
           Taken(processed[i], IF Busy THEN Len(delivered) - 1 ELSE Len(delivered))'
    BY <1>2, <1>3, <1>8 DEF Taken
  <1>12. \A v \in Pids : Pending(v)' =>
           Len(delivered') > 0 /\ laddr'[v] = delivered'[Len(delivered')]
    BY <1>9
  <1>13. QED
    BY <1>3, <1>10, <1>11, <1>12 DEF InOrder

LEMMA OrderStep ==
  ASSUME NumWorkers = 1, Base, Team, Queue, InOrder, [Next]_vars
  PROVE  InOrder'
  <1>0. RingTypes /\ Lives /\ Posted /\ Coordinator
    BY RingIsTyped DEF Base
  <1>1. CASE Start
    <2>1. processed' = <<>> /\ Len(<<>>) = 0
      BY <1>1, EmptySeq DEF Start
    <2>2. \A w \in Pids : ~Pending(w)'
      BY <1>0, <1>1, StartFrame
    <2>3. QED
      BY <2>1, <2>2 DEF InOrder
  <1>2. CASE Spawn \/ Respawn \/ UNCHANGED vars
    <2>1. UNCHANGED <<processed, delivered, laddr, wpc, pc, hit>>
      BY <1>2 DEF Spawn, Respawn, vars, ringVars, procVars
    <2>2. QED
      BY <1>0, <2>1, InOrderFrame DEF Pending
  <1>3. CASE QuietCall
    <2>1. /\ UNCHANGED <<processed, delivered, wpc, hit>>
          /\ \A w \in Pids : pc'[w] = pc[w] /\ laddr'[w] = laddr[w]
      BY <1>0, <1>3, QuietFrame, CallFrame
    <2>2. QED
      BY <1>0, <2>1, InOrderFrame DEF Pending
  <1>4. ASSUME NEW w \in Pids, ProcessStep(w) PROVE InOrder'
    <2>1. CASE GetStep(w) /\ Ring!GetCommit(w)
      BY <2>1, TakeStep
    <2>2. CASE Work(w)
      BY <2>2, WorkStep
    <2>3. CASE ~(GetStep(w) /\ Ring!GetCommit(w)) /\ ~Work(w)
      <3>1. \A v \in Pids : Pending(v)' => Pending(v) /\ laddr'[v] = laddr[v]
        BY <1>0, <1>4, <2>3, PendingFrame
      <3>2. UNCHANGED <<processed, delivered>>
        <4>1. CASE GetStep(w)
          BY <2>3, <4>1 DEF GetStep, Ring!GetEnter, Ring!Acquire, Ring!GetReadTail,
             Ring!GetFetch, Ring!history
        <4>2. CASE Boot(w) \/ Poll(w) \/ CloseRing(w) \/ GetReturns(w)
          BY <4>2 DEF Boot, Poll, CloseRing, GetReturns, Ring!Attach, Ring!GetCall,
             Ring!Close, Ring!Leave, Ring!history
        <4>3. CASE BootFails(w) \/ WorkFails(w) \/ Exit(w) \/ FeederLocks(w) \/ FeederSends(w)
          BY <4>3 DEF BootFails, WorkFails, Exit, FeederLocks, FeederSends, ringVars
        <4>4. CASE Killed(w) \/ Terminated(w)
          BY <4>4 DEF Killed, Terminated, Dies, Ring!Crash, ringVars, Ring!history
        <4>5. QED
          BY <1>4, <2>3, <4>1, <4>2, <4>3, <4>4, Zenon DEF ProcessStep, WorkerStep, Feeder
      <3>3. QED
        BY <1>0, <3>1, <3>2, InOrderFrame
    <2>4. QED
      BY <2>1, <2>2, <2>3
  <1>5. QED
    BY <1>1, <1>2, <1>3, <1>4, Steps, Zenon

LEMMA OrderInvariant == NumWorkers = 1 => (Spec => [](Data /\ InOrder))
  <1> SUFFICES ASSUME NumWorkers = 1 PROVE Spec => [](Data /\ InOrder)
    OBVIOUS
  <1>1. Init => Data /\ InOrder
    <2> SUFFICES ASSUME Init PROVE Data /\ InOrder
      OBVIOUS
    <2>1. Data
      <3>1. RP!Init
        BY DEF Init, Ring!Init, RP!Init, Ring!Slots, RP!Slots, Ring!Procs, RP!Procs,
               Ring!Free, RP!Free
      <3>2. QED
        BY <3>1, RingConstants, RP!LockInit, RP!DataInit DEF Data
    <2>2. InOrder
      <3>1. processed = <<>> /\ Len(<<>>) = 0
        BY EmptySeq DEF Init
      <3>2. \A w \in Pids : ~Pending(w)
        BY DEF Init, Pending
      <3>3. QED
        BY <3>1, <3>2 DEF InOrder
    <2>3. QED
      BY <2>1, <2>2
  <1>2. Base /\ Typed /\ Team /\ Data /\ InOrder /\ [Next]_vars => (Data /\ InOrder)'
    BY DataStepOfOne, OrderStep DEF Typed
  <1>3. QED
    BY <1>1, <1>2, BaseInvariant, TypedInvariant, TeamInvariant, PTL DEF Spec

(* With one worker slot no address is processed twice and none out of      *)
(* order, wherever a worker dies, inside get() too, and whoever takes its  *)
(* place.                                                                  *)
THEOREM OneWorkerWorksOnce == NumWorkers = 1 => (Spec => []WorkOnce)
  <1> SUFFICES ASSUME NumWorkers = 1 PROVE Spec => []WorkOnce
    OBVIOUS
  <1>1. Base /\ Data /\ InOrder => WorkOnce
    <2> SUFFICES ASSUME Base, Data, InOrder,
                        NEW i \in 1 .. Len(processed), NEW j \in 1 .. Len(processed), i < j
                 PROVE  \E k, l \in 1 .. Len(accepted) :
                          k < l /\ accepted[k] = processed[i] /\ accepted[l] = processed[j]
      BY DEF WorkOnce
    <2>1. PICK k \in 1 .. Len(delivered), l \in 1 .. Len(delivered) :
            k < l /\ delivered[k] = processed[i] /\ delivered[l] = processed[j]
      BY DEF InOrder, Follows
    <2>2. /\ Len(delivered) <= Len(accepted)
          /\ delivered[k] = accepted[k] /\ delivered[l] = accepted[l]
      BY DEF Data, RP!DataInv, RP!DeliveredInOrder
    <2>3. Len(delivered) \in Nat /\ Len(accepted) \in Nat
      BY RingIsTyped DEF Base, RingTypes
    <2>4. QED
      BY <2>1, <2>2, <2>3
  <1>2. QED
    BY <1>1, BaseInvariant, OrderInvariant, PTL

-----------------------------------------------------------------------------
(* No result gets lost on its way from a worker to the client, unless a    *)
(* process crashed or was left behind by a new start().                    *)

Lost == \E w \in Pids : life[w] = "crashed" \/ wpc[w] = "stray"

OnItsWay ==
  drained \cup {pipe[k] : k \in 1 .. Len(pipe)}
    \cup UNION {{buffer[w][k] : k \in 1 .. Len(buffer[w])} : w \in Pids}

AllSent ==
  \A i \in 1 .. Len(processed) :
    \A j \in 1 .. Hits[processed[i]] : <<processed[i], j>> \in OnItsWay
SentOn == Lost \/ AllSent

LEMMA LostStays ==
  ASSUME Base, Lost, [Next]_vars
  PROVE  Lost'
  <1>0. Coordinator /\ Lives /\ Born /\ Posted
    BY DEF Base
  <1>1. PICK v \in Pids : life[v] = "crashed" \/ wpc[v] = "stray"
    BY DEF Lost
  <1>2. life[v] # "unborn" /\ (life[v] = "crashed" \/ Alive(v))
    BY <1>0, <1>1 DEF Lives, Posted, Alive
  <1>3. CASE Start
    BY <1>1, <1>2, <1>3 DEF Start, Lost
  <1>4. CASE Spawn \/ Respawn
    <2> DEFINE new == ProcessIds[nproc + 1]
    <2>1. new \in Pids /\ life[new] = "unborn" /\ life' = [life EXCEPT ![new] = "alive"]
      BY <1>0, <1>4, Launched DEF Spawn, Respawn
    <2>2. wpc' = wpc
      BY <1>4 DEF Spawn, Respawn
    <2> HIDE DEF new
    <2>3. QED
      BY <1>0, <1>1, <1>2, <2>1, <2>2 DEF Lost, Lives
  <1>5. CASE QuietCall \/ UNCHANGED vars
    BY <1>1, <1>5, QuietFrame DEF Lost, vars, procVars
  <1>6. ASSUME NEW w \in Pids, ProcessStep(w) PROVE Lost'
    BY <1>0, <1>1, <1>6, ProcessFrame DEF Lost, Alive
  <1>7. QED
    BY <1>3, <1>4, <1>5, <1>6, Steps, Zenon

(* _process_address() adds its candidates behind what is buffered.         *)
LEMMA Buffered ==
  ASSUME Base, Typed, NEW w \in Pids, Work(w)
  PROVE  /\ laddr[w] \in Addrs /\ processed' = Append(processed, laddr[w])
         /\ UNCHANGED <<pipe, drained>>
         /\ \A v \in Pids \ {w} : buffer'[v] = buffer[v]
         /\ \A k \in 1 .. Len(buffer[w]) :
              k \in 1 .. Len(buffer'[w]) /\ buffer'[w][k] = buffer[w][k]
         /\ \A j \in 1 .. Hits[laddr[w]] :
              \E k \in 1 .. Len(buffer'[w]) : buffer'[w][k] = <<laddr[w], j>>
  <1>1. /\ wpc[w] = "work" /\ UNCHANGED <<pipe, drained>>
        /\ buffer' = [buffer EXCEPT ![w] = @ \o Results(laddr[w])]
        /\ processed' = Append(processed, laddr[w])
    BY DEF Work, Worker
  <1>2. laddr[w] \in Addrs
    BY <1>1 DEF Typed, Fetched, Pending
  <1>3. /\ Hits[laddr[w]] \in Nat /\ Results(laddr[w]) \in Seq(Candidates)
        /\ Len(Results(laddr[w])) = Hits[laddr[w]]
        /\ \A j \in 1 .. Hits[laddr[w]] : Results(laddr[w])[j] = <<laddr[w], j>>
    <2>1. Hits[laddr[w]] \in Nat
      BY <1>2, ScannerAssumption
    <2>2. Results(laddr[w]) \in Seq(Candidates)
      BY <1>2, ResultsAreCandidates, Zenon
    <2>3. Len(Results(laddr[w])) = Hits[laddr[w]]
      BY <2>1 DEF Results
    <2>4. \A j \in 1 .. Hits[laddr[w]] : Results(laddr[w])[j] = <<laddr[w], j>>
      BY Zenon DEF Results
    <2>5. QED
      BY <2>1, <2>2, <2>3, <2>4, Zenon
  <1>4. /\ buffer[w] \in Seq(Candidates) /\ buffer'[w] = buffer[w] \o Results(laddr[w])
        /\ \A v \in Pids \ {w} : buffer'[v] = buffer[v]
    BY <1>1 DEF Typed, Queue
  <1> HIDE DEF Results
  <1>5. /\ Len(buffer[w]) \in Nat
        /\ Len(buffer'[w]) = Len(buffer[w]) + Hits[laddr[w]]
        /\ \A k \in 1 .. Len(buffer[w]) + Hits[laddr[w]] :
             buffer'[w][k] = IF k <= Len(buffer[w]) THEN buffer[w][k]
                             ELSE Results(laddr[w])[k - Len(buffer[w])]
    <2>1. \A s, t \in Seq(Candidates) :
            /\ Len(s \o t) = Len(s) + Len(t)
            /\ \A k \in 1 .. Len(s) + Len(t) :
                 (s \o t)[k] = IF k <= Len(s) THEN s[k] ELSE t[k - Len(s)]
      BY ConcatProperties
    <2>2. Len(buffer[w]) \in Nat
      BY <1>4
    <2>3. /\ Len(buffer[w] \o Results(laddr[w])) = Len(buffer[w]) + Len(Results(laddr[w]))
          /\ \A k \in 1 .. Len(buffer[w]) + Len(Results(laddr[w])) :
               (buffer[w] \o Results(laddr[w]))[k] =
                 IF k <= Len(buffer[w]) THEN buffer[w][k]
                 ELSE Results(laddr[w])[k - Len(buffer[w])]
      BY <1>3, <1>4, <2>1, Zenon
    <2>4. QED
      BY <1>3, <1>4, <2>2, <2>3, Zenon
  <1>6. ASSUME NEW j \in 1 .. Hits[laddr[w]]
        PROVE  \E k \in 1 .. Len(buffer'[w]) : buffer'[w][k] = <<laddr[w], j>>
    <2>1. /\ Len(buffer[w]) + j \in 1 .. Len(buffer'[w])
          /\ ~(Len(buffer[w]) + j <= Len(buffer[w]))
          /\ (Len(buffer[w]) + j) - Len(buffer[w]) = j
      BY <1>3, <1>5
    <2>2. buffer'[w][Len(buffer[w]) + j] = Results(laddr[w])[j]
      BY <1>5, <2>1
    <2>3. QED
      BY <1>3, <2>1, <2>2
  <1>7. \A k \in 1 .. Len(buffer[w]) :
          k \in 1 .. Len(buffer'[w]) /\ buffer'[w][k] = buffer[w][k]
    <2>1. ASSUME NEW k \in 1 .. Len(buffer[w])
          PROVE  /\ k \in 1 .. Len(buffer[w]) + Hits[laddr[w]] /\ k <= Len(buffer[w])
                 /\ k \in 1 .. Len(buffer'[w])
      BY <1>3, <1>5
    <2>2. QED
      BY <1>5, <2>1, Zenon
  <1>8. QED
    BY <1>1, <1>2, <1>4, <1>6, <1>7

LEMMA SentStays ==
  ASSUME Base, Typed, NEW c, c \in OnItsWay, [Next]_vars, ~Start,
         \A w \in Pids : Dies(w) => buffer[w] = <<>>
  PROVE  c \in OnItsWay'
  <1>0. Coordinator /\ Lives /\ Born /\ Posted
    BY DEF Base
  <1>1. ASSUME drained \subseteq drained', UNCHANGED <<pipe, buffer>> PROVE c \in OnItsWay'
    BY <1>1 DEF OnItsWay
  <1>2. CASE Spawn \/ Respawn \/ UNCHANGED vars
    BY <1>1, <1>2 DEF Spawn, Respawn, vars, queueVars
  <1>3. CASE QuietCall
    <2>1. CASE DrainOne
      <3>1. /\ pipe # <<>> /\ drained' = drained \cup {Head(pipe)} /\ pipe' = Tail(pipe)
            /\ buffer' = buffer /\ pipe \in Seq(Candidates)
        BY <2>1 DEF DrainOne, Typed, Queue
      <3>2. /\ Head(pipe) = pipe[1] /\ Len(pipe') = Len(pipe) - 1 /\ Len(pipe) \in Nat
            /\ \A k \in 2 .. Len(pipe) : pipe'[k - 1] = pipe[k]
        BY <3>1
      <3>3. ASSUME NEW k \in 1 .. Len(pipe), pipe[k] = c PROVE c \in OnItsWay'
        <4>1. CASE k = 1
          BY <3>1, <3>2, <3>3, <4>1 DEF OnItsWay
        <4>2. CASE k # 1
          <5>1. k \in 2 .. Len(pipe) /\ k - 1 \in 1 .. Len(pipe')
            BY <3>2, <4>2
          <5>2. QED
            BY <3>2, <3>3, <5>1 DEF OnItsWay
        <4>3. QED
          BY <4>1, <4>2
      <3>4. QED
        BY <3>1, <3>3 DEF OnItsWay
    <2>2. CASE ~DrainOne
      BY <1>1, <1>3, <2>2 DEF QuietCall, Stop, StopNotStarted, DrainResults, Submit,
         SpawnFails, Started, SubmitStep, SubmitReturns, DrainEmpty, Join, CheckFine,
         RespawnFails, RespawnRefused, Terminate, CleanUp, queueVars
    <2>3. QED
      BY <2>1, <2>2
  <1>4. ASSUME NEW w \in Pids, ProcessStep(w) PROVE c \in OnItsWay'
    <2>1. CASE Work(w)
      BY <2>1, Buffered DEF OnItsWay
    <2>2. CASE FeederSends(w)
      <3>1. /\ wlock = w /\ pipe' = Append(pipe, Head(buffer[w])) /\ drained' = drained
            /\ buffer' = [buffer EXCEPT ![w] = Tail(@)] /\ Alive(w)
        BY <2>2 DEF FeederSends
      <3>2. /\ buffer \in [Pids -> Seq(Candidates)] /\ pipe \in Seq(Candidates)
            /\ buffer[w] # <<>>
        BY <3>1 DEF Typed, Queue
      <3>3. /\ Head(buffer[w]) = buffer[w][1] /\ Head(buffer[w]) \in Candidates
            /\ Len(buffer[w]) \in Nat
            /\ \A k \in 2 .. Len(buffer[w]) :
                 k - 1 \in 1 .. Len(buffer'[w]) /\ buffer'[w][k - 1] = buffer[w][k]
            /\ \A v \in Pids \ {w} : buffer'[v] = buffer[v]
        <4>1. buffer'[w] = Tail(buffer[w]) /\ \A v \in Pids \ {w} : buffer'[v] = buffer[v]
          BY <3>1, <3>2
        <4>2. buffer[w] \in Seq(Candidates)
          BY <3>2
        <4>3. QED
          BY <3>2, <4>1, <4>2
      <3>4. /\ Len(pipe') = Len(pipe) + 1 /\ Len(pipe) \in Nat
            /\ \A k \in 1 .. Len(pipe) : pipe'[k] = pipe[k]
            /\ pipe'[Len(pipe) + 1] = buffer[w][1]
        BY <3>1, <3>2, <3>3, AppendProperties
      <3>5. CASE c \in drained
        BY <3>1, <3>5 DEF OnItsWay
      <3>6. ASSUME NEW k \in 1 .. Len(pipe), pipe[k] = c PROVE c \in OnItsWay'
        <4>1. k \in 1 .. Len(pipe')
          BY <3>4
        <4>2. QED
          BY <3>4, <3>6, <4>1 DEF OnItsWay
      <3>7. ASSUME NEW v \in Pids, NEW k \in 1 .. Len(buffer[v]), buffer[v][k] = c
            PROVE  c \in OnItsWay'
        <4>1. CASE v # w
          BY <3>3, <3>7, <4>1 DEF OnItsWay
        <4>2. CASE v = w /\ k = 1
          <5>1. Len(pipe) + 1 \in 1 .. Len(pipe')
            BY <3>4
          <5>2. QED
            BY <3>4, <3>7, <4>2, <5>1 DEF OnItsWay
        <4>3. CASE v = w /\ k # 1
          <5>1. k \in 2 .. Len(buffer[w])
            BY <3>3, <4>3
          <5>2. k - 1 \in 1 .. Len(buffer'[w]) /\ buffer'[w][k - 1] = c
            BY <3>3, <3>7, <4>3, <5>1
          <5>3. QED
            BY <4>3, <5>2 DEF OnItsWay
        <4>4. QED
          BY <4>1, <4>2, <4>3
      <3>8. QED
        BY <3>5, <3>6, <3>7 DEF OnItsWay
    <2>3. CASE Killed(w) \/ Terminated(w)
      <3>1. /\ UNCHANGED <<pipe, drained>> /\ buffer[w] = <<>>
            /\ buffer' = [buffer EXCEPT ![w] = <<>>]
        BY <2>3 DEF Killed, Terminated, Dies
      <3>2. buffer' = buffer
        BY <3>1 DEF Typed, Queue
      <3>3. QED
        BY <1>1, <3>1, <3>2
    <2>4. CASE Boot(w) \/ BootFails(w) \/ Poll(w) \/ GetStep(w) \/ GetReturns(w)
               \/ WorkFails(w) \/ CloseRing(w) \/ Exit(w) \/ FeederLocks(w)
      BY <1>1, <2>4 DEF Boot, BootFails, Poll, GetStep, GetReturns, WorkFails, CloseRing,
         Exit, FeederLocks, queueVars
    <2>5. QED
      BY <1>4, <2>1, <2>2, <2>3, <2>4, Zenon DEF ProcessStep, WorkerStep, Feeder
  <1>5. QED
    BY <1>2, <1>3, <1>4, Steps, Zenon

LEMMA ProcessedGrows ==
  ASSUME [Next]_vars, ~Start
  PROVE  UNCHANGED processed \/ \E w \in Pids : Work(w)
  <1>1. CASE Spawn \/ Respawn \/ QuietCall \/ UNCHANGED vars
    BY <1>1, QuietFrame DEF Spawn, Respawn, vars
  <1>2. ASSUME NEW w \in Pids, ProcessStep(w)
        PROVE  UNCHANGED processed \/ Work(w)
    <2>1. CASE GetStep(w)
      BY <2>1 DEF GetStep
    <2>2. CASE Boot(w) \/ BootFails(w) \/ Poll(w) \/ GetReturns(w) \/ CloseRing(w)
      BY <2>2 DEF Boot, BootFails, Poll, GetReturns, CloseRing
    <2>3. CASE WorkFails(w) \/ Exit(w) \/ FeederLocks(w) \/ FeederSends(w)
      BY <2>3 DEF WorkFails, Exit, FeederLocks, FeederSends
    <2>4. CASE Killed(w) \/ Terminated(w)
      BY <2>4 DEF Killed, Terminated, Dies
    <2>5. QED
      BY <1>2, <2>1, <2>2, <2>3, <2>4, Zenon DEF ProcessStep, WorkerStep, Feeder
  <1>3. QED
    BY <1>1, <1>2, Steps, Zenon

LEMMA AllSentStep ==
  ASSUME Base, Typed, AllSent, [Next]_vars,
         \A w \in Pids : Dies(w) => buffer[w] = <<>>
  PROVE  AllSent'
  <1>1. CASE Start
    <2>1. processed' = <<>> /\ Len(<<>>) = 0
      BY <1>1, EmptySeq DEF Start
    <2>2. QED
      BY <2>1 DEF AllSent
  <1>2. CASE ~Start
    <2>1. ASSUME NEW c, c \in OnItsWay PROVE c \in OnItsWay'
      BY <1>2, <2>1, SentStays
    <2>2. CASE UNCHANGED processed
      BY <2>1, <2>2 DEF AllSent
    <2>3. ASSUME NEW w \in Pids, Work(w) PROVE AllSent'
      <3>1. \A j \in 1 .. Hits[laddr[w]] : <<laddr[w], j>> \in OnItsWay'
        <4>1. ASSUME NEW j \in 1 .. Hits[laddr[w]]
              PROVE  <<laddr[w], j>> \in OnItsWay'
          <5>1. \E k \in 1 .. Len(buffer'[w]) : buffer'[w][k] = <<laddr[w], j>>
            BY <2>3, Buffered
          <5>2. QED
            BY <5>1 DEF OnItsWay
        <4>2. QED
          BY <4>1
      <3>2. /\ Len(processed) \in Nat /\ Len(processed') = Len(processed) + 1
            /\ \A i \in 1 .. Len(processed) : processed'[i] = processed[i]
            /\ processed'[Len(processed) + 1] = laddr[w]
        <4>1. /\ processed \in Seq(Addrs) /\ laddr[w] \in Addrs
              /\ processed' = Append(processed, laddr[w])
          BY <2>3, Buffered DEF Typed, Queue
        <4>2. QED
          BY <4>1, AppendProperties
      <3>3. ASSUME NEW i \in 1 .. Len(processed'), NEW j \in 1 .. Hits[processed'[i]]
            PROVE  <<processed'[i], j>> \in OnItsWay'
        <4>1. CASE i = Len(processed) + 1
          BY <3>1, <3>2, <3>3, <4>1
        <4>2. CASE i \in 1 .. Len(processed)
          <5>1. <<processed[i], j>> \in OnItsWay
            BY <3>2, <3>3, <4>2 DEF AllSent
          <5>2. QED
            BY <2>1, <3>2, <4>2, <5>1
        <4>3. QED
          BY <3>2, <4>1, <4>2
      <3>4. QED
        BY <3>3, Zenon DEF AllSent
    <2>4. UNCHANGED processed \/ \E w \in Pids : Work(w)
      BY <1>2, ProcessedGrows
    <2>5. QED
      BY <2>2, <2>3, <2>4
  <1>3. QED
    BY <1>1, <1>2

LEMMA SentOnStep ==
  ASSUME Base, Typed, SentOn, [Next]_vars
  PROVE  SentOn'
  <1>1. CASE Lost
    BY <1>1, LostStays DEF SentOn
  <1>2. CASE ~Lost /\ ~Lost'
    <2>1. ASSUME NEW w \in Pids, Dies(w) PROVE Lost'
      BY <2>1 DEF Base, Lives, Dies, Lost
    <2>2. QED
      BY <1>2, <2>1, AllSentStep DEF SentOn
  <1>3. QED
    BY <1>1, <1>2 DEF SentOn

LEMMA SentOnInvariant == Spec => []SentOn
  <1>1. Init => SentOn
    <2> SUFFICES ASSUME Init PROVE SentOn
      OBVIOUS
    <2>1. processed = <<>> /\ Len(<<>>) = 0
      BY EmptySeq DEF Init
    <2>2. QED
      BY <2>1 DEF SentOn, AllSent
  <1>2. QED
    BY <1>1, SentOnStep, BaseInvariant, TypedInvariant, PTL DEF Spec

-----------------------------------------------------------------------------
(* One worker slot, and nobody raised or crashed: the worker ends after it *)
(* found the ring empty, with nothing more to come.                        *)

Clean == raised = {} /\ \A w \in Pids : life[w] # "crashed"

CleanStep(w) ==
  \/ Boot(w) \/ Poll(w) \/ GetStep(w) \/ GetReturns(w) \/ Work(w) \/ CloseRing(w)
  \/ Exit(w) \/ Feeder(w)

LEMMA CleanBefore ==
  ASSUME Base, [Next]_vars, Clean'
  PROVE  /\ Clean
         /\ \/ Start \/ Spawn \/ QuietCall \/ UNCHANGED vars
            \/ \E w \in Pids : CleanStep(w)
         /\ ~RespawnFails /\ ~RespawnRefused
  <1>0. Coordinator /\ Lives /\ Born /\ Posted
    BY DEF Base
  <1>1. CASE Start \/ QuietCall \/ UNCHANGED vars
    <2>1. UNCHANGED <<life, raised>>
      BY <1>1, QuietFrame DEF Start, vars, procVars
    <2>2. Clean
      BY <2>1 DEF Clean
    <2>3. ~RespawnFails /\ ~RespawnRefused
      BY <1>0, <2>2 DEF RespawnFails, RespawnRefused, Crashed, Coordinator, Calls, Clean
    <2>4. QED
      BY <1>1, <2>2, <2>3
  <1>2. CASE Spawn \/ Respawn
    <2> DEFINE new == ProcessIds[nproc + 1]
    <2>1. /\ new \in Pids /\ life[new] = "unborn" /\ life' = [life EXCEPT ![new] = "alive"]
          /\ raised' = raised
      BY <1>0, <1>2, Launched DEF Spawn, Respawn
    <2> HIDE DEF new
    <2>2. Clean
      BY <1>0, <2>1 DEF Clean, Lives
    <2>3. ~Respawn /\ ~RespawnFails /\ ~RespawnRefused
      BY <1>0, <2>2 DEF Respawn, RespawnFails, RespawnRefused, Crashed, Coordinator, Calls,
                        Clean
    <2>4. QED
      BY <1>2, <2>2, <2>3
  <1>3. ASSUME NEW w \in Pids, ProcessStep(w)
        PROVE  Clean /\ CleanStep(w) /\ ~RespawnFails /\ ~RespawnRefused
    <2>1. \A v \in Pids : life[v] # "crashed"
      BY <1>0, <1>3, ProcessFrame DEF Clean, Alive
    <2>2. ~Killed(w) /\ ~Terminated(w)
      BY <1>0 DEF Killed, Terminated, Dies, Clean, Lives
    <2>3. ~BootFails(w) /\ ~WorkFails(w)
      BY DEF BootFails, WorkFails, Clean
    <2>4. CleanStep(w)
      BY <1>3, <2>2, <2>3, Zenon DEF ProcessStep, WorkerStep, CleanStep
    <2>5. raised' = raised
      BY <2>4 DEF CleanStep, Boot, Poll, GetStep, GetReturns, Work, CloseRing, Exit, Feeder,
                  FeederLocks, FeederSends, procVars
    <2>6. ~RespawnFails /\ ~RespawnRefused
      BY <1>0, <2>1 DEF RespawnFails, RespawnRefused, Crashed, Coordinator, Calls
    <2>7. QED
      BY <2>1, <2>4, <2>5, <2>6 DEF Clean
  <1>4. QED
    BY <1>1, <1>2, <1>3, Steps, Zenon

LEMMA Taking ==
  ASSUME NEW w \in Pids, ProcessStep(w)
  PROVE  UNCHANGED <<head, delivered>> \/ (GetStep(w) /\ Ring!GetCommit(w))
  <1>1. CASE GetStep(w)
    BY <1>1 DEF GetStep, Ring!GetEnter, Ring!Acquire, Ring!GetReadTail, Ring!GetFetch,
       Ring!shared, Ring!history
  <1>2. CASE Boot(w) \/ Poll(w) \/ CloseRing(w) \/ GetReturns(w)
    BY <1>2 DEF Boot, Poll, CloseRing, GetReturns, Ring!Attach, Ring!GetCall,
       Ring!Close, Ring!Leave, Ring!shared, Ring!history
  <1>3. CASE BootFails(w) \/ Work(w) \/ WorkFails(w) \/ Exit(w) \/ FeederLocks(w) \/ FeederSends(w)
    BY <1>3 DEF BootFails, Work, WorkFails, Exit, FeederLocks, FeederSends, ringVars
  <1>4. CASE Killed(w) \/ Terminated(w)
    BY <1>4 DEF Killed, Terminated, Dies, Ring!Crash, ringVars, Ring!shared, Ring!history
  <1>5. QED
    BY <1>1, <1>2, <1>3, <1>4, Zenon DEF ProcessStep, WorkerStep, Feeder

Done(a) == \E i \in 1 .. Len(processed) : processed[i] = a
Ending == {"close", "flush", "gone"}

(* A worker that is out of its loop has left nothing behind.               *)
Served(w) ==
  /\ life[w] \in {"alive", "ok"} /\ wpc[w] # "stray"
  /\ wpc[w] \in Ending =>
       event /\ head = tail /\ \A k \in 1 .. Len(accepted) : Done(accepted[k])

(* Once the event is set nothing is submitted any more, so a ring that the *)
(* second loop has found empty stays empty.                                *)
LastRound ==
  /\ event => \/ cpc \in {"join", "check", "term", "clean"}
              \/ ~started /\ cpc \in {"idle", "drain"}
  /\ \A w \in Active : draining[w] => event
  /\ \A w \in Active :
       draining[w] /\ wpc[w] = "get" /\ pc[w] = "leave" /\ ~hit[w] => head = tail

(* Whatever get() has handed out is processed, or in a worker's hand.      *)
Caught ==
  \A k \in 1 .. Len(delivered) : Done(delivered[k]) \/ (k = Len(delivered) /\ Busy)

Complete ==
  /\ Caught
  /\ cpc = "spawn" \/ started => \A w \in InSlots(workers) : Served(w)
  /\ Len(accepted) > 0 => \E w \in Pids : Served(w)

(* While the event is set the client adds nothing.                         *)
LEMMA Settled ==
  ASSUME Base, LastRound, event, QuietCall
  PROVE  UNCHANGED <<tail, accepted>> /\ event'
  <1>1. cpc # "submit" /\ (cpc = "idle" => ~started)
    BY DEF LastRound
  <1>2. ~SubmitStep /\ ~SubmitReturns /\ \A a \in Addrs : ~Submit(a)
    BY <1>1 DEF SubmitStep, SubmitReturns, Submit
  <1>3. CASE CleanUp
    BY <1>3 DEF CleanUp, Ring!Unlink, Ring!shared, Ring!history
  <1>4. CASE \/ Stop \/ StopNotStarted \/ DrainResults \/ SpawnFails \/ Started
             \/ DrainOne \/ DrainEmpty \/ Join \/ CheckFine \/ RespawnFails
             \/ RespawnRefused \/ Terminate
    BY <1>4 DEF Stop, StopNotStarted, DrainResults, SpawnFails, Started, DrainOne, DrainEmpty,
                Join, CheckFine, RespawnFails, RespawnRefused, Terminate, ringVars, coordVars
  <1>5. QED
    BY <1>2, <1>3, <1>4, Zenon DEF QuietCall

LEMMA LastRoundStep ==
  ASSUME NumWorkers = 1, Base, Team, Data, LastRound, Clean', [Next]_vars
  PROVE  LastRound'
  <1>0. Coordinator /\ Lives /\ Born /\ Posted /\ RingTypes
    BY RingIsTyped DEF Base
  <1>1. CASE Start
    <2>1. event' = FALSE
      BY <1>1 DEF Start
    <2>2. Active' = {}
      BY <1>0, <1>1 DEF Start, Active, Alive, Lives
    <2>3. QED
      BY <2>1, <2>2 DEF LastRound
  <1>2. CASE Spawn
    <2> DEFINE new == ProcessIds[nproc + 1]
    <2>1. /\ new \in Pids /\ life[new] = "unborn" /\ life' = [life EXCEPT ![new] = "alive"]
          /\ UNCHANGED <<event, cpc, started, draining, wpc, pc, hit, head, tail>>
      BY <1>0, <1>2, Launched DEF Spawn, ringVars
    <2> HIDE DEF new
    <2>2. ~draining[new]
      BY <1>0, <2>1 DEF Posted
    <2>3. Active' \subseteq Active \cup {new}
      BY <1>0, <2>1 DEF Active, Alive, Lives
    <2>4. QED
      BY <2>1, <2>2, <2>3 DEF LastRound
  <1>3. CASE QuietCall
    <2>1. /\ event => event' /\ tail' = tail
          /\ UNCHANGED <<draining, wpc, hit, head>> /\ Active' = Active
          /\ \A w \in Pids : pc'[w] = pc[w]
      BY <1>0, <1>3, Settled, QuietFrame, CallFrame DEF Active, Alive
    <2>2. event' => \/ cpc' \in {"join", "check", "term", "clean"}
                    \/ ~started' /\ cpc' \in {"idle", "drain"}
      <3>1. CASE Stop
        BY <3>1 DEF Stop, Goto
      <3>2. CASE StopNotStarted \/ DrainResults \/ \E a \in Addrs : Submit(a)
        BY <3>2 DEF StopNotStarted, DrainResults, Submit, LastRound
      <3>3. CASE SpawnFails \/ Started \/ SubmitStep \/ SubmitReturns \/ DrainOne \/ DrainEmpty
        BY <3>3 DEF SpawnFails, Started, SubmitStep, SubmitReturns, DrainOne, DrainEmpty,
                    LastRound, coordVars
      <3>4. CASE Join \/ CheckFine \/ Terminate
        BY <3>4 DEF Join, CheckFine, Terminate, NextCheck, Goto
      <3>5. CASE CleanUp
        BY <3>5 DEF CleanUp
      <3>6. QED
        BY <1>3, <3>1, <3>2, <3>3, <3>4, <3>5, CleanBefore, Zenon DEF QuietCall
    <2>3. \A w \in Active : w \in Pids
      BY DEF Active
    <2>4. QED
      BY <2>1, <2>2, <2>3 DEF LastRound
  <1>4. ASSUME NEW w \in Pids, CleanStep(w) PROVE LastRound'
    <2>0. ProcessStep(w)
      BY <1>4, Zenon DEF CleanStep, ProcessStep, WorkerStep
    <2>1. /\ UNCHANGED <<event, cpc, started, tail>> /\ Active' \subseteq Active
          /\ \A v \in Pids \ {w} : /\ pc'[v] = pc[v] /\ wpc'[v] = wpc[v] /\ hit'[v] = hit[v]
                                   /\ draining'[v] = draining[v]
      BY <1>0, <2>0, ProcessFrame, WorkerFrame, FlagFrame
         DEF coordVars, Active, Alive, Holders, Coordinator
    <2>2. draining'[w] => draining[w] \/ event
      BY <1>0, <2>0, FlagFrame DEF Poll, Coordinator, Posted
    <2>3. \A v \in Active' : draining'[v] => event'
      BY <2>1, <2>2 DEF LastRound, Active
    <2>4. ASSUME NEW v \in Active', draining'[v], wpc'[v] = "get", pc'[v] = "leave", ~hit'[v]
          PROVE  head' = tail
      <3>0. v \in Active /\ v \in Pids
        BY <2>1, <2>4 DEF Active
      <3>1. CASE GetStep(w) /\ ~Ring!GetReadTail(w)
        <4>1. w \in Active
          BY <1>0, <3>1, Inside DEF GetStep, Worker
        <4>2. v = w
          BY <3>0, <4>1, OneActive
        <4>3. pc'[w] # "leave" \/ hit'[w]
          BY <1>0, <3>1 DEF GetStep, Ring!GetEnter, Ring!Acquire, Ring!GetFetch,
             Ring!GetCommit, RingTypes, Posted, Holders
        <4>4. QED
          BY <2>4, <4>2, <4>3
      <3>2. CASE GetStep(w) /\ Ring!GetReadTail(w)
        <4>1. w \in Active
          BY <1>0, <3>2, Inside DEF GetStep, Worker
        <4>2. v = w
          BY <3>0, <4>1, OneActive
        <4>3. /\ pc[w] = "getTail" /\ head' = head
              /\ pc'[w] = "leave" => lhead[w] = tail
          BY <1>0, <3>2 DEF Ring!GetReadTail, Ring!shared, RingTypes, Holders
        <4>4. lhead[w] = head
          BY <4>3 DEF Data, RP!DataInv, RP!ConsumerView
        <4>5. QED
          BY <2>4, <4>2, <4>3, <4>4
      <3>3. CASE ~GetStep(w)
        <4>1. head' = head
          BY <2>0, <3>3, Taking
        <4>2. CASE v # w
          BY <2>1, <2>4, <3>0, <4>1, <4>2 DEF LastRound
        <4>3. CASE v = w
          <5>1. wpc[w] = "get" /\ pc[w] = "leave" /\ ~hit[w] /\ draining[w]
            <6>1. CASE Boot(w) \/ GetReturns(w) \/ Work(w) \/ CloseRing(w) \/ Exit(w)
              BY <1>0, <2>4, <4>3, <6>1 DEF Boot, GetReturns, Work, CloseRing, Exit, Worker, Lives
            <6>2. CASE Poll(w)
              BY <1>0, <2>4, <4>3, <6>2 DEF Poll, Ring!GetCall, RingTypes, Holders
            <6>3. CASE Feeder(w)
              BY <2>4, <4>3, <6>3 DEF Feeder, FeederLocks, FeederSends, procVars, ringVars
            <6>4. QED
              BY <1>4, <3>3, <6>1, <6>2, <6>3, Zenon DEF CleanStep
          <5>2. QED
            BY <3>0, <4>1, <4>3, <5>1 DEF LastRound
        <4>4. QED
          BY <4>2, <4>3
      <3>4. QED
        BY <3>1, <3>2, <3>3
    <2>5. event' => \/ cpc' \in {"join", "check", "term", "clean"}
                    \/ ~started' /\ cpc' \in {"idle", "drain"}
      BY <2>1 DEF LastRound
    <2>6. tail' = tail
      BY <2>1
    <2>7. QED
      BY <2>3, <2>4, <2>5, <2>6 DEF LastRound
  <1>5. CASE UNCHANGED vars
    BY <1>5 DEF vars, ringVars, coordVars, procVars, LastRound, Active, Alive
  <1>6. QED
    BY <1>1, <1>2, <1>3, <1>4, <1>5, CleanBefore, Zenon

(* Who has done all there was stays in that position.                      *)
LEMMA ServedFrame ==
  ASSUME NEW v \in Pids, Served(v), life'[v] \in {"alive", "ok"}, wpc'[v] = wpc[v],
         wpc[v] \in Ending /\ event /\ head = tail =>
           event' /\ head' = tail' /\ accepted' = accepted,
         \A a : Done(a) => Done(a)'
  PROVE  Served(v)'
  <1>1. CASE wpc[v] \notin Ending
    BY <1>1 DEF Served, Ending
  <1>2. CASE wpc[v] \in Ending
    <2>1. /\ event' /\ head' = tail' /\ accepted' = accepted
          /\ \A k \in 1 .. Len(accepted) : Done(accepted[k])
      BY <1>2 DEF Served
    <2>2. \A k \in 1 .. Len(accepted) : \E i \in 1 .. Len(processed') : processed'[i] = accepted[k]
      BY <2>1 DEF Done
    <2>3. QED
      BY <1>2, <2>1, <2>2 DEF Served, Done
  <1>3. QED
    BY <1>1, <1>2

LEMMA DoneStays ==
  ASSUME Base, Typed, [Next]_vars, ~Start
  PROVE  \A a : Done(a) => Done(a)'
  <1>1. CASE UNCHANGED processed
    BY <1>1 DEF Done
  <1>2. ASSUME NEW w \in Pids, Work(w) PROVE \A a : Done(a) => Done(a)'
    <2>1. /\ processed \in Seq(Addrs) /\ laddr[w] \in Addrs
          /\ processed' = Append(processed, laddr[w])
      BY <1>2, Buffered DEF Typed, Queue
    <2>2. /\ Len(processed) \in Nat /\ Len(processed') = Len(processed) + 1
          /\ \A i \in 1 .. Len(processed) : processed'[i] = processed[i]
      BY <2>1, AppendProperties
    <2>3. QED
      BY <2>2 DEF Done
  <1>3. QED
    BY <1>1, <1>2, ProcessedGrows

LEMMA CaughtFrame ==
  ASSUME Caught, delivered' = delivered,
         \A v \in Pids : Pending(v) => Pending(v)',
         \A a : Done(a) => Done(a)'
  PROVE  Caught'
  <1>1. Busy => Busy'
    BY DEF Busy
  <1>2. \A k \in 1 .. Len(delivered) :
          \/ \E i \in 1 .. Len(processed') : processed'[i] = delivered[k]
          \/ k = Len(delivered) /\ Busy'
    BY <1>1 DEF Caught, Done
  <1>3. QED
    BY <1>2 DEF Caught, Done

LEMMA ServedStays ==
  ASSUME NumWorkers = 1, Base, Typed, Team, Data, InOrder, LastRound, Complete,
         NEW w \in Pids, CleanStep(w), NEW v \in Pids, Served(v),
         [Next]_vars, ~Start, Clean'
  PROVE  Served(v)'
  <1>0. Coordinator /\ Lives /\ Born /\ Posted /\ RingTypes
    BY RingIsTyped DEF Base
  <1>00. ProcessStep(w)
    BY Zenon DEF CleanStep, ProcessStep, WorkerStep
  <1>1. \A a : Done(a) => Done(a)'
    BY DoneStays
  <1>2. /\ UNCHANGED <<event, tail, accepted>>
        /\ \A u \in Pids \ {w} : wpc'[u] = wpc[u] /\ life'[u] = life[u]
    BY <1>0, <1>00, ProcessFrame, WorkerFrame DEF coordVars
  <1>3. head = tail => head' = tail
    <2>1. CASE GetStep(w) /\ Ring!GetCommit(w)
      <3>1. pc[w] = "getCommit"
        BY <2>1 DEF Ring!GetCommit
      <3>2. QED
        BY <3>1 DEF Data, RP!DataInv, RP!ConsumerView
    <2>2. QED
      BY <1>00, <2>1, Taking
  <1>4. CASE v # w
    <2>1. life'[v] \in {"alive", "ok"} /\ wpc'[v] = wpc[v]
      BY <1>2, <1>4 DEF Served
    <2>2. QED
      BY <1>1, <1>2, <1>3, <2>1, ServedFrame
  <1>5. CASE v = w
    <2>1. life'[w] \in {"alive", "ok"} /\ wpc'[w] # "stray"
      BY <1>0, <1>00, <1>5, ProcessFrame DEF Clean, Served
    <2>2. CASE GetReturns(w) /\ wpc'[w] = "close"
      <3>1. /\ wpc[w] = "get" /\ pc[w] = "leave" /\ draining[w] /\ ~hit[w]
            /\ UNCHANGED <<head, processed>>
        BY <1>0, <2>2 DEF GetReturns, Ring!Leave, Worker, Lives, Ring!shared
      <3>2. w \in Active
        BY <1>0, <3>1, Inside
      <3>3. event /\ head = tail
        BY <3>1, <3>2 DEF LastRound
      <3>4. ~Busy
        BY <1>0, <3>1, <3>2, Idle DEF Pending
      <3>5. \A k \in 1 .. Len(accepted) : Done(accepted[k])
        <4>1. RP!Span(head, tail) = 0
          BY <1>0, <3>3, Sizes DEF RP!Span, RingTypes, Cells
        <4>2. Len(accepted) = Len(delivered)
          BY <1>0, <4>1 DEF Data, RP!DataInv, RP!RingHoldsPending, RingTypes
        <4>3. QED
          BY <3>4, <4>2 DEF Data, RP!DataInv, RP!DeliveredInOrder, Complete, Caught
      <3>6. \A k \in 1 .. Len(accepted') : \E i \in 1 .. Len(processed') : processed'[i] = accepted'[k]
        BY <1>2, <3>1, <3>5 DEF Done
      <3>7. event' /\ head' = tail'
        BY <1>2, <3>1, <3>3
      <3>8. QED
        BY <1>5, <2>1, <3>6, <3>7 DEF Served, Done
    <2>3. CASE wpc[w] \in Ending /\ wpc'[w] \in Ending
      <3>1. /\ event' /\ head' = tail'
            /\ \A k \in 1 .. Len(accepted) : Done(accepted[k])
        BY <1>2, <1>3, <1>5, <2>3 DEF Served
      <3>2. \A k \in 1 .. Len(accepted') : \E i \in 1 .. Len(processed') : processed'[i] = accepted'[k]
        BY <1>1, <1>2, <3>1 DEF Done
      <3>3. QED
        BY <1>5, <2>1, <3>1, <3>2 DEF Served, Done
    <2>4. CASE wpc'[w] \notin Ending
      BY <1>5, <2>1, <2>4 DEF Served, Ending
    <2>5. \/ GetReturns(w) /\ wpc'[w] = "close"
          \/ wpc[w] \in Ending
          \/ wpc'[w] \notin Ending
      <3>1. CASE Boot(w) \/ Poll(w) \/ GetStep(w) \/ GetReturns(w) \/ Work(w)
        BY <1>0, <3>1 DEF Boot, Poll, GetStep, GetReturns, Work, Worker, Lives, Ending
      <3>2. CASE CloseRing(w) \/ Exit(w)
        BY <3>2 DEF CloseRing, Exit, Worker, Ending
      <3>3. CASE Feeder(w)
        BY <3>3 DEF Feeder, FeederLocks, FeederSends, procVars
      <3>4. QED
        BY <3>1, <3>2, <3>3, Zenon DEF CleanStep
    <2>6. QED
      BY <2>2, <2>3, <2>4, <2>5
  <1>6. QED
    BY <1>4, <1>5

LEMMA Accepting ==
  ASSUME QuietCall, accepted' # accepted
  PROVE  cpc = "submit"
  BY DEF QuietCall, Stop, StopNotStarted, DrainResults, Submit, SpawnFails, Started,
         SubmitStep, SubmitReturns, DrainOne, DrainEmpty, Join, CheckFine, RespawnFails,
         RespawnRefused, Terminate, CleanUp, ringVars, Ring!PutCall, Ring!Unlink, Ring!history

LEMMA CaughtStays ==
  ASSUME NumWorkers = 1, Base, Typed, Team, Data, InOrder, Caught, Clean',
         [Next]_vars, ~Start, NEW w \in Pids, CleanStep(w)
  PROVE  Caught'
  <1>0. Coordinator /\ Lives /\ Born /\ Posted /\ RingTypes
    BY RingIsTyped DEF Base
  <1>1. ProcessStep(w)
    BY Zenon DEF CleanStep, ProcessStep, WorkerStep
  <1>2. \A a : Done(a) => Done(a)'
    BY DoneStays
  <1>3. CASE GetStep(w) /\ Ring!GetCommit(w)
    <2>1. /\ wpc[w] = "get" /\ pc[w] = "getCommit" /\ processed' = processed
          /\ delivered' = Append(delivered, laddr[w])
          /\ wpc'[w] = "get" /\ pc'[w] = "leave" /\ hit'[w]
      BY <1>0, <1>3 DEF GetStep, Worker, Ring!GetCommit, RingTypes, Holders, Lives, Posted
    <2>2. ~Busy /\ Busy'
      <3>1. w \in Active
        BY <1>0, <2>1, Inside
      <3>2. ~Busy
        BY <1>0, <2>1, <3>1, Idle DEF Pending
      <3>3. QED
        BY <2>1, <3>2 DEF Busy, Pending
    <2>3. /\ Len(delivered) \in Nat /\ Len(delivered') = Len(delivered) + 1
          /\ \A k \in 1 .. Len(delivered) : delivered'[k] = delivered[k]
      <3>1. delivered \in Seq(Addrs \cup {0}) /\ laddr[w] \in Addrs \cup {0}
        BY <1>0 DEF RingTypes, Holders
      <3>2. QED
        BY <2>1, <3>1, AppendProperties
    <2>4. ASSUME NEW k \in 1 .. Len(delivered')
          PROVE  Done(delivered[k])' \/ (k = Len(delivered') /\ Busy')
      <3>1. CASE k \in 1 .. Len(delivered)
        <4>1. Done(delivered[k]) /\ delivered'[k] = delivered[k]
          BY <2>2, <2>3, <3>1 DEF Caught
        <4>2. QED
          BY <2>1, <4>1 DEF Done
      <3>2. CASE k = Len(delivered')
        BY <2>2, <3>2
      <3>3. QED
        BY <2>3, <3>1, <3>2
    <2>5. QED
      BY <2>4 DEF Caught
  <1>4. CASE Work(w)
    <2>1. /\ delivered' = delivered /\ processed' = Append(processed, laddr[w])
          /\ Pending(w) /\ processed \in Seq(Addrs) /\ laddr[w] \in Addrs
      BY <1>4, Buffered DEF Work, Worker, ringVars, Pending, Typed, Queue
    <2>2. laddr[w] = delivered[Len(delivered)]
      BY <2>1 DEF InOrder
    <2>3. \E i \in 1 .. Len(processed') : processed'[i] = laddr[w]
      <3>1. /\ Len(processed) + 1 \in 1 .. Len(processed')
            /\ processed'[Len(processed) + 1] = laddr[w]
        BY <2>1, AppendProperties
      <3>2. QED
        BY <3>1
    <2>4. \A k \in 1 .. Len(delivered) :
            \E i \in 1 .. Len(processed') : processed'[i] = delivered[k]
      BY <1>2, <2>2, <2>3 DEF Caught, Done
    <2>5. QED
      BY <2>1, <2>4 DEF Caught, Done
  <1>5. CASE ~(GetStep(w) /\ Ring!GetCommit(w)) /\ ~Work(w)
    <2>1. delivered' = delivered
      BY <1>1, <1>5, Taking
    <2>2. Pending(w) => Pending(w)'
      <3>1. CASE Boot(w) \/ Poll(w) \/ CloseRing(w) \/ Exit(w)
        BY <1>0, <3>1 DEF Boot, Poll, CloseRing, Exit, Worker, Pending, Lives
      <3>2. CASE GetStep(w)
        BY <1>0, <1>5, <3>2 DEF GetStep, Worker, Pending, Ring!GetEnter, Ring!Acquire,
           Ring!GetReadTail, Ring!GetFetch
      <3>3. CASE GetReturns(w)
        BY <1>0, <3>3 DEF GetReturns, Worker, Pending, Lives
      <3>4. CASE Feeder(w)
        BY <3>4 DEF Feeder, FeederLocks, FeederSends, procVars, ringVars, Pending
      <3>5. QED
        BY <1>5, <3>1, <3>2, <3>3, <3>4, Zenon DEF CleanStep
    <2>3. \A v \in Pids : Pending(v) => Pending(v)'
      BY <1>0, <1>1, <2>2, PendingFrame
    <2>4. QED
      BY <1>2, <2>1, <2>3, CaughtFrame
  <1>6. QED
    BY <1>3, <1>4, <1>5

LEMMA CompleteStep ==
  ASSUME NumWorkers = 1, Base, Typed, Team, Data, InOrder, LastRound, Complete, Clean',
         [Next]_vars
  PROVE  Complete'
  <1>0. Coordinator /\ Lives /\ Born /\ Posted /\ RingTypes
    BY RingIsTyped DEF Base
  <1>1. CASE Start
    <2>1. /\ delivered' = <<>> /\ accepted' = <<>> /\ workers' = <<>> /\ Len(<<>>) = 0
      BY <1>1, EmptySeq DEF Start
    <2>2. QED
      BY <2>1 DEF Complete, Caught, InSlots
  <1>2. CASE ~Start
    <2>0. \A a : Done(a) => Done(a)'
      BY <1>2, DoneStays
    <2>1. CASE Spawn
      <3>1. PICK new \in Pids :
            /\ life[new] = "unborn" /\ life' = [life EXCEPT ![new] = "alive"]
            /\ wpc[new] = "boot" /\ workers' = Append(workers, new) /\ workers \in Seq(Pids)
            /\ UNCHANGED <<event, wpc, pc, hit, head, tail, accepted, delivered, processed>>
            /\ cpc = "spawn"
        BY <1>0, <2>1, Launched DEF Spawn, ringVars, Coordinator
      <3>2. \A v \in Pids : Served(v) => Served(v)'
        <4>1. ASSUME NEW v \in Pids, Served(v) PROVE Served(v)'
          <5>1. life'[v] \in {"alive", "ok"}
            BY <1>0, <3>1, <4>1 DEF Served, Lives
          <5>2. QED
            BY <2>0, <3>1, <4>1, <5>1, ServedFrame
        <4>2. QED
          BY <4>1
      <3>3. Served(new)'
        <4>1. life'[new] = "alive" /\ wpc'[new] = "boot"
          BY <1>0, <3>1 DEF Lives
        <4>2. QED
          BY <4>1 DEF Served, Ending
      <3>4. InSlots(workers') = InSlots(workers) \cup {new} /\ InSlots(workers) \subseteq Pids
        BY <3>1, OneMoreSlot DEF InSlots
      <3>5. \A v \in InSlots(workers') : Served(v)'
        BY <3>1, <3>2, <3>3, <3>4 DEF Complete
      <3>6. Caught'
        BY <2>0, <3>1, CaughtFrame DEF Complete, Pending
      <3>7. Len(accepted') > 0 => \E v \in Pids : Served(v)'
        BY <3>1, <3>2 DEF Complete
      <3>8. QED
        BY <3>5, <3>6, <3>7 DEF Complete
    <2>2. CASE QuietCall
      <3>1. /\ UNCHANGED <<life, wpc, hit, delivered, head>>
            /\ \A v \in Pids : pc'[v] = pc[v]
            /\ event => event' /\ UNCHANGED <<tail, accepted>>
        BY <1>0, <2>2, QuietFrame, CallFrame, Settled
      <3>2. \A v \in Pids : Served(v) => Served(v)'
        <4>1. ASSUME NEW v \in Pids, Served(v) PROVE Served(v)'
          BY <2>0, <3>1, <4>1, ServedFrame DEF Served
        <4>2. QED
          BY <4>1
      <3>3. Caught'
        BY <2>0, <3>1, CaughtFrame DEF Complete, Pending
      <3>4. InSlots(workers) \subseteq Pids
        BY <1>0 DEF Coordinator, InSlots
      <3>5. (cpc = "spawn" \/ started)' => \A v \in InSlots(workers') : Served(v)'
        BY <1>0, <2>2, <3>2, <3>4, SessionFrame DEF Complete
      <3>6. CASE accepted' = accepted
        BY <3>2, <3>3, <3>5, <3>6 DEF Complete
      <3>7. CASE accepted' # accepted
        <4>1. started
          BY <1>0, <2>2, <3>7, Accepting DEF Coordinator, Calls
        <4>2. Len(workers) = 1 /\ workers[1] \in InSlots(workers)
          BY <1>0, <4>1 DEF Coordinator, InSlots
        <4>3. Served(workers[1]) /\ workers[1] \in Pids
          BY <3>4, <4>1, <4>2 DEF Complete
        <4>4. \E v \in Pids : Served(v)'
          BY <3>2, <4>3
        <4>5. QED
          BY <3>3, <3>5, <4>4 DEF Complete
      <3>8. QED
        BY <3>6, <3>7
    <2>3. ASSUME NEW w \in Pids, CleanStep(w) PROVE Complete'
      <3>0. ProcessStep(w)
        BY <2>3, Zenon DEF CleanStep, ProcessStep, WorkerStep
      <3>1. UNCHANGED <<cpc, started, workers, accepted>>
        BY <1>0, <3>0, ProcessFrame, WorkerFrame DEF coordVars
      <3>2. \A v \in Pids : Served(v) => Served(v)'
        BY <1>2, <2>3, ServedStays
      <3>3. Caught'
        BY <1>2, <2>3, CaughtStays DEF Complete
      <3>4. InSlots(workers) \subseteq Pids
        BY <1>0 DEF Coordinator, InSlots
      <3>5. QED
        BY <3>1, <3>2, <3>3, <3>4 DEF Complete
    <2>4. CASE UNCHANGED vars
      <3>1. UNCHANGED <<delivered, accepted, processed, workers, cpc, started, event, head, tail>>
        BY <2>4 DEF vars, ringVars, coordVars
      <3>2. UNCHANGED <<pc, hit, life, wpc>>
        BY <2>4 DEF vars, ringVars, procVars
      <3>3. Caught'
        BY <2>0, <3>1, <3>2, CaughtFrame DEF Complete, Pending
      <3>4. ASSUME NEW v, Served(v) PROVE Served(v)'
        BY <3>1, <3>2, <3>4 DEF Served, Done
      <3>5. QED
        BY <3>1, <3>3, <3>4 DEF Complete, InSlots
    <2>5. QED
      BY <1>2, <2>1, <2>2, <2>3, <2>4, CleanBefore, Zenon
  <1>3. QED
    BY <1>1, <1>2

CleanInv == Clean => LastRound /\ Complete

LEMMA CleanInvariant == NumWorkers = 1 => (Spec => []CleanInv)
  <1> SUFFICES ASSUME NumWorkers = 1 PROVE Spec => []CleanInv
    OBVIOUS
  <1>1. Init => CleanInv
    <2> SUFFICES ASSUME Init PROVE LastRound /\ Complete
      BY DEF CleanInv
    <2>1. LastRound
      BY DEF Init, LastRound, Active, Alive
    <2>2. Complete
      <3>1. /\ delivered = <<>> /\ accepted = <<>> /\ Len(<<>>) = 0
            /\ cpc = "idle" /\ started = FALSE
        BY EmptySeq DEF Init, Ring!Init
      <3>2. QED
        BY <3>1 DEF Complete, Caught
    <2>3. QED
      BY <2>1, <2>2
  <1>2. Base /\ Typed /\ Team /\ Data /\ InOrder /\ CleanInv /\ [Next]_vars => CleanInv'
    BY CleanBefore, LastRoundStep, CompleteStep DEF CleanInv
  <1>3. QED
    BY <1>1, <1>2, BaseInvariant, TypedInvariant, TeamInvariant, OrderInvariant, PTL DEF Spec

(* With one worker slot, when all workers came to their end by themselves, *)
(* stop() has waited until every accepted address was processed and every  *)
(* candidate was put where drain_results() finds it: the event is set only *)
(* when no put() is under way, so the ring a draining worker finds empty   *)
(* stays so, and a process ends after its buffer is flushed.               *)
THEOREM CleanStopLosesNothing == NumWorkers = 1 => (Spec => []CleanStopIsComplete)
  <1> SUFFICES ASSUME NumWorkers = 1 PROVE Spec => []CleanStopIsComplete
    OBVIOUS
  <1>1. Base /\ Typed /\ CleanInv /\ SentOn => CleanStopIsComplete
    <2> SUFFICES ASSUME Base, Typed, CleanInv, SentOn, raised = {},
                        \A w \in Pids : life[w] \in {"unborn", "ok"}
                 PROVE  /\ ToSet(accepted) \subseteq ToSet(processed)
                        /\ \A a \in ToSet(processed) :
                             ToSet(Results(a)) \subseteq drained \cup ToSet(pipe)
      BY DEF CleanStopIsComplete
    <2>0. Lives /\ Posted /\ RingTypes
      BY RingIsTyped DEF Base
    <2>1. Complete
      BY DEF CleanInv, Clean
    <2>2. \A k \in 1 .. Len(accepted) : Done(accepted[k])
      <3>1. CASE Len(accepted) > 0
        <4>1. PICK w \in Pids : Served(w)
          BY <2>1, <3>1 DEF Complete
        <4>2. wpc[w] = "gone"
          BY <2>0, <4>1 DEF Served, Posted
        <4>3. QED
          BY <4>1, <4>2 DEF Served, Ending
      <3>2. CASE ~(Len(accepted) > 0)
        BY <2>0, <3>2 DEF RingTypes
      <3>3. QED
        BY <3>1, <3>2
    <2>3. ToSet(accepted) \subseteq ToSet(processed)
      <3>1. accepted \in Seq(Addrs) /\ processed \in Seq(Addrs)
        BY <2>0 DEF RingTypes, Typed, Queue
      <3>2. /\ ToSet(accepted) = {accepted[k] : k \in 1 .. Len(accepted)}
            /\ ToSet(processed) = {processed[k] : k \in 1 .. Len(processed)}
        BY <3>1 DEF ToSet
      <3>3. QED
        BY <2>2, <3>2 DEF Done
    <2>4. ~Lost
      BY <2>0 DEF Lost, Posted, Lives
    <2>5. OnItsWay \subseteq drained \cup ToSet(pipe)
      <3>1. \A w \in Pids : buffer[w] = <<>>
        BY DEF Typed, Queue, Alive
      <3>2. Len(<<>>) = 0 /\ pipe \in Seq(Candidates)
        BY EmptySeq DEF Typed, Queue
      <3>3. QED
        BY <3>1, <3>2 DEF OnItsWay, ToSet
    <2>6. ASSUME NEW a \in ToSet(processed)
          PROVE  ToSet(Results(a)) \subseteq drained \cup ToSet(pipe)
      <3>1. PICK i \in 1 .. Len(processed) : processed[i] = a
        BY DEF ToSet, Typed, Queue
      <3>2. a \in Addrs /\ Hits[a] \in Nat
        <4>1. processed \in Seq(Addrs) /\ Hits \in [Addrs -> Nat]
          BY ScannerAssumption DEF Typed, Queue
        <4>2. processed[i] \in Addrs
          BY <4>1
        <4>3. QED
          BY <3>1, <4>1, <4>2
      <3>3. ToSet(Results(a)) = {<<a, j>> : j \in 1 .. Hits[a]}
        BY <3>2 DEF ToSet, Results
      <3>4. \A j \in 1 .. Hits[a] : <<a, j>> \in OnItsWay
        BY <2>4, <3>1 DEF SentOn, AllSent
      <3>5. QED
        BY <2>5, <3>3, <3>4
    <2>7. QED
      BY <2>3, <2>6
  <1>2. QED
    BY <1>1, BaseInvariant, TypedInvariant, CleanInvariant, SentOnInvariant, PTL

-----------------------------------------------------------------------------
(* As long as no worker waits for room in the pipe, and workers that do    *)
(* not wait are in time, join() sees every worker's end: nobody is sent    *)
(* SIGTERM, so a process of the session that crashed was killed by others. *)

Roomy == \A w \in Pids : Alive(w) /\ buffer[w] # <<>> => Len(pipe) < PipeSize
NoneKilled == \A w \in Pids : life[w] = "crashed" => w \in signalled

Unharmed ==
  /\ \A i \in 1 .. Len(workers) : workers[i] \notin signalled
  /\ \A w \in Active : w \notin signalled
  /\ wlock # NoOne => wlock \in Active
  /\ cpc = "join" => \A i \in 1 .. ci - 1 : ~Alive(workers[i])
  /\ cpc \in {"check", "term", "clean"} =>
       \A i \in 1 .. Len(workers) : ~Alive(workers[i])

Spared ==
  /\ \A w \in Pids : life[w] = "unborn" => w \notin signalled
  /\ NoneKilled => Unharmed

LEMMA Signals ==
  ASSUME [Next]_vars
  PROVE  signalled' = signalled \/ Terminate
  <1>1. CASE Start \/ Spawn \/ Respawn \/ UNCHANGED vars
    BY <1>1 DEF Start, Spawn, Respawn, vars, procVars
  <1>2. CASE QuietCall
    BY <1>2 DEF QuietCall, Stop, StopNotStarted, DrainResults, Submit, SpawnFails, Started,
       SubmitStep, SubmitReturns, DrainOne, DrainEmpty, Join, CheckFine, RespawnFails,
       RespawnRefused, CleanUp, procVars
  <1>3. ASSUME NEW w \in Pids, ProcessStep(w) PROVE signalled' = signalled
    <2>1. CASE Feeder(w) \/ Killed(w) \/ Terminated(w)
      BY <2>1 DEF Feeder, FeederLocks, FeederSends, Killed, Terminated, Dies, procVars
    <2>2. CASE WorkerStep(w)
      BY <2>2 DEF WorkerStep, Boot, BootFails, Poll, GetStep, GetReturns, Work, WorkFails,
         CloseRing, Exit
    <2>3. QED
      BY <1>3, <2>1, <2>2 DEF ProcessStep
  <1>4. QED
    BY <1>1, <1>2, <1>3, Steps, Zenon

(* SIGTERM goes to live processes only: who crashed without one stays the  *)
(* proof that somebody was killed.                                         *)
LEMMA NoneKilledBefore ==
  ASSUME Base, [Next]_vars, NoneKilled'
  PROVE  NoneKilled
  <1>0. Coordinator /\ Lives /\ Born /\ Posted
    BY DEF Base
  <1>1. ASSUME NEW v \in Pids, life[v] = "crashed" PROVE v \in signalled
    <2>1. life'[v] = "crashed"
      <3>1. CASE Start \/ QuietCall \/ UNCHANGED vars
        BY <1>1, <3>1, QuietFrame DEF Start, vars, procVars
      <3>2. CASE Spawn \/ Respawn
        <4> DEFINE new == ProcessIds[nproc + 1]
        <4>1. new \in Pids /\ life[new] = "unborn" /\ life' = [life EXCEPT ![new] = "alive"]
          BY <1>0, <3>2, Launched DEF Spawn, Respawn
        <4> HIDE DEF new
        <4>2. QED
          BY <1>0, <1>1, <4>1 DEF Lives
      <3>3. ASSUME NEW w \in Pids, ProcessStep(w) PROVE life'[v] = "crashed"
        BY <1>0, <1>1, <3>3, ProcessFrame DEF Alive
      <3>4. QED
        BY <3>1, <3>2, <3>3, Steps, Zenon
    <2>2. v \in signalled'
      BY <2>1 DEF NoneKilled
    <2>3. CASE Terminate
      BY <1>1, <2>2, <2>3 DEF Terminate, Alive
    <2>4. QED
      BY <2>2, <2>3, Signals
  <1>2. QED
    BY <1>1 DEF NoneKilled

(* The steps of the client thread, where nobody was killed.                *)
LEMMA UnharmedCall ==
  ASSUME ~SlowWorkers, Roomy, Base, NoneKilled, Unharmed, QuietCall
  PROVE  Unharmed' /\ signalled' = signalled
  <1>0. /\ Coordinator /\ Lives
        /\ UNCHANGED <<life, wpc, wlock>> /\ Active' = Active
        /\ \A w \in Pids : Alive(w)' <=> Alive(w)
    BY QuietFrame DEF Base, Active, Alive
  <1> USE <1>0 DEF Unharmed, Coordinator, Calls
  <1>1. CASE CleanUp
    <2>1. workers' = <<>> /\ cpc' = "idle" /\ signalled' = signalled /\ Len(<<>>) = 0
      BY <1>1, EmptySeq DEF CleanUp, procVars
    <2>2. QED
      BY <2>1
  <1>2. CASE Terminate
    <2>1. /\ cpc = "term" /\ ci \in 1 .. Len(workers) /\ workers' = workers
          /\ cpc' \in {"term", "clean"}
          /\ signalled' = IF Alive(workers[ci]) THEN signalled \cup {workers[ci]} ELSE signalled
      BY <1>2 DEF Terminate, Goto
    <2>2. signalled' = signalled
      BY <2>1
    <2>3. \A i \in 1 .. Len(workers) : ~Alive(workers[i])'
      BY <2>1
    <2>4. QED
      BY <2>1, <2>2, <2>3
  <1>3. CASE Join
    <2>1. /\ cpc = "join" /\ ci \in 1 .. Len(workers) /\ UNCHANGED <<workers, signalled>>
          /\ Alive(workers[ci]) => Blocked(workers[ci])
          /\ IF ci < Len(workers) THEN cpc' = "join" /\ ci' = ci + 1
             ELSE cpc' = "check" /\ ci' = 1
      BY <1>3 DEF Join, Goto, procVars
    <2>2. ~Alive(workers[ci])
      <3>1. ASSUME Alive(workers[ci]) PROVE FALSE
        <4>1. workers[ci] \in Pids
          BY <2>1
        <4>2. Len(pipe) # PipeSize
          BY <2>1, <3>1, <4>1 DEF Blocked, Roomy
        <4>3. wlock # NoOne => Alive(wlock)
          BY DEF Active
        <4>4. QED
          BY <2>1, <3>1, <4>2, <4>3 DEF Blocked
      <3>2. QED
        BY <3>1
    <2>3. \A i \in 1 .. ci : ~Alive(workers[i])'
      <3>1. ASSUME NEW i \in 1 .. ci PROVE ~Alive(workers[i])
        <4>1. CASE i = ci
          BY <2>2, <4>1
        <4>2. CASE i \in 1 .. ci - 1
          BY <2>1, <4>2
        <4>3. QED
          BY <4>1, <4>2
      <3>2. QED
        BY <2>1, <3>1 DEF Alive
    <2>4. QED
      BY <2>1, <2>3
  <1>4. CASE CheckFine \/ RespawnRefused \/ RespawnFails
    <2>1. /\ cpc = "check" /\ UNCHANGED <<workers, signalled>>
          /\ cpc' \in {"check", "term", "idle"}
      BY <1>4 DEF CheckFine, RespawnRefused, RespawnFails, NextCheck, Goto, procVars
    <2>2. \A i \in 1 .. Len(workers) : ~Alive(workers[i])'
      BY <2>1
    <2>3. QED
      BY <2>1, <2>2
  <1>5. CASE Stop
    <2>1. UNCHANGED <<workers, signalled>> /\ cpc' = "join" /\ ci' = 1
      BY <1>5 DEF Stop, Goto, procVars
    <2>2. QED
      BY <2>1
  <1>6. CASE \/ StopNotStarted \/ DrainResults \/ \E a \in Addrs : Submit(a)
             \/ SpawnFails \/ Started \/ SubmitStep \/ SubmitReturns \/ DrainOne \/ DrainEmpty
    <2>1. /\ UNCHANGED <<workers, signalled>>
          /\ cpc' \in {"idle", "drain", "submit"}
      BY <1>6 DEF StopNotStarted, DrainResults, Submit, SpawnFails, Started, SubmitStep,
         SubmitReturns, DrainOne, DrainEmpty, procVars, coordVars
    <2>2. QED
      BY <2>1
  <1>7. QED
    BY <1>1, <1>2, <1>3, <1>4, <1>5, <1>6, Zenon DEF QuietCall

(* The steps of a process, where nobody is killed.                         *)
LEMMA UnharmedProcess ==
  ASSUME Base, Typed, Unharmed, NoneKilled', NEW w \in Pids, ProcessStep(w)
  PROVE  Unharmed'
  <1>0. Lives /\ Coordinator
    BY DEF Base
  <1>1. /\ UNCHANGED <<coordVars, signalled>> /\ Active' \subseteq Active
        /\ \A v \in Pids : Alive(v)' => Alive(v)
        /\ \A v \in Active \ {w} : v \in Active'
        /\ life[w] = "alive"
    BY <1>0, ProcessFrame DEF Active, Alive
  <1>2. wlock' # NoOne => wlock' \in Active'
    <2>1. CASE FeederLocks(w)
      BY <2>1 DEF FeederLocks, procVars, Active, Alive
    <2>2. CASE FeederSends(w)
      BY <2>2 DEF FeederSends
    <2>3. CASE Killed(w) \/ Terminated(w)
      <3>1. wlock' = wlock /\ life'[w] = "crashed"
        BY <1>0, <2>3 DEF Killed, Terminated, Dies, Lives
      <3>2. w \in signalled
        BY <1>1, <3>1 DEF NoneKilled
      <3>3. w \notin Active
        BY <3>2 DEF Unharmed
      <3>4. QED
        BY <1>1, <3>1, <3>3 DEF Unharmed
    <2>4. CASE Exit(w)
      <3>1. wlock' = wlock /\ buffer[w] = <<>>
        BY <2>4 DEF Exit, queueVars
      <3>2. wlock # w
        BY <1>1, <3>1 DEF Typed, Queue, Alive
      <3>3. QED
        BY <1>1, <3>1, <3>2 DEF Unharmed
    <2>5. CASE Boot(w) \/ BootFails(w) \/ Poll(w) \/ GetStep(w) \/ GetReturns(w)
               \/ Work(w) \/ WorkFails(w) \/ CloseRing(w)
      <3>1. wlock' = wlock /\ UNCHANGED life /\ wpc'[w] # "stray"
        BY <1>0, <2>5 DEF Boot, BootFails, Poll, GetStep, GetReturns, Work, WorkFails,
           CloseRing, Worker, Lives, queueVars
      <3>2. w \in Active'
        BY <1>1, <3>1 DEF Active, Alive
      <3>3. QED
        BY <1>1, <3>1, <3>2 DEF Unharmed
    <2>6. QED
      BY <2>1, <2>2, <2>3, <2>4, <2>5, Zenon DEF ProcessStep, WorkerStep, Feeder
  <1>3. \A i \in 1 .. Len(workers) : workers[i] \in Pids
    BY <1>0 DEF Coordinator
  <1>4. QED
    BY <1>0, <1>1, <1>2, <1>3 DEF Unharmed, coordVars, Coordinator, Calls

LEMMA SparedStep ==
  ASSUME ~SlowWorkers, Roomy, Base, Typed, Spared, [Next]_vars
  PROVE  Spared'
  <1>0. Coordinator /\ Lives /\ Born /\ Posted
    BY DEF Base
  <1>1. ASSUME NEW v \in Pids, life'[v] = "unborn" PROVE v \notin signalled'
    <2>1. life[v] = "unborn"
      <3>1. CASE Start \/ QuietCall \/ UNCHANGED vars
        BY <1>1, <3>1, QuietFrame DEF Start, vars, procVars
      <3>2. CASE Spawn \/ Respawn
        BY <1>0, <1>1, <3>2, Launched DEF Spawn, Respawn, Lives
      <3>3. ASSUME NEW w \in Pids, ProcessStep(w) PROVE life[v] = "unborn"
        BY <1>0, <1>1, <3>3, ProcessFrame DEF Alive
      <3>4. QED
        BY <3>1, <3>2, <3>3, Steps, Zenon
    <2>2. CASE Terminate
      BY <2>1, <2>2 DEF Terminate, Alive, Spared
    <2>3. QED
      BY <2>1, <2>2, Signals DEF Spared
  <1>2. ASSUME NoneKilled' PROVE Unharmed'
    <2>1. NoneKilled /\ Unharmed
      BY <1>2, NoneKilledBefore DEF Spared
    <2>2. CASE Start
      <3>1. /\ workers' = <<>> /\ Len(<<>>) = 0 /\ wlock' = NoOne /\ cpc' = "spawn"
            /\ life' = life /\ \A w \in Pids : Alive(w) => wpc'[w] = "stray"
        BY <2>2, EmptySeq DEF Start
      <3>2. Active' = {}
        BY <3>1 DEF Active, Alive
      <3>3. QED
        BY <3>1, <3>2 DEF Unharmed
    <2>3. CASE Spawn
      <3> DEFINE new == ProcessIds[nproc + 1]
      <3>1. /\ new \in Pids /\ life[new] = "unborn" /\ life' = [life EXCEPT ![new] = "alive"]
            /\ workers' = Append(workers, new) /\ cpc' = "spawn"
            /\ UNCHANGED <<wpc, wlock, signalled>>
        BY <1>0, <2>3, Launched DEF Spawn, queueVars
      <3> HIDE DEF new
      <3>2. new \notin signalled
        BY <3>1 DEF Spared
      <3>3. Active \subseteq Active' /\ Active' \subseteq Active \cup {new}
        BY <1>0, <3>1 DEF Active, Alive, Lives
      <3>4. \A i \in 1 .. Len(workers') : workers'[i] = new \/ \E j \in 1 .. Len(workers) :
              workers'[i] = workers[j]
        <4>1. workers \in Seq(Pids)
          BY <1>0 DEF Coordinator
        <4>2. QED
          BY <3>1, <4>1, AppendProperties
      <3>5. QED
        BY <2>1, <3>1, <3>2, <3>3, <3>4 DEF Unharmed
    <2>4. CASE Respawn
      <3>1. life[workers[ci]] = "crashed" /\ ci \in 1 .. Len(workers) /\ workers[ci] \in Pids
        BY <1>0, <2>4 DEF Respawn, Crashed, Coordinator, Calls
      <3>2. QED
        BY <2>1, <3>1 DEF NoneKilled, Unharmed
    <2>5. CASE QuietCall
      BY <2>1, <2>5, UnharmedCall
    <2>6. ASSUME NEW w \in Pids, ProcessStep(w) PROVE Unharmed'
      BY <1>2, <2>1, <2>6, UnharmedProcess
    <2>7. CASE UNCHANGED vars
      BY <2>1, <2>7 DEF vars, coordVars, procVars, queueVars, Unharmed, Active, Alive
    <2>8. QED
      BY <2>2, <2>3, <2>4, <2>5, <2>6, <2>7, Steps, Zenon
  <1>3. QED
    BY <1>1, <1>2 DEF Spared

(* A process that dies has nothing to lose, where nobody was killed.       *)
Kept == NoneKilled => AllSent

LEMMA KeptStep ==
  ASSUME Base, Typed, Spared, Kept, [Next]_vars
  PROVE  Kept'
  <1> SUFFICES ASSUME NoneKilled' PROVE AllSent'
    BY DEF Kept
  <1>1. NoneKilled /\ Unharmed /\ AllSent
    BY NoneKilledBefore DEF Spared, Kept
  <1>2. ASSUME NEW w \in Pids, Dies(w) PROVE buffer[w] = <<>>
    <2>1. /\ Alive(w) /\ life'[w] = "crashed" /\ signalled' = signalled
      BY <1>2 DEF Dies, Base, Lives
    <2>2. w \notin Active
      BY <1>1, <2>1 DEF NoneKilled, Unharmed
    <2>3. QED
      BY <2>1, <2>2 DEF Active, Typed, Queue
  <1>3. QED
    BY <1>1, <1>2, AllSentStep

LEMMA KeptInvariant == ~SlowWorkers => (Spec /\ []Roomy => []Kept)
  <1> SUFFICES ASSUME ~SlowWorkers PROVE Spec /\ []Roomy => []Kept
    OBVIOUS
  <1>1. Init => Spared /\ Kept
    <2> SUFFICES ASSUME Init PROVE Spared /\ Kept
      OBVIOUS
    <2>1. /\ signalled = {} /\ workers = <<>> /\ processed = <<>> /\ Len(<<>>) = 0
          /\ wlock = NoOne /\ cpc = "idle"
      BY EmptySeq DEF Init
    <2>2. QED
      BY <2>1 DEF Spared, Unharmed, Kept, AllSent
  <1>2. Roomy /\ Base /\ Typed /\ Spared /\ Kept /\ [Next]_vars => Spared' /\ Kept'
    BY SparedStep, KeptStep
  <1>3. QED
    BY <1>1, <1>2, BaseInvariant, TypedInvariant, PTL DEF Spec

(* What is on its way when nobody lives and the pipe is empty was drained. *)
LEMMA AllDrained ==
  ASSUME Typed, AllSent, pipe = <<>>, \A w \in Pids : ~Alive(w),
         NEW a \in ToSet(processed)
  PROVE  ToSet(Results(a)) \subseteq drained
  <1>1. OnItsWay \subseteq drained
    <2>1. (\A w \in Pids : buffer[w] = <<>>) /\ Len(<<>>) = 0
      BY EmptySeq DEF Typed, Queue
    <2>2. QED
      BY <2>1 DEF OnItsWay
  <1>2. PICK i \in 1 .. Len(processed) : processed[i] = a
    BY DEF ToSet, Typed, Queue
  <1>3. Hits[a] \in Nat
    <2>1. processed \in Seq(Addrs) /\ Hits \in [Addrs -> Nat]
      BY ScannerAssumption DEF Typed, Queue
    <2>2. processed[i] \in Addrs
      BY <2>1
    <2>3. QED
      BY <1>2, <2>1, <2>2
  <1>4. ToSet(Results(a)) = {<<a, j>> : j \in 1 .. Hits[a]}
    BY <1>3 DEF ToSet, Results
  <1>5. \A j \in 1 .. Hits[a] : <<a, j>> \in OnItsWay
    BY <1>2 DEF AllSent
  <1>6. QED
    BY <1>1, <1>4, <1>5

(* drain_results() after stop() returns all that the workers found, for    *)
(* any number of workers, when nobody was killed, as long as no result     *)
(* ever waits for room in the pipe: the five seconds join() allows are     *)
(* outlasted by nobody then, and no worker is terminated.                  *)
THEOREM RoomyPipeLosesNothing ==
  ~SlowWorkers => (Spec /\ []Roomy => []DrainCollectsAll)
  <1> SUFFICES ASSUME ~SlowWorkers PROVE Spec /\ []Roomy => []DrainCollectsAll
    OBVIOUS
  <1>1. Typed /\ Kept => DrainCollectsAll
    BY AllDrained DEF Kept, NoneKilled, DrainCollectsAll
  <1>2. QED
    BY <1>1, TypedInvariant, KeptInvariant, PTL

-----------------------------------------------------------------------------
(* The client submits an address once, so the ring accepts it once, and    *)
(* the only worker processes it once.                                      *)

AcceptedOnce ==
  /\ Distinct(accepted)
  /\ pc[Coord] \in Ring!PutPoints => laddr[Coord] \notin ToSet(accepted)

LEMMA AcceptedOnceStep ==
  ASSUME RingTypes, AcceptedOnce, [Next]_vars
  PROVE  AcceptedOnce'
  <1> USE DEF RingTypes, Holders, Ring!PutPoints
  <1>0. Coord \notin Pids
    BY Processes
  <1>1. CASE Start
    <2>1. accepted' = <<>> /\ pc'[Coord] = "idle"
      BY <1>1 DEF Start
    <2>2. QED
      BY <2>1, EmptyList DEF AcceptedOnce
  <1>2. ASSUME accepted' = accepted, laddr'[Coord] = laddr[Coord],
               pc'[Coord] \in Ring!PutPoints => pc[Coord] \in Ring!PutPoints
        PROVE  AcceptedOnce'
    BY <1>2 DEF AcceptedOnce
  <1>3. ASSUME NEW a \in Addrs, Submit(a) PROVE AcceptedOnce'
    <2>1. accepted' = accepted /\ laddr'[Coord] = a /\ \A i \in 1 .. Len(accepted) : accepted[i] # a
      BY <1>3 DEF Submit, Ring!PutCall, Ring!history
    <2>2. a \notin ToSet(accepted)
      BY <2>1, ListElements
    <2>3. QED
      BY <2>1, <2>2 DEF AcceptedOnce
  <1>4. CASE SubmitStep
    <2>1. CASE Ring!PutEnter(Coord)
      BY <1>2, <2>1 DEF Ring!PutEnter, Ring!Acquire, Ring!history
    <2>2. CASE Ring!PutReadTail(Coord)
      BY <1>2, <2>2 DEF Ring!PutReadTail, Ring!history
    <2>3. CASE Ring!PutStore(Coord)
      BY <1>2, <2>3 DEF Ring!PutStore, Ring!locals, Ring!history
    <2>4. CASE Ring!PutPublish(Coord)
      <3>1. /\ accepted' = Append(accepted, laddr[Coord]) /\ pc'[Coord] = "leave"
            /\ laddr[Coord] \notin ToSet(accepted)
        BY <2>4 DEF Ring!PutPublish, AcceptedOnce
      <3>2. IsList(accepted)
        BY TypedList
      <3>3. QED
        BY <3>1, <3>2, AppendedList DEF AcceptedOnce
    <2>5. QED
      BY <1>4, <2>1, <2>2, <2>3, <2>4 DEF SubmitStep
  <1>5. CASE SubmitReturns
    BY <1>2, <1>5 DEF SubmitReturns, Ring!Leave, Ring!locals, Ring!history
  <1>6. CASE CleanUp
    BY <1>2, <1>6 DEF CleanUp, Ring!Unlink, Ring!locals, Ring!history
  <1>7. ASSUME NEW w \in Pids, ProcessStep(w) PROVE AcceptedOnce'
    <2>1. /\ accepted' = accepted /\ pc'[Coord] = pc[Coord] /\ laddr'[Coord] = laddr[Coord]
      BY <1>0, <1>7, WorkerFrame
    <2>2. QED
      BY <1>2, <2>1
  <1>8. ASSUME \/ Stop \/ StopNotStarted \/ DrainResults \/ SpawnFails \/ Started
               \/ DrainOne \/ DrainEmpty \/ Join \/ CheckFine \/ RespawnFails
               \/ RespawnRefused \/ Terminate \/ Spawn \/ Respawn \/ UNCHANGED vars
        PROVE  UNCHANGED ringVars
    BY <1>8 DEF Stop, StopNotStarted, DrainResults, SpawnFails, Started, DrainOne, DrainEmpty,
                Join, CheckFine, RespawnFails, RespawnRefused, Terminate, Spawn, Respawn, vars
  <1>9. UNCHANGED ringVars => AcceptedOnce'
    BY <1>2 DEF ringVars
  <1>10. QED
    BY <1>1, <1>3, <1>4, <1>5, <1>6, <1>7, <1>8, <1>9, Steps, Zenon DEF QuietCall

LEMMA AcceptedOnceInvariant == Spec => []AcceptedOnce
  <1>1. Init => AcceptedOnce
    <2> SUFFICES ASSUME Init PROVE AcceptedOnce
      OBVIOUS
    <2>1. accepted = <<>> /\ pc[Coord] = "idle"
      BY DEF Init, Ring!Init, Ring!Procs
    <2>2. QED
      BY <2>1, EmptyList DEF AcceptedOnce, Ring!PutPoints
  <1>2. Base /\ AcceptedOnce /\ [Next]_vars => AcceptedOnce'
    BY AcceptedOnceStep, RingIsTyped DEF Base
  <1>3. QED
    BY <1>1, <1>2, BaseInvariant, PTL DEF Spec

LEMMA NewAddress ==
  ASSUME Base, Typed, Data, InOrder, AcceptedOnce, NEW w \in Pids, Work(w)
  PROVE  ~Done(laddr[w])
  <1>1. Pending(w) /\ Busy
    BY DEF Work, Worker, Pending, Busy
  <1>2. /\ delivered \in Seq(Addrs \cup {0}) /\ accepted \in Seq(Addrs)
        /\ Len(delivered) \in Nat /\ Len(accepted) \in Nat
        /\ Len(delivered) > 0 /\ laddr[w] = delivered[Len(delivered)]
    BY <1>1, RingIsTyped DEF Base, RingTypes, InOrder
  <1>3. /\ Len(delivered) <= Len(accepted)
        /\ \A k \in 1 .. Len(delivered) : delivered[k] = accepted[k]
    BY DEF Data, RP!DataInv, RP!DeliveredInOrder
  <1>4. ASSUME NEW i \in 1 .. Len(processed), processed[i] = laddr[w] PROVE FALSE
    <2>1. PICK k \in 1 .. Len(delivered) - 1 : delivered[k] = laddr[w]
      BY <1>1, <1>4 DEF InOrder, Taken
    <2>2. /\ k \in DOMAIN accepted /\ Len(delivered) \in DOMAIN accepted
          /\ accepted[k] = accepted[Len(delivered)]
      BY <1>2, <1>3, <2>1
    <2>3. k = Len(delivered)
      BY <2>2 DEF AcceptedOnce, Distinct
    <2>4. QED
      BY <1>2, <2>1, <2>3
  <1>5. QED
    BY <1>4 DEF Done

-----------------------------------------------------------------------------
(* One worker slot: a candidate is in one place only.                      *)

Found == {c \in Candidates : c[2] \in 1 .. Hits[c[1]]}
Known == {c \in Found : Done(c[1])}

Single ==
  /\ drained \subseteq Known
  /\ Distinct(pipe) /\ ToSet(pipe) \subseteq Known \ drained
  /\ \A w \in Pids : /\ Distinct(buffer[w])
                     /\ ToSet(buffer[w]) \subseteq Known \ (drained \cup ToSet(pipe))

(* The candidates of a window are distinct.                                *)
LEMMA NewResults ==
  ASSUME NEW a \in Addrs
  PROVE  /\ Results(a) \in Seq(Candidates) /\ Distinct(Results(a))
         /\ \A c \in ToSet(Results(a)) : c \in Found /\ c[1] = a
  <1>1. Hits[a] \in Nat /\ Results(a) \in Seq(Candidates)
    BY ScannerAssumption, ResultsAreCandidates
  <1>2. DOMAIN Results(a) = 1 .. Hits[a] /\ \A j \in 1 .. Hits[a] : Results(a)[j] = <<a, j>>
    BY DEF Results
  <1>3. Distinct(Results(a))
    BY <1>2 DEF Distinct
  <1>4. ASSUME NEW c \in ToSet(Results(a)) PROVE c \in Found /\ c[1] = a
    <2>1. PICK j \in 1 .. Hits[a] : c = <<a, j>>
      BY <1>2 DEF ToSet
    <2>2. QED
      BY <1>1, <2>1 DEF Found, Candidates
  <1>5. QED
    BY <1>1, <1>3, <1>4

LEMMA SingleWork ==
  ASSUME Base, Typed, Single, NEW w \in Pids, Work(w), ~Done(laddr[w]),
         Known \subseteq Known'
  PROVE  Single'
  <1> DEFINE a == laddr[w]
             new == Results(a)
  <1>1. /\ a \in Addrs /\ processed' = Append(processed, a)
        /\ UNCHANGED <<pipe, drained>> /\ processed \in Seq(Addrs)
        /\ buffer' = [buffer EXCEPT ![w] = @ \o new] /\ buffer \in [Pids -> Seq(Candidates)]
    BY Buffered DEF Work, Typed, Queue
  <1>2. \E i \in 1 .. Len(processed') : processed'[i] = a
    <2>1. /\ Len(processed) + 1 \in 1 .. Len(processed')
          /\ processed'[Len(processed) + 1] = a
      BY <1>1, AppendProperties
    <2>2. QED
      BY <2>1
  <1>3. /\ new \in Seq(Candidates) /\ Distinct(new)
        /\ \A c \in ToSet(new) : c \in Found /\ c[1] = a
    BY <1>1, NewResults
  <1> HIDE DEF a, new
  <1>4. ToSet(new) \subseteq Known' /\ ToSet(new) \cap Known = {}
    <2>1. ToSet(new) \subseteq Known'
      BY <1>2, <1>3 DEF Known, Found, Candidates, Done
    <2>2. ToSet(new) \cap Known = {}
      BY <1>3 DEF Known, a
    <2>3. QED
      BY <2>1, <2>2
  <1>5. /\ Distinct(buffer[w] \o new)
        /\ ToSet(buffer[w] \o new) = ToSet(buffer[w]) \cup ToSet(new)
    <2>1. buffer[w] \in Seq(Candidates) /\ Distinct(buffer[w]) /\ ToSet(buffer[w]) \subseteq Known
      BY <1>1 DEF Single
    <2>2. ToSet(buffer[w]) \cap ToSet(new) = {}
      BY <1>4, <2>1
    <2>3. QED
      BY <1>3, <2>1, <2>2, JoinedList
  <1>6. \A v \in Pids : buffer'[v] = IF v = w THEN buffer[w] \o new ELSE buffer[v]
    BY <1>1
  <1>7. ASSUME NEW v \in Pids
        PROVE  /\ Distinct(buffer'[v])
               /\ ToSet(buffer'[v]) \subseteq Known' \ (drained \cup ToSet(pipe))
    <2>1. /\ Distinct(buffer[v])
          /\ ToSet(buffer[v]) \subseteq Known \ (drained \cup ToSet(pipe))
          /\ drained \subseteq Known /\ ToSet(pipe) \subseteq Known
      BY DEF Single
    <2>2. CASE v # w
      BY <1>6, <2>1, <2>2
    <2>3. CASE v = w
      <3>1. buffer'[v] = buffer[w] \o new
        BY <1>6, <2>3
      <3>2. ToSet(buffer[w]) \cup ToSet(new) \subseteq Known' \ (drained \cup ToSet(pipe))
        BY <1>4, <2>1, <2>3
      <3>3. QED
        BY <1>5, <3>1, <3>2
    <2>4. QED
      BY <2>2, <2>3
  <1>8. QED
    BY <1>1, <1>7 DEF Single

LEMMA SingleSent ==
  ASSUME NumWorkers = 1, Team, Base, Typed, Single, NEW w \in Pids, FeederSends(w),
         Known \subseteq Known'
  PROVE  Single'
  <1> DEFINE c == Head(buffer[w])
             rest == Tail(buffer[w])
  <1>1. /\ Alive(w) /\ wlock = w /\ pipe' = Append(pipe, c) /\ drained' = drained
        /\ buffer' = [buffer EXCEPT ![w] = rest]
        /\ buffer \in [Pids -> Seq(Candidates)] /\ pipe \in Seq(Candidates)
        /\ buffer[w] # <<>>
    BY DEF FeederSends, Typed, Queue
  <1>2. /\ Distinct(buffer[w]) /\ Distinct(pipe) /\ drained \subseteq Known
        /\ ToSet(buffer[w]) \subseteq Known \ (drained \cup ToSet(pipe))
        /\ ToSet(pipe) \subseteq Known \ drained
    BY DEF Single
  <1>3. /\ c \in ToSet(buffer[w]) /\ c \notin ToSet(rest) /\ Distinct(rest)
        /\ ToSet(buffer[w]) = {c} \cup ToSet(rest)
    <2>1. buffer[w] \in Seq(Candidates)
      BY <1>1
    <2>2. QED
      BY <1>1, <1>2, <2>1, TailedList
  <1> HIDE DEF c, rest
  <1>4. /\ Distinct(pipe') /\ ToSet(pipe') = ToSet(pipe) \cup {c}
    <2>1. IsList(pipe) /\ c \notin ToSet(pipe)
      BY <1>1, <1>2, <1>3, TypedList
    <2>2. QED
      BY <1>1, <1>2, <2>1, AppendedList
  <1>5. ASSUME NEW v \in Pids, v # w PROVE buffer'[v] = <<>>
    <2>1. buffer[v] # <<>> => v \in Active
      BY DEF Typed, Queue, Active
    <2>2. w \in Active
      BY <1>1 DEF Typed, Queue, Active
    <2>3. QED
      BY <1>1, <1>5, <2>1, <2>2, OneActive
  <1>6. buffer'[w] = rest
    BY <1>1
  <1>7. ASSUME NEW v \in Pids
        PROVE  /\ Distinct(buffer'[v])
               /\ ToSet(buffer'[v]) \subseteq Known' \ (drained' \cup ToSet(pipe'))
    <2>1. CASE v = w
      BY <1>1, <1>2, <1>3, <1>4, <1>6, <2>1
    <2>2. CASE v # w
      BY <1>5, <2>2, EmptyList
    <2>3. QED
      BY <2>1, <2>2
  <1>8. ToSet(pipe') \subseteq Known' \ drained' /\ drained' \subseteq Known'
    BY <1>1, <1>2, <1>3, <1>4
  <1>9. QED
    BY <1>4, <1>7, <1>8 DEF Single

LEMMA SingleStep ==
  ASSUME NumWorkers = 1, Base, Typed, Team, Data, InOrder, AcceptedOnce, Single, [Next]_vars
  PROVE  Single'
  <1>0. Coordinator /\ Lives /\ Born /\ Posted
    BY DEF Base
  <1>1. CASE Start
    <2>1. /\ pipe' = <<>> /\ drained' = {} /\ \A w \in Pids : buffer'[w] = <<>>
      BY <1>1 DEF Start
    <2>2. QED
      BY <2>1, EmptyList DEF Single
  <1>2. CASE ~Start
    <2>1. Known \subseteq Known'
      BY <1>2, DoneStays DEF Known
    <2>2. ASSUME UNCHANGED <<pipe, drained>>,
                 \A w \in Pids : buffer'[w] = buffer[w] \/ buffer'[w] = <<>>
          PROVE  Single'
      BY <2>1, <2>2, EmptyList DEF Single
    <2>3. CASE DrainOne
      <3>1. /\ pipe # <<>> /\ drained' = drained \cup {Head(pipe)} /\ pipe' = Tail(pipe)
            /\ buffer' = buffer /\ pipe \in Seq(Candidates)
        BY <2>3 DEF DrainOne, Typed, Queue
      <3>2. /\ Head(pipe) \in ToSet(pipe) /\ ToSet(pipe) = {Head(pipe)} \cup ToSet(pipe')
            /\ Distinct(pipe') /\ Head(pipe) \notin ToSet(pipe')
        BY <3>1, TailedList DEF Single
      <3>3. drained' \cup ToSet(pipe') = drained \cup ToSet(pipe)
        BY <3>1, <3>2
      <3>4. \A w \in Pids : ToSet(buffer'[w]) = ToSet(buffer[w])
        BY <3>1
      <3>5. ToSet(pipe') \subseteq Known' \ drained' /\ drained' \subseteq Known'
        BY <2>1, <3>1, <3>2 DEF Single
      <3>6. QED
        BY <2>1, <3>1, <3>2, <3>3, <3>4, <3>5 DEF Single
    <2>4. CASE (QuietCall /\ ~DrainOne) \/ Spawn \/ Respawn \/ UNCHANGED vars
      <3>1. UNCHANGED <<pipe, drained, buffer>>
        BY <2>4 DEF QuietCall, Stop, StopNotStarted, DrainResults, Submit, SpawnFails,
           Started, SubmitStep, SubmitReturns, DrainEmpty, Join, CheckFine, RespawnFails,
           RespawnRefused, Terminate, CleanUp, Spawn, Respawn, vars, queueVars
      <3>2. QED
        BY <2>2, <3>1
    <2>5. ASSUME NEW w \in Pids, ProcessStep(w) PROVE Single'
      <3>1. CASE Work(w)
        BY <2>1, <3>1, NewAddress, SingleWork
      <3>2. CASE FeederSends(w)
        BY <2>1, <3>2, SingleSent
      <3>3. CASE Killed(w) \/ Terminated(w)
        <4>1. UNCHANGED <<pipe, drained>> /\ buffer' = [buffer EXCEPT ![w] = <<>>]
          BY <3>3 DEF Killed, Terminated, Dies
        <4>2. \A v \in Pids : buffer'[v] = buffer[v] \/ buffer'[v] = <<>>
          BY <4>1 DEF Typed, Queue
        <4>3. QED
          BY <2>2, <4>1, <4>2
      <3>4. CASE Boot(w) \/ BootFails(w) \/ Poll(w) \/ GetStep(w) \/ GetReturns(w)
                 \/ WorkFails(w) \/ CloseRing(w) \/ Exit(w) \/ FeederLocks(w)
        <4>1. UNCHANGED <<pipe, drained, buffer>>
          BY <3>4 DEF Boot, BootFails, Poll, GetStep, GetReturns, WorkFails, CloseRing, Exit,
             FeederLocks, queueVars
        <4>2. QED
          BY <2>2, <4>1
      <3>5. QED
        BY <2>5, <3>1, <3>2, <3>3, <3>4, Zenon DEF ProcessStep, WorkerStep, Feeder
    <2>6. QED
      BY <1>2, <2>3, <2>4, <2>5, Steps, Zenon
  <1>3. QED
    BY <1>1, <1>2

LEMMA SingleInvariant == NumWorkers = 1 => (Spec => []Single)
  <1> SUFFICES ASSUME NumWorkers = 1 PROVE Spec => []Single
    OBVIOUS
  <1>1. Init => Single
    <2> SUFFICES ASSUME Init PROVE Single
      OBVIOUS
    <2>1. /\ pipe = <<>> /\ drained = {} /\ \A w \in Pids : buffer[w] = <<>>
      BY DEF Init
    <2>2. QED
      BY <2>1, EmptyList DEF Single
  <1>2. Base /\ Typed /\ Team /\ Data /\ InOrder /\ AcceptedOnce /\ Single /\ [Next]_vars
          => Single'
    BY SingleStep
  <1>3. QED
    BY <1>1, <1>2, BaseInvariant, TypedInvariant, TeamInvariant, OrderInvariant,
       AcceptedOnceInvariant, PTL DEF Spec

(* With one worker slot drain_results() returns no candidate twice: an     *)
(* address is accepted once and processed once, and a candidate is in one  *)
(* buffer or in the pipe or drained, wherever a worker dies and whoever    *)
(* takes its place.                                                        *)
THEOREM OneWorkerReportsOnce == NumWorkers = 1 => (Spec => []ReportedOnce)
  <1> SUFFICES ASSUME NumWorkers = 1 PROVE Spec => []ReportedOnce
    OBVIOUS
  <1>1. Typed /\ Single => ReportedOnce
    <2> SUFFICES ASSUME Typed, Single, NEW k \in 1 .. Len(pipe)
                 PROVE  /\ pipe[k] \notin drained
                        /\ \A l \in 1 .. k - 1 : pipe[l] # pipe[k]
      BY DEF ReportedOnce
    <2>1. /\ pipe[k] \in ToSet(pipe) /\ Len(pipe) \in Nat /\ DOMAIN pipe = 1 .. Len(pipe)
      BY ListElements, TypedList DEF Typed, Queue
    <2>2. \A l \in 1 .. k - 1 : l \in DOMAIN pipe /\ l # k
      BY <2>1
    <2>3. QED
      BY <2>1, <2>2 DEF Single, Distinct
  <1>2. QED
    BY <1>1, TypedInvariant, SingleInvariant, PTL

-----------------------------------------------------------------------------
(* One worker slot and a pipe for all candidates there are.                *)

LEMMA FoundIsFinite == IsFiniteSet(Found)
  <1> DEFINE At(a) == {c \in Found : c[1] = a}
             All == {At(a) : a \in Addrs}
  <1>1. IsFiniteSet(All)
    <2>1. [a \in Addrs |-> At(a)] \in Surjection(Addrs, All)
      BY Zenon DEF Surjection
    <2>2. QED
      BY <2>1, FS_Surjection, ScannerAssumption
  <1>2. ASSUME NEW a \in Addrs PROVE IsFiniteSet(At(a))
    <2>1. Hits[a] \in Nat
      BY ScannerAssumption
    <2>2. IsFiniteSet(1 .. Hits[a])
      BY <2>1, FS_Interval
    <2>3. [j \in 1 .. Hits[a] |-> <<a, j>>] \in Surjection(1 .. Hits[a], At(a))
      <3>1. \A j \in 1 .. Hits[a] : <<a, j>> \in At(a)
        BY <2>1 DEF Found, Candidates
      <3>2. \A c \in At(a) : \E j \in 1 .. Hits[a] : <<a, j>> = c
        BY DEF Found, Candidates
      <3> HIDE DEF At
      <3>3. QED
        BY <3>1, <3>2, Zenon DEF Surjection
    <2>4. QED
      BY <2>2, <2>3, FS_Surjection
  <1>3. Found \subseteq UNION All
    BY DEF Found, Candidates
  <1> HIDE DEF At
  <1>4. IsFiniteSet(UNION All)
    BY <1>1, <1>2, FS_UNION
  <1>5. QED
    BY <1>3, <1>4, FS_Subset

LEMMA RoomForAll ==
  ASSUME Typed, Single, Cardinality(Found) <= PipeSize
  PROVE  Roomy
  <1> SUFFICES ASSUME NEW w \in Pids, buffer[w] # <<>> PROVE Len(pipe) < PipeSize
    BY DEF Roomy
  <1> DEFINE c == Head(buffer[w])
             Others == Found \ {c}
  <1>1. c \in Found /\ c \notin ToSet(pipe)
    <2>1. buffer[w] \in Seq(Candidates)
      BY DEF Typed, Queue
    <2>2. c \in ToSet(buffer[w])
      BY <2>1, TailedList
    <2>3. QED
      BY <2>2 DEF Single, Known
  <1>2. /\ IsFiniteSet(Others) /\ Cardinality(Others) = Cardinality(Found) - 1
        /\ Cardinality(Found) \in Nat
    BY <1>1, FoundIsFinite, FS_RemoveElement, FS_CardinalityType
  <1>3. /\ Len(pipe) \in Nat /\ DOMAIN pipe = 1 .. Len(pipe)
        /\ \A k \in 1 .. Len(pipe) : pipe[k] \in ToSet(pipe)
        /\ pipe \in [1 .. Len(pipe) -> Candidates]
    BY ListElements, TypedList DEF Typed, Queue
  <1> HIDE DEF c
  <1>4. \A k \in 1 .. Len(pipe) : pipe[k] \in Others
    BY <1>1, <1>3 DEF Single, Known
  <1>5. pipe \in Injection(1 .. Len(pipe), Others)
    <2>1. pipe \in [1 .. Len(pipe) -> Others]
      BY <1>3, <1>4
    <2>2. \A k, l \in 1 .. Len(pipe) : pipe[k] = pipe[l] => k = l
      BY <1>3 DEF Single, Distinct
    <2>3. QED
      BY <1>3, <2>1, <2>2, Zenon DEF Injection, IsInjective
  <1>6. Cardinality(1 .. Len(pipe)) <= Cardinality(Others)
    BY <1>2, <1>5, FS_Injection, Zenon
  <1>7. Cardinality(1 .. Len(pipe)) = Len(pipe)
    <2>1. 1 \in Int /\ Len(pipe) \in Int
      BY <1>3
    <2>2. Cardinality(1 .. Len(pipe)) = IF 1 > Len(pipe) THEN 0 ELSE Len(pipe) - 1 + 1
      BY <2>1, FS_Interval, Zenon
    <2>3. QED
      BY <1>3, <2>2
  <1>8. QED
    BY <1>2, <1>3, <1>6, <1>7, ScannerAssumption

(* With one worker slot that is killed by nobody and never late, and a     *)
(* pipe that holds all the candidates of the addresses there are,          *)
(* drain_results() after stop() returns all that was found.                *)
THEOREM LargePipeLosesNothing ==
  NumWorkers = 1 /\ ~SlowWorkers /\ Cardinality(Found) <= PipeSize
    => (Spec => []DrainCollectsAll)
  <1> SUFFICES ASSUME NumWorkers = 1, ~SlowWorkers, Cardinality(Found) <= PipeSize
               PROVE  Spec => []DrainCollectsAll
    OBVIOUS
  <1>1. Typed /\ Single => Roomy
    BY RoomForAll
  <1>2. QED
    BY <1>1, TypedInvariant, SingleInvariant, RoomyPipeLosesNothing, PTL

-----------------------------------------------------------------------------
(* One worker slot implements the abstract stream, step by step.           *)

LEMMA StreamFrame ==
  ASSUME UNCHANGED <<accepted, processed, drained>>, Unreturned' \subseteq Unreturned
  PROVE  CS!Next
  BY DEF CS!Next, CS!Lose

(* Only put() extends what was accepted.                                   *)
LEMMA StreamAccepts ==
  ASSUME RingTypes, Putting, AcceptedOnce, [Next]_vars, ~Start
  PROVE  \/ accepted' = accepted
         \/ /\ \E a \in Addrs : CS!Accept(a)
            /\ UNCHANGED <<processed, drained, pipe, buffer>>
  <1>1. CASE QuietCall
    <2>1. CASE SubmitStep /\ Ring!PutPublish(Coord)
      <3>1. /\ accepted' = Append(accepted, laddr[Coord])
            /\ laddr[Coord] \in Addrs /\ laddr[Coord] \notin ToSet(accepted)
        BY <2>1 DEF Ring!PutPublish, Putting, AcceptedOnce, Ring!PutPoints
      <3>2. \A i \in 1 .. Len(accepted) : accepted[i] # laddr[Coord]
        BY <3>1, TypedList DEF RingTypes
      <3>3. UNCHANGED <<processed, drained, pipe, buffer>>
        BY <2>1 DEF SubmitStep, queueVars
      <3>4. Unreturned' = Unreturned
        BY <3>3 DEF Unreturned
      <3>5. QED
        BY <3>1, <3>2, <3>3, <3>4 DEF CS!Accept
    <2>2. CASE ~(SubmitStep /\ Ring!PutPublish(Coord))
      BY <1>1, <2>2 DEF QuietCall, Stop, StopNotStarted, DrainResults, Submit, SpawnFails,
         Started, SubmitStep, SubmitReturns, DrainOne, DrainEmpty, Join, CheckFine,
         RespawnFails, RespawnRefused, Terminate, CleanUp, ringVars, Ring!PutCall,
         Ring!PutEnter, Ring!Acquire, Ring!PutReadTail, Ring!PutStore, Ring!Leave,
         Ring!Unlink, Ring!history
    <2>3. QED
      BY <2>1, <2>2
  <1>2. CASE Spawn \/ Respawn \/ UNCHANGED vars
    BY <1>2 DEF Spawn, Respawn, vars, ringVars
  <1>3. ASSUME NEW w \in Pids, ProcessStep(w) PROVE accepted' = accepted
    BY <1>3, WorkerFrame
  <1>4. QED
    BY <1>1, <1>2, <1>3, Steps, Zenon

(* _process_address() scans what was accepted after all it scanned before. *)
LEMMA StreamScans ==
  ASSUME Base, Typed, Data, InOrder, NEW w \in Pids, Work(w)
  PROVE  CS!Next
  <1>1. /\ laddr[w] \in Addrs /\ processed' = Append(processed, laddr[w])
        /\ UNCHANGED <<pipe, drained, accepted>>
        /\ buffer' = [buffer EXCEPT ![w] = @ \o Results(laddr[w])]
        /\ buffer \in [Pids -> Seq(Candidates)]
    BY Buffered DEF Work, ringVars, Typed, Queue
  <1>2. Pending(w) /\ Busy
    BY DEF Work, Worker, Pending, Busy
  <1>3. /\ Len(delivered) \in Nat /\ Len(accepted) \in Nat
        /\ Len(delivered) > 0 /\ laddr[w] = delivered[Len(delivered)]
        /\ Len(delivered) <= Len(accepted)
        /\ \A k \in 1 .. Len(delivered) : delivered[k] = accepted[k]
    BY <1>2, RingIsTyped DEF Base, RingTypes, InOrder, Data, RP!DataInv, RP!DeliveredInOrder
  <1>4. CS!InTurn(laddr[w])
    <2>1. ASSUME NEW i \in 1 .. Len(processed)
          PROVE  \E k \in 1 .. Len(delivered) - 1 : accepted[k] = processed[i]
      <3>1. PICK k \in 1 .. Len(delivered) - 1 : delivered[k] = processed[i]
        BY <1>2 DEF InOrder, Taken
      <3>2. QED
        BY <1>3, <3>1
    <2>2. Len(delivered) \in 1 .. Len(accepted) /\ accepted[Len(delivered)] = laddr[w]
      BY <1>3
    <2>3. QED
      BY <2>1, <2>2 DEF CS!InTurn
  <1>5. Unreturned' = Unreturned \cup {<<laddr[w], i>> : i \in 1 .. Hits[laddr[w]]}
    <2> DEFINE new == Results(laddr[w])
    <2>1. new \in Seq(Candidates) /\ ToSet(new) = {<<laddr[w], i>> : i \in 1 .. Hits[laddr[w]]}
      <3>1. Hits[laddr[w]] \in Nat
        BY <1>1, ScannerAssumption
      <3>2. QED
        BY <1>1, <3>1, ResultsAreCandidates DEF ToSet, Results
    <2> HIDE DEF new
    <2>2. \A v \in Pids : ToSet(buffer'[v]) =
            IF v = w THEN ToSet(buffer[w]) \cup ToSet(new) ELSE ToSet(buffer[v])
      <3>1. buffer[w] \in Seq(Candidates)
        BY <1>1
      <3>2. ToSet(buffer[w] \o new) = ToSet(buffer[w]) \cup ToSet(new)
        BY <2>1, <3>1, JoinedList
      <3>3. \A v \in Pids : buffer'[v] = IF v = w THEN buffer[w] \o new ELSE buffer[v]
        BY <1>1 DEF new
      <3>4. QED
        BY <3>2, <3>3
    <2>3. w \in Pids
      BY ScannerAssumption DEF Work, Worker, Pids
    <2>4. ASSUME NEW c
          PROVE  c \in Unreturned' <=> c \in Unreturned \/ c \in ToSet(new)
      <3>1. c \in Unreturned' <=> c \in ToSet(pipe) \/ \E v \in Pids : c \in ToSet(buffer'[v])
        BY <1>1 DEF Unreturned
      <3>2. c \in Unreturned <=> c \in ToSet(pipe) \/ \E v \in Pids : c \in ToSet(buffer[v])
        BY DEF Unreturned
      <3>3. (\E v \in Pids : c \in ToSet(buffer'[v]))
              <=> (\E v \in Pids : c \in ToSet(buffer[v])) \/ c \in ToSet(new)
        BY <2>2, <2>3
      <3>4. QED
        BY <3>1, <3>2, <3>3, Zenon
    <2>5. QED
      BY <2>1, <2>4
  <1>6. CS!Scan(laddr[w])
    BY <1>1, <1>4, <1>5 DEF CS!Scan
  <1>7. QED
    BY <1>1, <1>6 DEF CS!Next

(* get_nowait() takes a candidate off the pipe that is nowhere else.       *)
LEMMA StreamDrains ==
  ASSUME Typed, Single, DrainOne
  PROVE  CS!Next
  <1>1. /\ pipe # <<>> /\ drained' = drained \cup {Head(pipe)} /\ pipe' = Tail(pipe)
        /\ UNCHANGED <<buffer, accepted, processed>> /\ pipe \in Seq(Candidates)
    BY DEF DrainOne, ringVars, Typed, Queue
  <1>2. /\ Head(pipe) \in ToSet(pipe) /\ ToSet(pipe) = {Head(pipe)} \cup ToSet(pipe')
        /\ Head(pipe) \notin ToSet(pipe')
    BY <1>1, TailedList DEF Single
  <1>3. \A w \in Pids : Head(pipe) \notin ToSet(buffer[w])
    BY <1>2 DEF Single
  <1>4. Unreturned' = Unreturned \ {Head(pipe)} /\ Head(pipe) \in Unreturned
    BY <1>1, <1>2, <1>3 DEF Unreturned
  <1>5. CS!Drain(Head(pipe))
    BY <1>1, <1>4 DEF CS!Drain
  <1>6. QED
    BY <1>4, <1>5 DEF CS!Next

LEMMA StreamStep ==
  ASSUME Base, Typed, Data, InOrder, AcceptedOnce, Single, [Next]_vars
  PROVE  [CS!Next]_(CS!vars)
  <1>0. RingTypes
    BY RingIsTyped DEF Base
  <1>1. CASE Start
    <2>1. /\ accepted' = <<>> /\ processed' = <<>> /\ drained' = {} /\ pipe' = <<>>
          /\ \A w \in Pids : buffer'[w] = <<>>
      BY <1>1 DEF Start
    <2>2. Unreturned' = {}
      BY <2>1, EmptyList DEF Unreturned
    <2>3. QED
      BY <2>1, <2>2 DEF CS!Next, CS!Begin
  <1>2. CASE ~Start /\ accepted' # accepted
    BY <1>0, <1>2, StreamAccepts DEF CS!Next, Typed
  <1>3. CASE ~Start /\ accepted' = accepted
    <2>1. CASE DrainOne
      BY <2>1, StreamDrains
    <2>2. CASE (QuietCall /\ ~DrainOne) \/ Spawn \/ Respawn \/ UNCHANGED vars
      <3>1. UNCHANGED <<pipe, drained, buffer, processed>>
        BY <2>2 DEF QuietCall, Stop, StopNotStarted, DrainResults, Submit, SpawnFails,
           Started, SubmitStep, SubmitReturns, DrainEmpty, Join, CheckFine, RespawnFails,
           RespawnRefused, Terminate, CleanUp, Spawn, Respawn, vars, queueVars
      <3>2. QED
        BY <1>3, <3>1, StreamFrame DEF Unreturned
    <2>3. ASSUME NEW w \in Pids, ProcessStep(w) PROVE CS!Next
      <3>1. CASE Work(w)
        BY <3>1, StreamScans
      <3>2. CASE ~Work(w)
        <4>1. processed' = processed /\ drained' = drained
          <5>1. CASE GetStep(w)
            BY <5>1 DEF GetStep, queueVars
          <5>2. CASE Boot(w) \/ BootFails(w) \/ Poll(w) \/ GetReturns(w) \/ CloseRing(w)
            BY <5>2 DEF Boot, BootFails, Poll, GetReturns, CloseRing, queueVars
          <5>3. CASE WorkFails(w) \/ Exit(w) \/ FeederLocks(w) \/ FeederSends(w)
            BY <5>3 DEF WorkFails, Exit, FeederLocks, FeederSends, queueVars
          <5>4. CASE Killed(w) \/ Terminated(w)
            BY <5>4 DEF Killed, Terminated, Dies
          <5>5. QED
            BY <2>3, <3>2, <5>1, <5>2, <5>3, <5>4, Zenon DEF ProcessStep, WorkerStep, Feeder
        <4>2. Unreturned' \subseteq Unreturned
          <5>1. CASE FeederSends(w)
            <6>1. /\ pipe' = Append(pipe, Head(buffer[w])) /\ pipe \in Seq(Candidates)
                  /\ buffer' = [buffer EXCEPT ![w] = Tail(@)]
                  /\ buffer \in [Pids -> Seq(Candidates)] /\ buffer[w] # <<>>
              BY <5>1 DEF FeederSends, Typed, Queue
            <6>2. /\ Head(buffer[w]) \in ToSet(buffer[w])
                  /\ ToSet(Tail(buffer[w])) \subseteq ToSet(buffer[w])
              <7>1. buffer[w] \in Seq(Candidates)
                BY <6>1
              <7>2. QED
                BY <6>1, <7>1, TailedList
            <6>3. ToSet(pipe') = ToSet(pipe) \cup {Head(buffer[w])}
              BY <6>1, TypedList, AppendedList
            <6>4. \A v \in Pids : buffer'[v] = IF v = w THEN Tail(buffer[w]) ELSE buffer[v]
              BY <6>1
            <6>5. \A v \in Pids : ToSet(buffer'[v]) \subseteq ToSet(buffer[v])
              BY <6>2, <6>4
            <6>6. QED
              BY <6>2, <6>3, <6>5 DEF Unreturned
          <5>2. CASE Killed(w) \/ Terminated(w)
            <6>1. pipe' = pipe /\ buffer' = [buffer EXCEPT ![w] = <<>>]
              BY <5>2 DEF Killed, Terminated, Dies
            <6>2. \A v \in Pids : ToSet(buffer'[v]) \subseteq ToSet(buffer[v])
              BY <6>1, EmptyList DEF Typed, Queue
            <6>3. QED
              BY <6>1, <6>2 DEF Unreturned
          <5>3. CASE ~FeederSends(w) /\ ~Killed(w) /\ ~Terminated(w)
            <6>1. UNCHANGED <<pipe, buffer>>
              BY <2>3, <3>2, <5>3 DEF ProcessStep, WorkerStep, Feeder, Boot, BootFails, Poll,
                 GetStep, GetReturns, WorkFails, CloseRing, Exit, FeederLocks, queueVars
            <6>2. QED
              BY <6>1 DEF Unreturned
          <5>4. QED
            BY <5>1, <5>2, <5>3
        <4>3. QED
          BY <1>3, <4>1, <4>2, StreamFrame
      <3>3. QED
        BY <3>1, <3>2
    <2>4. QED
      BY <1>3, <2>1, <2>2, <2>3, Steps, Zenon
  <1>4. QED
    BY <1>1, <1>2, <1>3

(* With one worker slot the scanner implements CandidateStream: put()      *)
(* accepts, _process_address() scans, get_nowait() drains, a death loses,  *)
(* start() begins afresh, and everything else changes nothing.             *)
THEOREM ImplementsStream == NumWorkers = 1 => (Spec => StreamRefinement)
  <1> SUFFICES ASSUME NumWorkers = 1 PROVE Spec => StreamRefinement
    OBVIOUS
  <1>1. Init => CS!Init
    <2> SUFFICES ASSUME Init PROVE CS!Init
      OBVIOUS
    <2>1. /\ pipe = <<>> /\ drained = {} /\ processed = <<>> /\ accepted = <<>>
          /\ \A w \in Pids : buffer[w] = <<>>
      BY DEF Init, Ring!Init
    <2>2. QED
      BY <2>1, EmptyList DEF CS!Init, Unreturned
  <1>2. Base /\ Typed /\ Data /\ InOrder /\ AcceptedOnce /\ Single /\ [Next]_vars
          => [CS!Next]_(CS!vars)
    BY StreamStep
  <1>3. QED
    BY <1>1, <1>2, BaseInvariant, TypedInvariant, OrderInvariant, AcceptedOnceInvariant,
       SingleInvariant, PTL DEF Spec, StreamRefinement, CS!Spec
=============================================================================
