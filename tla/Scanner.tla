------------------------------- MODULE Scanner -------------------------------
(***************************************************************************)
(* ScannerCoordinator (core/scanner/coordinator.py) and its worker         *)
(* processes (core/scanner/worker.py), joined by the ring of RingBuffer,   *)
(* the stop event and a multiprocessing.Queue of results.                  *)
(*                                                                         *)
(* The client thread calls start, submit, drain_results and stop in any    *)
(* order.  A worker is a process: it loops over get() until the event is   *)
(* set, then empties the ring and exits; it may raise, be killed, or be    *)
(* terminated.  A result goes to the worker's own buffer, from where the   *)
(* queue's feeder thread sends it through a pipe of bounded size, under a  *)
(* lock shared by all workers; a process cannot exit before its buffer is  *)
(* flushed.  Operators named Mut... are faulty variants, see RingBuffer.   *)
(***************************************************************************)
EXTENDS Naturals, Sequences, FiniteSets, SequencesExt

CONSTANTS
  NumWorkers,     (* num_workers                                            *)
  ProcessIds,     (* bound: the processes that may ever be started, in turn *)
  Capacity,       (* ring_buffer_capacity                                   *)
  Addrs,          (* addresses the client submits, each at most once        *)
  Hits,           (* how many candidates the window at an address holds     *)
  PipeSize,       (* results the queue's pipe holds before a writer blocks  *)
  Killable,       (* processes the operating system may kill                *)
  SpawnMayFail,   (* Process.start() may raise                              *)
  SlowWorkers,    (* a worker that is not blocked may outlast join()        *)
  WorkMayFail,    (* opening or reading the dump may raise in a worker      *)
  MaxStarts       (* bound: calls of start()                                *)

Coord == "coordinator"
NoOne == "none"
Pids == {ProcessIds[i] : i \in DOMAIN ProcessIds}

VARIABLES
  (* the shared memory ring, see RingBuffer                                 *)
  head, tail, data, linked, lock, pc, lhead, ltail, laddr, accepted, delivered,
  (* the coordinator                                                        *)
  started, event, workers, respawns,
  cpc, ci,        (* what the client thread is in, and its loop index       *)
  starts, nproc,  (* calls of start() and of Process.start() so far         *)
  stopped,        (* the last stop() returned, with no start() since        *)
  (* the worker processes                                                   *)
  life, signalled, wpc, draining, hit, raised,
  (* the result queue                                                       *)
  buffer, wlock, pipe,
  (* histories                                                              *)
  processed, drained

ringVars == <<head, tail, data, linked, lock, pc, lhead, ltail, laddr,
              accepted, delivered>>
coordVars == <<started, event, workers, respawns, cpc, ci, starts, nproc, stopped>>
procVars == <<life, signalled, wpc, draining, hit, raised>>
queueVars == <<buffer, wlock, pipe, drained>>
vars == <<ringVars, coordVars, procVars, queueVars, processed>>

(* No lock is passed to any handle (coordinator.py:68-71, 76-85): each     *)
(* process has its own.                                                    *)
Ring == INSTANCE RingBuffer WITH
          Producers <- {Coord}, Consumers <- Pids, Unstorable <- {},
          Locks <- Pids \cup {Coord},
          LockOf <- [p \in Pids \cup {Coord} |-> p],
          Killable <- Pids,
          MaxAccepted <- Cardinality(Addrs),
          MaxDelivered <- 2 * Cardinality(Addrs)

ASSUME ScannerAssumption ==
  /\ NumWorkers \in Nat \ {0}
  /\ ProcessIds \in Seq(Pids) /\ IsInjective(ProcessIds)
  /\ {Coord, NoOne, Ring!Free, Ring!Abandoned} \cap Pids = {}
  /\ Killable \subseteq Pids
  /\ Capacity \in 1 .. Ring!HARD_CAPACITY_LIMIT
  /\ Addrs \subseteq Nat /\ IsFiniteSet(Addrs)
  /\ Hits \in [Addrs -> Nat]
  /\ PipeSize \in Nat \ {0}
  /\ {SpawnMayFail, SlowWorkers, WorkMayFail} \subseteq BOOLEAN

Alive(w) == life[w] = "alive"
Results(a) == [i \in 1 .. Hits[a] |-> <<a, i>>]

-----------------------------------------------------------------------------
Init ==
  /\ Ring!Init
  /\ started = FALSE /\ event = FALSE
  /\ workers = <<>> /\ respawns = <<>>
  /\ cpc = "idle" /\ ci = 1 /\ starts = 0 /\ nproc = 0 /\ stopped = FALSE
  /\ life = [w \in Pids |-> "unborn"]
  /\ signalled = {} /\ raised = {}
  /\ wpc = [w \in Pids |-> "boot"]
  /\ draining = [w \in Pids |-> FALSE]
  /\ hit = [w \in Pids |-> FALSE]
  /\ buffer = [w \in Pids |-> <<>>]
  /\ wlock = NoOne /\ pipe = <<>>
  /\ processed = <<>> /\ drained = {}

-----------------------------------------------------------------------------
(* start()                                                                 *)

(* A fresh ring, queue and event.  Processes left over from an earlier     *)
(* start() keep theirs, which nobody else uses any more: they are strays   *)
(* that no later step of this model involves, except that a signal they    *)
(* were sent still ends them.                                              *)
Start ==
  /\ cpc = "idle" /\ ~started /\ starts < MaxStarts
  /\ starts' = starts + 1
  /\ head' = 0 /\ tail' = 0 /\ data' = [i \in 0 .. Capacity - 1 |-> 0]
  /\ linked' = TRUE
  /\ lock' = [p \in DOMAIN lock |-> Ring!Free]
  /\ pc' = [p \in DOMAIN pc |-> IF p = Coord THEN "idle" ELSE "detached"]
  /\ accepted' = <<>> /\ delivered' = <<>>
  /\ UNCHANGED <<lhead, ltail, laddr>>
  /\ event' = FALSE
  /\ workers' = <<>>
  /\ wpc' = [w \in Pids |-> IF Alive(w) THEN "stray" ELSE wpc[w]]
  /\ buffer' = [w \in Pids |-> <<>>] /\ wlock' = NoOne /\ pipe' = <<>>
  /\ processed' = <<>> /\ drained' = {}
  /\ cpc' = "spawn" /\ stopped' = FALSE
  /\ UNCHANGED <<started, respawns, ci, nproc, life, signalled, draining, hit, raised>>

(* Process.start() of the next process.                                    *)
Launch ==
  /\ nproc < Len(ProcessIds)
  /\ nproc' = nproc + 1
  /\ life' = [life EXCEPT ![ProcessIds[nproc + 1]] = "alive"]

Spawn ==
  /\ cpc = "spawn" /\ Len(workers) < NumWorkers
  /\ Launch
  /\ workers' = Append(workers, ProcessIds[nproc + 1])
  /\ UNCHANGED <<ringVars, started, event, respawns, cpc, ci, starts, stopped,
                 signalled, wpc, draining, hit, raised, queueVars, processed>>

(* Process.start() raises out of start(), with _started still False.       *)
SpawnFails ==
  /\ SpawnMayFail
  /\ cpc = "spawn" /\ Len(workers) < NumWorkers
  /\ cpc' = "idle"
  /\ UNCHANGED <<ringVars, started, event, workers, respawns, ci, starts, nproc,
                 stopped, procVars, queueVars, processed>>

Started ==
  /\ cpc = "spawn" /\ Len(workers) = NumWorkers
  /\ respawns' = [i \in 1 .. NumWorkers |-> 0]
  /\ started' = TRUE
  /\ cpc' = "idle"
  /\ UNCHANGED <<ringVars, event, workers, ci, starts, nproc, stopped, procVars,
                 queueVars, processed>>

-----------------------------------------------------------------------------
(* submit() and drain_results()                                            *)

(* submit() before start() raises and changes nothing.                     *)
Submit(a) ==
  /\ cpc = "idle" /\ started
  /\ \A i \in 1 .. Len(accepted) : accepted[i] # a
  /\ Ring!PutCall(Coord, a)
  /\ cpc' = "submit"
  /\ UNCHANGED <<started, event, workers, respawns, ci, starts, nproc, stopped,
                 procVars, queueVars, processed>>

SubmitStep ==
  /\ cpc = "submit"
  /\ \/ Ring!PutEnter(Coord) \/ Ring!PutReadTail(Coord)
     \/ Ring!PutStore(Coord) \/ Ring!PutPublish(Coord)
  /\ UNCHANGED <<coordVars, procVars, queueVars, processed>>

SubmitReturns ==
  /\ cpc = "submit"
  /\ Ring!Leave(Coord)
  /\ cpc' = "idle"
  /\ UNCHANGED <<started, event, workers, respawns, ci, starts, nproc, stopped,
                 procVars, queueVars, processed>>

(* The queue outlives stop(), so results can be drained afterwards.        *)
DrainResults ==
  /\ cpc = "idle" /\ pipe # <<>>
  /\ cpc' = "drain"
  /\ UNCHANGED <<ringVars, started, event, workers, respawns, ci, starts, nproc,
                 stopped, procVars, queueVars, processed>>

DrainOne ==
  /\ cpc = "drain" /\ pipe # <<>>
  /\ drained' = drained \cup {Head(pipe)}
  /\ pipe' = Tail(pipe)
  /\ UNCHANGED <<ringVars, coordVars, procVars, buffer, wlock, processed>>

DrainEmpty ==
  /\ cpc = "drain" /\ pipe = <<>>
  /\ cpc' = "idle"
  /\ UNCHANGED <<ringVars, started, event, workers, respawns, ci, starts, nproc,
                 stopped, procVars, queueVars, processed>>

-----------------------------------------------------------------------------
(* stop()                                                                  *)

Goto(point, i) == cpc' = point /\ ci' = i

StopNotStarted ==
  /\ cpc = "idle" /\ ~started /\ starts > 0 /\ ~stopped
  /\ stopped' = TRUE
  /\ UNCHANGED <<ringVars, started, event, workers, respawns, cpc, ci, starts, nproc,
                 procVars, queueVars, processed>>

Stop ==
  /\ cpc = "idle" /\ started
  /\ event' = TRUE
  /\ Goto("join", 1)
  /\ UNCHANGED <<ringVars, started, workers, respawns, starts, nproc, stopped,
                 procVars, queueVars, processed>>

(* At its exit a worker waits for room in the pipe, or for a writers' lock *)
(* whose holder is dead.                                                   *)
Blocked(w) ==
  /\ wpc[w] = "flush" /\ buffer[w] # <<>>
  /\ Len(pipe) = PipeSize \/ (wlock # NoOne /\ ~Alive(wlock))

MutJoinForever ==
  /\ cpc = "join" /\ ~Alive(workers[ci])
  /\ IF ci < Len(workers) THEN Goto("join", ci + 1) ELSE Goto("check", 1)
  /\ UNCHANGED <<ringVars, started, event, workers, respawns, starts, nproc, stopped,
                 procVars, queueVars, processed>>

(* join(timeout=5): the worker has exited, or the time is up.              *)
Join ==
  /\ cpc = "join"
  /\ Alive(workers[ci]) => SlowWorkers \/ Blocked(workers[ci])
  /\ IF ci < Len(workers) THEN Goto("join", ci + 1) ELSE Goto("check", 1)
  /\ UNCHANGED <<ringVars, started, event, workers, respawns, starts, nproc, stopped,
                 procVars, queueVars, processed>>

MutNextCheck == IF ci <= Len(workers) THEN Goto("check", ci + 1) ELSE Goto("term", 1)
NextCheck == IF ci < Len(workers) THEN Goto("check", ci + 1) ELSE Goto("term", 1)
Crashed(i) == life[workers[i]] = "crashed"

(* _check_workers(): nothing to do for a worker that runs or exited with 0. *)
CheckFine ==
  /\ cpc = "check" /\ ~Crashed(ci)
  /\ NextCheck
  /\ UNCHANGED <<ringVars, started, event, workers, respawns, starts, nproc, stopped,
                 procVars, queueVars, processed>>

(* _respawn_worker(): one replacement per index, then the event is set.    *)
MutRespawn ==
  /\ cpc = "check" /\ Len(workers) >= ci
  /\ Launch
  /\ workers' = [workers EXCEPT ![ci] = ProcessIds[nproc + 1]]
  /\ respawns' = [respawns EXCEPT ![ci] = @ + 1]
  /\ NextCheck
  /\ UNCHANGED <<ringVars, started, event, starts, stopped, signalled, wpc, draining,
                 hit, raised, queueVars, processed>>

MutRespawnReplays ==
  /\ cpc = "check" /\ Crashed(ci) /\ respawns[ci] < 1
  /\ Launch
  /\ head' = 0
  /\ workers' = [workers EXCEPT ![ci] = ProcessIds[nproc + 1]]
  /\ respawns' = [respawns EXCEPT ![ci] = @ + 1]
  /\ NextCheck
  /\ UNCHANGED <<tail, data, linked, lock, pc, lhead, ltail, laddr, accepted, delivered,
                 started, event, starts, stopped, signalled, wpc, draining, hit, raised,
                 queueVars, processed>>

Respawn ==
  /\ cpc = "check" /\ Crashed(ci) /\ respawns[ci] < 1
  /\ Launch
  /\ workers' = [workers EXCEPT ![ci] = ProcessIds[nproc + 1]]
  /\ respawns' = [respawns EXCEPT ![ci] = @ + 1]
  /\ NextCheck
  /\ UNCHANGED <<ringVars, started, event, starts, stopped, signalled, wpc, draining,
                 hit, raised, queueVars, processed>>

(* Process.start() raises out of stop(), which has cleaned up nothing.     *)
RespawnFails ==
  /\ SpawnMayFail
  /\ cpc = "check" /\ Crashed(ci) /\ respawns[ci] < 1
  /\ cpc' = "idle"
  /\ UNCHANGED <<ringVars, started, event, workers, respawns, ci, starts, nproc,
                 stopped, procVars, queueVars, processed>>

RespawnRefused ==
  /\ cpc = "check" /\ Crashed(ci) /\ respawns[ci] >= 1
  /\ event' = TRUE
  /\ NextCheck
  /\ UNCHANGED <<ringVars, started, workers, respawns, starts, nproc, stopped,
                 procVars, queueVars, processed>>

MutTerminateNone ==
  /\ cpc = "term"
  /\ IF ci < Len(workers) THEN Goto("term", ci + 1) ELSE Goto("clean", 1)
  /\ UNCHANGED <<ringVars, started, event, workers, respawns, starts, nproc, stopped,
                 life, signalled, wpc, draining, hit, raised, queueVars, processed>>

(* terminate() sends SIGTERM to a live worker and does not wait.           *)
Terminate ==
  /\ cpc = "term"
  /\ signalled' = IF Alive(workers[ci]) THEN signalled \cup {workers[ci]} ELSE signalled
  /\ IF ci < Len(workers) THEN Goto("term", ci + 1) ELSE Goto("clean", 1)
  /\ UNCHANGED <<ringVars, started, event, workers, respawns, starts, nproc, stopped,
                 life, wpc, draining, hit, raised, queueVars, processed>>

CleanUp ==
  /\ cpc = "clean"
  /\ workers' = <<>>
  /\ Ring!Unlink(Coord)
  /\ started' = FALSE /\ stopped' = TRUE
  /\ cpc' = "idle"
  /\ UNCHANGED <<event, respawns, ci, starts, nproc, procVars, queueVars, processed>>

-----------------------------------------------------------------------------
(* scanner_worker_main()                                                   *)

Worker(w, from, to) ==
  /\ Alive(w) /\ wpc[w] = from
  /\ wpc' = [wpc EXCEPT ![w] = to]

(* Attach the ring and open the dump.                                      *)
Boot(w) ==
  /\ Worker(w, "boot", "ready")
  /\ Ring!Attach(w)
  /\ UNCHANGED <<coordVars, life, signalled, draining, hit, raised, queueVars, processed>>

(* Either fails: the worker returns, with exit code 0.                     *)
BootFails(w) ==
  /\ ~linked \/ WorkMayFail
  /\ Worker(w, "boot", "flush")
  /\ raised' = raised \cup {w}
  /\ UNCHANGED <<ringVars, coordVars, life, signalled, draining, hit, queueVars, processed>>

(* The first loop looks at the event before each get(); the second one,    *)
(* entered when the event is set, does not.                                *)
Poll(w) ==
  /\ Worker(w, "ready", "get")
  /\ Ring!GetCall(w)
  /\ draining' = [draining EXCEPT ![w] = @ \/ event]
  /\ UNCHANGED <<coordVars, life, signalled, hit, raised, queueVars, processed>>

GetStep(w) ==
  /\ Worker(w, "get", "get")
  /\ \/ Ring!GetEnter(w) \/ Ring!GetReadTail(w) \/ Ring!GetFetch(w) \/ Ring!GetCommit(w)
  /\ hit' = [hit EXCEPT ![w] = (pc[w] = "getCommit")]
  /\ UNCHANGED <<coordVars, life, signalled, draining, raised, queueVars, processed>>

MutGetReturnsNoDrain(w) ==
  /\ Worker(w, "get", IF event THEN "close" ELSE IF hit[w] THEN "work" ELSE "ready")
  /\ Ring!Leave(w)
  /\ UNCHANGED <<coordVars, life, signalled, draining, hit, raised, queueVars, processed>>

(* An address is processed; None ends the second loop.                     *)
GetReturns(w) ==
  /\ Worker(w, "get", IF hit[w] THEN "work" ELSE IF draining[w] THEN "close" ELSE "ready")
  /\ Ring!Leave(w)
  /\ UNCHANGED <<coordVars, life, signalled, draining, hit, raised, queueVars, processed>>

(* _process_address(): the candidates of the window go to the queue.       *)
Work(w) ==
  /\ Worker(w, "work", "ready")
  /\ buffer' = [buffer EXCEPT ![w] = @ \o Results(laddr[w])]
  /\ processed' = Append(processed, laddr[w])
  /\ UNCHANGED <<ringVars, coordVars, life, signalled, draining, hit, raised,
                 wlock, pipe, drained>>

(* An exception ends the worker, with exit code 0.                         *)
WorkFails(w) ==
  /\ WorkMayFail
  /\ Worker(w, "work", "close")
  /\ raised' = raised \cup {w}
  /\ UNCHANGED <<ringVars, coordVars, life, signalled, draining, hit, queueVars, processed>>

CloseRing(w) ==
  /\ Worker(w, "close", "flush")
  /\ Ring!Close(w)
  /\ UNCHANGED <<coordVars, life, signalled, draining, hit, raised, queueVars, processed>>

MutExitUnflushed(w) ==
  /\ Worker(w, "flush", "gone")
  /\ life' = [life EXCEPT ![w] = "ok"]
  /\ UNCHANGED <<ringVars, coordVars, signalled, draining, hit, raised, queueVars, processed>>

(* The process ends once the feeder thread has sent everything.            *)
Exit(w) ==
  /\ Worker(w, "flush", "gone")
  /\ buffer[w] = <<>>
  /\ life' = [life EXCEPT ![w] = "ok"]
  /\ UNCHANGED <<ringVars, coordVars, signalled, draining, hit, raised, queueVars, processed>>

(* The feeder thread takes the writers' lock, waits for room in the pipe,  *)
(* sends one result and releases the lock.                                 *)
FeederLocks(w) ==
  /\ Alive(w) /\ wpc[w] # "stray" /\ buffer[w] # <<>>
  /\ wlock = NoOne
  /\ wlock' = w
  /\ UNCHANGED <<ringVars, coordVars, procVars, buffer, pipe, drained, processed>>

FeederSends(w) ==
  /\ Alive(w) /\ wlock = w
  /\ Len(pipe) < PipeSize
  /\ pipe' = Append(pipe, Head(buffer[w]))
  /\ buffer' = [buffer EXCEPT ![w] = Tail(@)]
  /\ wlock' = NoOne
  /\ UNCHANGED <<ringVars, coordVars, procVars, drained, processed>>

(* A process dies with a nonzero exit code.  The locks it holds stay held, *)
(* what it has not sent is lost.                                           *)
Dies(w) ==
  /\ Alive(w)
  /\ life' = [life EXCEPT ![w] = "crashed"]
  /\ wpc' = [wpc EXCEPT ![w] = "gone"]
  /\ \/ pc[w] = "detached" /\ UNCHANGED ringVars
     \/ Ring!Crash(w)
  /\ buffer' = [buffer EXCEPT ![w] = <<>>]
  /\ UNCHANGED <<coordVars, signalled, draining, hit, raised, wlock, pipe, drained,
                 processed>>

Killed(w) == w \in Killable /\ Dies(w)
Terminated(w) == w \in signalled /\ Dies(w)

-----------------------------------------------------------------------------
Client == Start \/ Stop \/ StopNotStarted \/ DrainResults \/ \E a \in Addrs : Submit(a)

CoordStep == \/ Spawn \/ SpawnFails \/ Started
             \/ SubmitStep \/ SubmitReturns \/ DrainOne \/ DrainEmpty
             \/ Join \/ CheckFine \/ Respawn \/ RespawnFails \/ RespawnRefused
             \/ Terminate \/ CleanUp

WorkerStep(w) == \/ Boot(w) \/ BootFails(w) \/ Poll(w) \/ GetStep(w) \/ GetReturns(w)
                 \/ Work(w) \/ WorkFails(w) \/ CloseRing(w) \/ Exit(w)

Feeder(w) == FeederLocks(w) \/ FeederSends(w)

Next == \/ Client
        \/ CoordStep
        \/ \E w \in Pids : WorkerStep(w) \/ Feeder(w) \/ Killed(w) \/ Terminated(w)

Spec == Init /\ [][Next]_vars

(* A call the client has made runs on; join() times out; live workers and  *)
(* feeder threads are scheduled; a signal is delivered.  The client need   *)
(* not call anything, and nothing has to fail or be killed.                *)
Fairness == /\ WF_vars(CoordStep)
            /\ \A w \in Pids : /\ WF_vars(WorkerStep(w))
                               /\ SF_vars(FeederLocks(w))
                               /\ WF_vars(FeederSends(w))
                               /\ WF_vars(Terminated(w))

FairSpec == Spec /\ Fairness

-----------------------------------------------------------------------------
(* Properties                                                              *)

(* Shapes of the coordinator's and the workers' variables; the ring's are  *)
(* those of RingBuffer.                                                    *)
TypeOK ==
  /\ Ring!TypeOK
  /\ {started, event, stopped} \subseteq BOOLEAN
  /\ ToSet(workers) \subseteq Pids /\ Len(workers) <= NumWorkers
  /\ cpc \in {"idle", "spawn", "submit", "drain", "join", "check", "term", "clean"}
  /\ ci \in 1 .. NumWorkers /\ nproc \in 0 .. Len(ProcessIds)
  /\ life \in [Pids -> {"unborn", "alive", "ok", "crashed"}]
  /\ wpc \in [Pids -> {"boot", "ready", "get", "work", "close", "flush", "gone", "stray"}]
  /\ signalled \subseteq Pids /\ raised \subseteq Pids
  /\ wlock \in Pids \cup {NoOne}
  /\ Len(pipe) <= PipeSize
  /\ ToSet(processed) \subseteq Addrs

(* Respawning replaces dead workers only: whatever crashes and whenever    *)
(* stop() is interrupted, a session never has more live workers than       *)
(* num_workers.                                                            *)
NoExtraWorkers ==
  Cardinality({w \in Pids : Alive(w) /\ wpc[w] # "stray"}) <= NumWorkers

(* With one worker slot no address is processed twice and none out of      *)
(* order, although the worker may die anywhere, inside get() too, and be   *)
(* replaced.                                                               *)
WorkOnce ==
  \A i, j \in 1 .. Len(processed) : i < j =>
    \E k, l \in 1 .. Len(accepted) :
      k < l /\ accepted[k] = processed[i] /\ accepted[l] = processed[j]

(* With one worker slot drain_results() returns no candidate twice,        *)
(* although a replacement reads the same ring and writes to the same pipe. *)
ReportedOnce ==
  \A k \in 1 .. Len(pipe) :
    /\ pipe[k] \notin drained
    /\ \A l \in 1 .. k - 1 : pipe[l] # pipe[k]

(* What workers have found and the client has not got yet.                 *)
Unreturned == ToSet(pipe) \cup UNION {ToSet(buffer[w]) : w \in Pids}

(* One worker slot implements the abstract stream of candidates, whoever   *)
(* dies where, is replaced, or is left behind by the next start().         *)
CS == INSTANCE CandidateStream WITH scanned <- processed, found <- Unreturned
StreamRefinement == CS!Spec

(* When stop() has returned, every process is over or has been sent        *)
(* SIGTERM, and the names of the shared memory are gone.                   *)
StopCleansUp ==
  stopped => /\ ~linked
             /\ \A w \in Pids : Alive(w) => w \in signalled

(* If all workers came to their end by themselves, stop() has waited until *)
(* every accepted address was processed and every candidate was put where  *)
(* drain_results() finds it.                                               *)
CleanStopIsComplete ==
  (stopped /\ raised = {} /\ \A w \in Pids : life[w] \in {"unborn", "ok"}) =>
    /\ ToSet(accepted) \subseteq ToSet(processed)
    /\ \A a \in ToSet(processed) :
         ToSet(Results(a)) \subseteq drained \cup ToSet(pipe)

(* drain_results() after stop() returns all that the workers found, when   *)
(* the operating system killed nobody and nobody raised.                   *)
DrainCollectsAll ==
  (stopped /\ cpc = "idle" /\ pipe = <<>> /\ raised = {}
   /\ \A w \in Pids : ~Alive(w) /\ (life[w] = "crashed" => w \in signalled)) =>
    \A a \in ToSet(processed) : ToSet(Results(a)) \subseteq drained

(* Every call of the client returns, whatever the workers do.              *)
CallsReturn == cpc # "idle" ~> cpc = "idle"

(* After stop() all workers end, if the client does not start again.       *)
WorkersEnd == stopped ~> (~stopped \/ \A w \in Pids : ~Alive(w))

(* An accepted address is processed, unless some worker died or gave up.   *)
AcceptedIsProcessed ==
  \A a \in Addrs :
    a \in ToSet(accepted)
      ~> (a \in ToSet(processed) \/ raised # {}
          \/ \E w \in Pids : life[w] = "crashed")
=============================================================================
