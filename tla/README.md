# Specifications of vantacore-engine

TLA+ modules, TLC configurations and TLAPS proofs for vantacore-engine: the
parallel scanner and the ring buffer under it, the command line with the
extractor executor inside it, the audit trail, the extractors, the translation
of addresses, the detection of platforms, the state database and the event
buses. Paths below are relative to `src/vantacore_engine/` unless they start
with `src/`.

    tlasany MCScanner.tla                          # parse
    tlc -config ScannerOne.cfg MCScanner           # model-check one run
    tlapm ScanPipelineProofs.tla                   # check the proofs of a module

`PROJECT.json` lists the runs with the properties each checks, the source
lines every definition stands for, the hazards of the code and the theorems.

## The system

A memory dump is analysed in two ways. `vantacore scan` (`cli.py`) detects
platform and architecture, opens an audit trail, runs the compatible
extractors in dependency order and writes one JSON report. Independently of
it, the scanner offers parallel scanning: a coordinator hands physical
addresses to worker processes through a ring buffer in shared memory, and
collects the candidates they find from a `multiprocessing.Queue`.

| Component | State | Operations | Hard behaviour |
|---|---|---|---|
| Ring buffer, `core/scanner/ring_buffer.py` | head, tail, slots (shared memory); lock and mapping of each handle | attach, `put`, `get`, `close`, `unlink` | interleaving of processes with private locks, death inside a call, wrap-around |
| Coordinator, `core/scanner/coordinator.py` | started flag, workers, respawn counts, event, ring, result queue | `start`, `submit`, `drain_results`, `stop`, respawning | failing process start, deaths, join timeouts, a queue that fills up |
| Worker, `core/scanner/worker.py` | ring handle, open dump, mapped window | poll, scan a window, put candidates, drain on stop, exit | being killed anywhere, exit that waits for the queue's feeder thread |
| Scan pipeline, `cli.py` | open files, report | `_cmd_scan`, `_cmd_detect`, `_cmd_verify` | which of audit record, report and clean-up happens before an error |
| DAG executor, `extractors/base.py` | compatible extractors, order, disabled list; lists of one execution | `__init__` with Kahn's algorithm, `execute` | cycles, absent dependencies, failing extractors |
| Audit trail, `core/audit.py` | open file, HMAC of the last record | open, `record`, `close` | failing writes, death, several sessions on one file |
| Extractors, `extractors/*/` | things seen, results | list walk, chunked search, comparison of both | limits, ends of chunks, lists that are broken or cyclic |
| x86_64 and flat translation, `core/backends/` | dump, size, kernel base | `detect`, `initialize`, page walk, `read_virtual` | large pages, partial reads, end of the dump |
| Detection, `core/backends/detector.py`, `appliances/`, `core/entropy.py` | detector list | best score, first match, share of random pages | detectors that raise, ties, texts across chunks |
| State database, `core/db.py` | four SQLite tables, a connection per process | mark, test, insert, metadata, close | 64-bit addresses, locks, snapshots, death |
| Hooks and progress, `core/hooks.py`, `core/progress.py` | functions, time of the last event | register, emit | functions that raise or register others, the rate limit |
| Validation, decompression, logging, `utils/`, `core/logging_config.py` | none | pure functions | |

How they interact: the coordinator and its workers share the ring, a stop
event, the result queue and the processes' exit; `drain_results` calls hooks.
`_cmd_scan` calls the detectors, the audit trail and the DAG executor; the
executor calls the extractors, which read memory through a translation
backend or search the dump file themselves. Only the scanner and the clients
of a state database run concurrently; scans into the same directory share its
audit file.

What makes each part correct:

* ring: a bounded FIFO queue, whoever calls it and wherever a caller dies;
* scanner: every accepted address is scanned once and its candidates reach
  the client, every call returns, nothing is left behind after `stop()`;
* DAG: dependencies before dependents, each extractor once, only what is on a
  cycle or behind one is left out, a failure reaches its dependents only;
* pipeline: the audit trail and the exit code tell the truth, files are closed;
* audit: what was recorded stays readable and the chain unbroken;
* extractors: of each key the first entry is reported, with its own place and
  text, however the file is read in chunks; a hidden object is reported, a
  listed one is never called hidden;
* translation and detection: agree with the page tables and the dump;
* database: an answer is what was last stored; events: everybody is told.

## Modules

| Module | What it is |
|---|---|
| `AddressQueue` | abstract specification: a bounded FIFO queue with two operations |
| `RingBuffer` | the ring at the grain of single shared-memory accesses; refines `AddressQueue` |
| `CandidateStream` | abstract specification of the scanner with one worker: accepted addresses, scanned in order, candidates returned once |
| `Scanner` | coordinator, workers, result queue, on top of an instance of `RingBuffer`; with one worker it refines `CandidateStream` |
| `ExtractorDAG` | the DAG executor |
| `ScanPipeline` | the commands; extends `ExtractorDAG` and drives it |
| `AuditTrail` | the audit trail and the reading of its file |
| `ChunkScan` | the extractors that search the dump file in chunks |
| `LinuxLists` | `linux/process` and `linux/modules`: list walk, carving and their comparison; extends `ChunkScan` |
| `Detection` | platform, architecture and encryption of a dump, as operators |
| `Translation` | the examination of a dump and the reads of its backend; extends `Detection` |
| `ScanState` | the state database |
| `Events` | hooks and progress bus |
| `Services` | `ScanState` or `Events`: the two share no state |
| `MC*` | values of the constants for TLC |
| `RingBufferProofs`, `ScannerProofs`, `AuditTrailProofs`, `TranslationProofs`, `ServicesProofs` | theorems about the module of that name |
| `ScanPipelineProofs` | theorems about `ExtractorDAG` and `ScanPipeline` |
| `ExtractorsProofs` | theorems about `ChunkScan` and `LinuxLists` |
| `ListLemmas` | facts about lists, and induction, that the proofs rest on |

Operators whose names start with `Mut` are faulty variants of the definition
below them. The model never uses them; each stands for a plausible slip in the
code, and some property fails when it takes the place of the definition.

### RingBuffer

`head`, `tail` and `data` are the shared memory, `lock` the holder of each
lock, `pc`, `lhead`, `ltail`, `laddr` the position and the locals of every
process in `put` or `get`. `accepted` and `delivered` are histories. One action
per access: `PutCall`, `PutEnter` (lock, read head), `PutReadTail` (read tail,
test for full), `PutStore`, `PutPublish`, and likewise `GetCall`, `GetEnter`,
`GetReadTail`, `GetFetch`, `GetCommit`; `Leave` releases the lock.
`Attach`, `Close`, `Unlink` are the handle's life and `Crash` is the death of
a process anywhere, which leaves its lock held.

`LockOf` says which lock each process holds. The scanner gives every handle a
private one (`ring_buffer.py:49`), so its lock protects against nobody; with
one common lock the ring is safe for any number of processes that do not die.
TLC checks the private wiring; the theorems hold for both.

Abstractions: memory is sequentially consistent; taking the lock and the first
read after it are one step, which loses no behaviour because the read of head
right after the acquisition commutes with it; an address is a number out of a
small set, `Unstorable` the ones a slot refuses. `is_empty` and `is_full`
change nothing and appear as the tests `GetReadTail` and `Full`.

### Scanner

The client thread is sequential: `cpc` says which call it is in. `start` is
`Start`, then `Launch`, `Spawn` or `SpawnFails`, `Started`; `submit` is the
ring's `put`; `drain_results` is `DrainOne` and `DrainEmpty`; `stop` is `Stop`,
then for every worker `Join`, `NextCheck`, `CheckFine`, `Respawn`,
`RespawnFails` or `RespawnRefused`, then `Terminate` and `CleanUp`. Workers
`Boot`, `Poll`, `GetStep`, `GetReturns`, `Work`, `CloseRing`, `Exit`; they may
raise (`BootFails`, `WorkFails`), be killed (`Killed`) or terminated. The
result queue is modelled as `multiprocessing` builds it: a buffer in each
worker, a feeder thread that takes the pipe's write lock, a pipe of bounded
size; a worker exits only when its buffer is flushed.

`CandidateStream` is what a client sees of all this when there is one worker:
`Unreturned`, the candidates in buffers and pipe, stands for its `found`.

What is in a window of the dump is abstracted to the number of candidates in
it (`Hits`). `num_workers = 0` is excluded by the assumption. A ring of
capacity 1 never stores an address, which the model agrees with but no run
examines. Interpreter shutdown of the coordinator itself is not modelled.

### ExtractorDAG and ScanPipeline

An extractor is its name; `dependencies` and the compatible `extractors` are
chosen in the initial state. `Sort` is one turn of Kahn's loop, `Resolved` the
end of it, then `Execute` and one step per extractor: `Skip`, `RunSucceeds`,
`RunFails`, `RunInterrupted` (an exception that `except Exception` does not
catch), and `Return`. `execute` may be called again. `merged` remembers from
which extractor the value of each key of the report comes. `Upstream(e)` is
what an extractor needs at any distance, defined as a least fixed point and
not by the algorithm, so that the properties say something about it.

`ScanPipeline` adds the command around it: `at` is the next thing to do, one
action per stage of `_cmd_scan` (`Open`, `Examine`, `Prepare`, `Ingest`,
`Extract`, which is any step of the executor, `Extracted`, `Complete`,
`Write`), `Raise` at every stage that can raise, then the finally block
(`CloseAudit`, `CloseRaises`, `CloseDump`), printing, which may fail as well
(`PrintFails`: nobody reads the output, or it cannot be encoded), and `Exit`.
`detect` and `verify` leave the same way after `Examine`. So a command may fail
although its report is whole: `ExitIsHonest` says what each exit means, and that
a torn report never comes with exit code 0, but not the converse. The trail is here the list of events
recorded; what becomes of it on disk is the subject of `AuditTrail`.

### AuditTrail

A line of the file reaches the operating system in `Pieces` writes. `Record`
moves `_prev_hmac` on and hands the line to the file object, `Write` appends a
piece, `WriteFails` is a full disk: the buffer keeps what it could not write
and a later `flush()` tries again, as Python's file objects do. `RecordRefused`
is a field JSON cannot express, `RecordClosed` a call after `close()`, `Kill`
the death of the process. HMAC-SHA256 is taken to be injective: a code is the
list of the payloads it covers. `Records` are the places of the file where a
line begins and ends that a consumer of JSON Lines can read; `Verifies` is the check of
`src/tests/unit/test_hooks_progress_audit.py`.

### ChunkScan and LinuxLists

All extractors but `linux/process`, `linux/modules` and `generic/strings` run
the same loop: read a chunk that does not overlap the one before, search it
for one pattern after the other, parse what stands behind each occurrence, add
what has not been seen. A file is its size and its occurrences; one operator
per extractor (`ConnTable`, `AclRules`, `VpnSessions`, ...) says in which order
it looks, what the chunk's end does to the text, and by which key it tells
entries apart: text, offset, or a bucket of the offset. `ReadChunk` is one turn
of the loop with deduplication and limits, `ElfNotes` and `NoElfNotes` the two
ways of `lina_process`, `Clusters` the sessions of `cli_history`. The order in
which a search meets things is the order of their places (`InOrder`): no pattern
begins another, so that at most one occurs at a place, which `IsFile` says.
Each occurrence has a length (that of its pattern) and a reach (how far what is
parsed with it goes), which have nothing to do with the size of a chunk; only
the windows of `generic/keys` are assumed to divide a chunk, as 256 divides
4,096.

An entry is a record of its key and of what would tell it from another with the
same key: its place, its pattern and its text. `KeepsFirstOfEach` compares whole
entries. In eight of the eleven searches the report is what a search of the
whole file would give: of each key the first entry in the file. In
`routing_table`, `ios_processes` and `snmp_config` patterns share keys and take
turns in each chunk, so that the chunks do decide which of two entries with
one key is reported, with its next hop and its place: the first in the order of
chunks, then patterns, then places (`Sooner`). The property states that order
and does not claim that it is the order of the file. It speaks of files in which
no text or structure crosses the end of a chunk; one that does may be lost, or
be parsed short and suppress another entry with the key it then has.

The two Linux extractors first follow the kernel's list (`FindInitTask`,
`FindHeadModule` or `NoKernelBase`, then `DropVisited`, `VisitTask`,
`VisitModule`, `EndWalk`) through a virtual memory that is any function from
addresses to an object, plausible or not, and a successor. Then they carve the
file (`CarveTasks`, `CarveModules`), and what is carved but not listed is an
anomaly. What makes an object plausible is abstracted to whether it is.

### Detection and Translation

A dump is a record: what its header says, which texts stand where, which pages
are random, and the page table entry that each of its 8-byte cells makes. The
four detectors, the chunked search with overlap, the registry's threshold and
tie rule, the choice of the backend and the sampling of pages are operators;
`Examine` applies them, as every command does. Paging is scaled down: tables of
`PageSize` entries, an address whose digits to that base are the four indices
and the offset. `Call`, `ReadPage`, `Return` are `read_virtual()` of x86_64,
page by page, `ReadFlat` that of the flat image. `ReadsTranslate` compares them
with the processor's definition (`Leads`, `Physical`), a relation between
tables and frames that does not walk.

### ScanState, Events, Services

`ScanState` has for each client its connection, the transaction that Python's
`sqlite3` opens before it binds values, the snapshot it reads from, and what it
has written and not committed. `WriteRefused` is an address from 2^63 on,
`WriteLocked` another writer or a snapshot that is no longer the latest, `Ends`
the rollback that `close()` and death both amount to. `returned` and
`answer.due` are histories. In `Events` a registered function is its kind
(returns, raises, registers another one); `Calls...` call them from the list
itself, which may grow meanwhile; the clock counts units of 50 ms.

`Services` puts the two side by side without interleaving them: they share no
state, so a behaviour of one with the other at rest shows all there is.

## Runs

Passing runs (distinct states in brackets):

| Run | Instance | Shows |
|---|---|---|
| `ring_private_one_worker` (45,608) | one coordinator, one worker, private locks, 3 slots, 4 addresses accepted: the indices wrap; the worker may die anywhere and attach again | FIFO order, no race on a slot, the inductive invariant (with `TypeOK`), refinement of `AddressQueue`, every call returns, every accepted address is delivered |
| `scanner_one_worker` (136,243) | one worker slot, its process may raise or be killed and is replaced | calls return, workers end, a clean stop leaves nothing undone, no address is scanned twice, what is accepted is processed while workers live |
| `scanner_two_workers_faults` (3,170,304) | two slots, four processes, kills and failing starts | the respawn cap is reached; never more workers than `num_workers` |
| `scanner_restart` (65,395) | two sessions, workers that raise or are killed | each session cleans up; candidates can be drained after `stop()`; refinement of `CandidateStream`: addresses are scanned in order, no candidate is returned twice |
| `audit_two_sessions` (116,422) | two scans into one file, three records each, two errors each, partial writes, kills | each session's chain is unbroken; nothing recorded is lost, but for a record glued to a torn line |
| `scan_pipeline` (1,125,650) | `scan` and `verify` with every graph of three extractors with up to two entries per list, every platform filter, every pattern of failures and interruptions, an exception at every place that can raise one, closing and printing included | the order is topological and complete, faults are isolated, trail and exit code are honest, the process ends |
| `extractors` (1,191,982) | every extractor on files of two chunks and of two and a half, with up to four occurrences of three patterns; every list over four addresses with three namings and a torn object | of each key the first entry is kept, sessions are what they should be, hidden objects are reported, no false alarm but behind the limit, every extractor returns |
| `translation` (1,479,004) | some 8,000 memories of four tables and a page, ten addresses, three lengths, two values of cr3; headers, texts at every place around the chunk ends and limits, every set of random pages | reads agree with the page tables, the platform with the texts, the backend with the header, the verdict on encryption with the pages sampled |
| `services` (290,647) | two processes on one database with three writes each; both buses with up to four functions | answers are fresh, everybody is told once and in order, the rate is limited |

Runs that TLC refutes, each against a sentence of the repository:

| Run | What happens |
|---|---|
| `ring_two_workers_loss` | two workers race on head: a stale head is written back, and accepted addresses vanish |
| `audit_second_session` | a second scan into the same directory starts a new chain in the middle of the file |
| `services_stale_after_overflow` | marking a kernel address raises `OverflowError` and leaves a transaction open; from its next read on the connection does not see what others mark |

### Bounds

`MaxAccepted`, `MaxDelivered` (ring), `ProcessIds`, `MaxStarts`, `PipeSize`
(scanner), `MaxRecords`, `MaxErrors`, `Pieces` (audit), `MaxWrites`
(database), `MaxFunctions`, `MaxTime`, `MaxEmits` (events) are the bounds on
what could go on for ever. `MaxHops`, `MaxWalkHops`, `MaxHits`, `ClusterSize`,
`RawSize`, `AsaLimit`, `IosLimit`, `KaslrLimit`, `Samples` are limits of the
code, made small. They allow the cases that matter:

* with three slots and four accepted addresses head and tail wrap; two waiting
  addresses fill the ring; two processes per slot include a replacement, four
  also the cap of one respawn per slot; with a pipe of one result a worker's
  exit waits for the client;
* three extractors include a two-cycle with something behind it, a dependency
  reached on two paths, one that is absent and one that is declared twice;
* files of two chunks and a half have occurrences inside, at and across a
  chunk's end, a file of ten units is cut off by `MaxHops = 2`, and four
  occurrences overrun `MaxHits` and `ClusterSize`;
* lists over four addresses include every cycle, every break, and, with
  `MaxWalkHops = 3`, the limit;
* memories of 6, 9 and 10 cells end with a page, inside one and after one;
  the tables lead to themselves, to data and beyond the end;
* two clients are what a lock, a stale snapshot and a death while writing
  need; three events at times up to six are closer than, at and farther than an
  interval of two.

The theorems below lift these bounds wherever they hold for every value of the
constants, which is for all safety properties of the passing runs, some under a
hypothesis that is named with the theorem. Only the limits of the code itself
remain in them, at any size.

`SlowWorkers`, `WorkMayFail`, `SpawnMayFail`, `Killable` and `MayInterrupt`
switch kinds of faults on and off, so that a run answers one question.

`CHECK_DEADLOCK FALSE` is set where the system really stops: the client may
stop calling, all workers may be dead, a process has ended (`scan_pipeline`),
an extractor has returned (`extractors`), a read is over, which changes nothing
in the backend, so that one read per behaviour is enough (`translation`), or a
bound is reached.

### Fairness

* Ring (`FairSpec`): weak fairness of each process's steps inside a call and
  of the workers' polling, strong fairness of taking a lock: an operating
  system schedules live processes, and a semaphore that is released again and
  again is obtained at last. Nobody has to call `put()`, and nothing has to
  crash.
* Scanner (`FairSpec`): weak fairness of the coordinator's steps in a call
  (`join` has a timeout), of each live worker and feeder thread and of the
  delivery of a signal; strong fairness of the feeder's lock, which other
  feeders hold in turns.
* `ExtractorDAG`, `ScanPipeline`, `LinuxLists`: weak fairness of the steps of
  the program itself. The code is sequential, reads of a regular file return,
  and each extractor's `run()` returns or raises; that they do is what
  `ScanEnds` checks for the ones modelled. In `ScanPipeline` the fair
  steps (`Proceed`) are those that do not raise, so that no command ends only
  because an exception must come at last; what is interrupted does raise.
* Audit, translation, services: none. No liveness is claimed there: a disk may
  stay full for ever and nobody has to call.

## Proofs

All theorems hold for every value of the constants that satisfies the module's
named assumptions.

`RingBufferProofs`, for every capacity, set of processes, wiring of the locks
and set of addresses:

* `TypeCorrect`: `Spec => []TypeOK`, for any wiring. The indices stay in range
  even when processes race; the strengthening `CarriesAddress` (what is about
  to be published or delivered is an address) makes it inductive.
* `RingInvariant`: `Serialised => (Spec => []RingInv)`. `Serialised` says that
  two producers share a lock with each other, and two consumers do; one
  producer and one consumer with private locks satisfy it, and so does a common
  lock. `RingInv` ties the slots from head to tail to the addresses accepted
  and not yet delivered, and says what each process knows in the middle of a
  call: a producer's copy of tail is the tail and its copy of head may only be
  behind, so that the ring looks fuller to it than it is; a consumer's copy of
  head is the head. None of these is inductive without the others, nor without
  mutual exclusion of the holders of one lock, which is a lemma of its own.
* `FirstInFirstOut`, `SlotRaceFreedom`: consequences of the invariant.
* `ImplementsQueue`: the ring implements `AddressQueue` of `Capacity - 1`
  places. `PutPublish` is the abstract put, `GetCommit` the abstract get, and
  every other step, deaths included, changes nothing.

The hypothesis `Serialised` is needed: in `ring_two_workers_loss` two workers
have private locks, which is what the scanner gives them whenever
`num_workers` is more than one, and addresses are lost.

`ScanPipelineProofs`, about the executor, for any number of extractors and any
dependency lists:

* `OrderIsSound`, `OrderLeavesOutCyclesOnly`: Kahn's algorithm. The invariant
  `Kahn` says that the in-degree of an extractor is the number of places in its
  list that wait for something compatible and unsorted (places, because a
  dependency may be declared twice), that those with in-degree 0 are just the
  queued and the sorted, without repetition, and that the needs of a sorted one
  stand before it. It gives the order directly. That nothing else is left out
  is an argument about graphs: once the queue is empty everything unsorted
  needs something unsorted; of all unsorted extractors upstream of one, take
  one whose `Upstream` is minimal: it needs an unsorted one with the same
  `Upstream`, which is therefore on a cycle.
* `ExecutorRunsOnSuccess`, `FaultsAreIsolated`: the invariant `Accounted` says
  that what the loop is through with is in exactly one list, that what ran had
  its direct needs among the succeeded, and that what was skipped has,
  upstream, something failed or absent. The properties about needs at any
  distance follow because the succeeded are closed under `Needs`, and
  `Upstream` is the least closed set.
* `ExecutorIsTyped`: types, with the help of both.

and about all three commands: `CommandDrivesExecutor` shows that a
step of a command is a step of the executor or leaves it alone, so that
`ScanOrdersAndIsolates` and `ScanIsTyped` carry the above over to whole scans.
`TrailTellsTheTruth` rests on `Progress` (which events are recorded at which
place, and that the executor rests before and after), `ExitCodeIsHonest` on
`Honest` (which files are open at which place, and what has been done while
nothing has raised): exit code 0 is only reached past the last place that can
raise, printing included.

`ScannerProofs`, for any number of worker slots, processes, addresses, results
per address and calls of `start()`, and any size of ring and pipe:

* `NeverTooManyWorkers`: the invariant `Team` says that outside of a failed
  `start()` every live process that uses the ring is in one of the slots of
  `_workers`, of which there are at most `num_workers`.
* `StoppedIsCleanedUp`: if `Process.start()` does not raise (it is among the
  known disagreements what happens otherwise), by `Signalling`: a live process
  is in the list that `stop()` will work through or was sent SIGTERM, and each
  phase of `stop()` says how far it has come.
* `ScannerTypes`: with any number of workers that race on the ring. The point
  is that `get()` never returns a slot no `put()` has written. `Wrapped` (all
  slots are written) or `NotYet` (the indices have not wrapped, and no worker's
  copy of head is past tail) holds throughout: races bring head back, never
  ahead of tail before the first lap is over.
* `OneWorkerWorksOnce`, `CleanStopLosesNothing`: with one slot, over any number
  of replacements. A single slot gives mutual exclusion of consumers without a
  common lock (`Exclusive` of `RingBufferProofs`, whose lemmas are used through
  an instance), so that the ring keeps its invariant; it is not inductive
  otherwise. `InOrder` follows an address from `get()` to `processed`; `SentOn`
  says that a result is in some buffer, the pipe or drained unless a process
  was lost; `LastRound`, `Served` and `Complete` say what a worker that has
  seen the event and then an empty ring knows: nothing is submitted any more
  and nothing is in another's hand.
* `RoomyPipeLosesNothing`: any number of workers, none of them late for
  `join(timeout=5.0)` of its own accord, and a pipe in which there is always
  room (`Roomy`, an assumption on the behaviour: `[]Roomy`). Then a worker that
  has come to its end is not held up by its feeder thread, so `join` sees it
  end, `stop()` finds nobody alive to terminate (`Spared`, phase by phase of
  `stop()`), and a process that is lost was killed. `Kept` adds that nobody
  killed means all that was found is in a buffer, in the pipe or drained, and
  those who have ended have empty buffers.
* `LargePipeLosesNothing`: with one slot `[]Roomy` follows from a pipe that
  holds as many candidates as there are: by `Single` a candidate is in one
  place only, so the pipe holds distinct ones and its length is bounded by
  their number.
* `OneWorkerReportsOnce` (`ReportedOnce`, which no run checks by itself because
  the refinement below contains it): from `Single` and `AcceptedOnce`. A worker
  only puts the candidates of an address it has not processed before
  (`InOrder`, and the ring accepts an address once), so what it adds is nowhere
  yet.
* `ImplementsStream`: with one slot. `scanned` is `processed`, `found` is what
  is in buffers and pipe (`Unreturned`). `put` accepts, `_process_address`
  scans the next in turn, `get_nowait` returns a candidate that is then nowhere
  else, a death or `start()` loses what was not returned, and every other step
  leaves the four abstract variables alone. Losing is part of the abstract
  specification because the code may lose; when it does not is what
  `RoomyPipeLosesNothing` and `CleanStopLosesNothing` say.

`AuditTrailProofs`, for any number of sessions, records, errors and pieces:
`TrailTypes`, `SessionsAlwaysVerify` and `RecordedIsKept` rest on `Intact`. Its
core is `Streams`: what a session has in the file and in its buffer, put
together, is a `Sound` list of pieces (no line without its beginning, a torn
line only where another session's begins, the lines of a session together, each
code going on from the line before), whose last line is the one `_prev_hmac`
belongs to. A partial write moves the border between file and buffer and leaves
the stream as it is; a death cuts it off, and a beginning of a sound list is
sound. `RecordedIsWritten` adds that what was recorded is complete, in order.

`ExtractorsProofs`, for any file, memory, sizes and limits:

* `ExtractorTypes`; `AddAll` is unfolded once (`AddAllIsAdded`) and `Grown` says
  what it does to a list: it adds nothing else, none twice, and leaves out only
  what is there or whose kind is full.
* `HiddenIsReported`, `NoAlarmIsFalse`: the invariant `Searched`. `ListWalked`:
  what has been visited is on the list, and what it leads to is visited or
  queued. So either the queue has run empty and the visited are closed under
  the successor, hence all of the list, defined as a least closed set; or the
  limit was reached. `Reported` ties report and listed keys to what was
  visited and carved, `Carved` the carved to the chunks read.
* `FirstOfEachIsKept`: `EntriesListed` says of each of the eleven searches
  which entries it makes of a part of the file, and that they come in turns
  (`InTurn`: pattern after pattern, each from the start of the part). `Met` puts
  the chunks before the patterns. The invariant `Scanned` says that the report
  has `Kept`, of the entries met so far, the first of each key, and has left out
  others only when their kind was full, or, for `linux/network`, when its list
  was `CutOff` at the limit. A chunk contributes what the whole file has between
  its ends (`ChunkEntries`): an occurrence that does not cross the end keeps its
  text and fits (`SameInChunk`), a window fits because windows divide the chunk
  (`WindowsFit`, the only arithmetic on sizes). That what is met first is first
  in the file holds where keys tell patterns apart (`KeysTellPatterns`).
* `SessionsAreClusters`: by induction over the commands, unfolded like `AddAll`.
  `Sessions` describes the lists that `AddCommand` makes of the first n commands
  by the places where they are cut: each list is the `Part` of the commands
  between two cuts, and `IsSession` says how large and how far apart they may
  be. `SessionsJoined` puts the parts together again. That the commands have
  one place each, so that their order is theirs in the file, is the invariant
  `Commands`.

`TranslationProofs`, for any dumps, any sizes of pages, chunks and texts, any
tables, limits and reads:

* `ReadsAlwaysTranslate`: `PhysicalIsTarget` shows that the relation between
  tables and frames maps an address to at most one place, the one the walk
  ends at if the dump holds it; a large page is found with `SamePage`, which
  says what of an address stays the same for the rest of its page, and so does
  that one turn of the loop copies the right cells (`PageRead`). The invariant
  `Paged` says that the cells copied are those of the first addresses, zeros
  where the dump holds none, and that `resolved` is 0 exactly if it holds none
  of them; the fault at the end is decided by that alone. The argument has no
  need of what `ReadsTranslate` assumes about entries of 1 GiB; the hypothesis
  is there because the processor's relation is another one for these.
* `DetectionAlwaysRight`: `ScanFindsText` unfolds the recursion over chunks and
  shows, by induction from the end, that what is found from a place on are the
  texts from there to the limit, because the overlap is a text's length but
  one. `BestExists` finds the first of the highest scores as the least of a
  rank; it is what the registry chooses (`PlatformIsBest`).
* `EncryptionFollowsSample`: in a dump of no more pages than samples the step
  between samples is the size of a page, or larger by so little that each
  sample still falls into the next page (`EachSample`).
* `TranslationTypes`, with `BaseIsPlausible` for the search of the descriptor.

The assumptions are on the form of a dump (`IsDump`), and that 64 MiB are more
than a header and the plausible kernel bases begin at a page.

`ServicesProofs`:

* `FreshAnswers`, for any number of clients and rows, rests on `Fresh`, which
  says that the rows and the history of returned writes agree, that one client
  writes at a time and, if it has read in its transaction, on the latest
  commit, that a snapshot equals the database unless somebody has committed
  since, and that an answer was right unless it came from such an old snapshot.
  An answer stays right across a commit only because nobody else can be writing
  then.
* `RateLimit`, from the invariant that `lastEmit` is the time of the last event
  passed on, whatever the listeners did with it.
* `NobodyIsForgotten`, for any functions: while an event is passed on, those
  called are the first of the list, and the list is the one there was when the
  event came and one more for each call that registered another (`UnderWay`).

`ListLemmas` holds what these need about sequences and finite sets. The
induction theorems of the library cannot be instantiated here, so induction is
used in the form of a minimal counterexample: `MinimalSubset` (a non-empty set
of subsets of a finite set has a minimal one), and from it `IntervalInduction`.
The helper `Among` of `ExtractorDAG`, a recursive function that keeps the
elements of a list that lie in a set, is proved correct that way
(`AmongElements`).

Model-checked only:

* all liveness: the proof system has no rules for fairness.

`DrainCollectsAll` is proved only under the hypotheses of the two theorems
above, for good reason: it is false when the candidates outgrow the result pipe
or a worker outlasts `join` (see below). The run has a pipe large enough and
no slow worker.

## Known disagreements of code and documentation

Shown by a run, with the sentence quoted in `PROJECT.json`: the three of the
second table above. Met while modelling, and not runs of their own:

* `extractors/linux/process.py` and `modules.py` both return the key
  `dkom_anomalies`; `merged_results.update()` (`extractors/base.py:151`) keeps
  the later one, and `src/README.md:89` promises the combined results of all.
* `Process.start()` raising inside `start()`: `_started` is still false, so
  `stop()` returns at once (`coordinator.py:188`) and workers and shared memory
  stay, although `coordinator.py:187` says it cleans up. `StopCleansUp` fails
  with `SpawnMayFail = TRUE`.
* When the candidates do not fit the result pipe and nobody drains it, workers
  cannot exit, `stop()` terminates them (`coordinator.py:195` and after) and
  candidates are lost that `coordinator.py:119` says are drained.
* `_check_workers()` is only called by `stop()` (`coordinator.py:197`): a
  worker that crashes during the scan is replaced after it.
* `_cmd_verify` passes the open file to `validate_elf_header` (`cli.py:288`),
  which takes bytes; the exception is swallowed and `elf_valid` is always
  false, against `src/docs/user-guide/cli-reference.md:72`.
* An object that ends with its chunk, or crosses its end, is never carved: a
  process hidden there is not reported (`extractors/linux/process.py:244`).
* `linux/network` counts its hits, not its chunks, against the limit of
  500,000 hops that `src/docs/developer-guide/writing-extractors.md:8` asks of
  every loop.
* Two secrets less than 64 bytes apart can count as one
  (`cisco/common/snmp_config.py:119`).
* Pages of 1 GiB are walked as if the entry pointed to a page directory
  (`core/backends/x86_64.py:145`).
* An ELF file of 18 or 19 bytes makes `detect()` raise `struct.error`
  (`core/backends/x86_64.py:43`).
* A hook that registers itself again would never end (`core/hooks.py:43`).
* `_disabled` also holds extractors that are not on a cycle but need one that
  is (`OrderIsComplete` states it exactly), while the log message of
  `extractors/base.py:101` speaks of the cycle only; and `overall` is COMPLETE
  although extractors were disabled (`FaultIsolation` speaks of the ordered
  ones).

## Not modelled

* `utils/validation.py`, `utils/decompression.py`: checks and conversions of
  single values without state. `core/logging_config.py`: sets up a library.
* `extractors/generic/strings.py`: runs an external program and keeps its first
  50,000 lines; in `ExtractorDAG` it is an extractor that succeeds or raises.
* Entropy itself, a sum of logarithms: whether a page or window is random is
  part of the input. The notes on MSRs that `core/entropy.py` collects are read
  by nobody.
* The fields of what is parsed (addresses, ports, versions), redaction of
  secrets, what is printed, parsing of arguments.
* Scans that run at the same time into one audit file, capacity 1 of the ring,
  the end of the coordinator's interpreter.
