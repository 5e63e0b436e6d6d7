------------------------------ MODULE LinuxLists ------------------------------
(***************************************************************************)
(* linux/process and linux/modules, which look for kernel objects (tasks,  *)
(* modules) on two paths: they follow the kernel's list through virtual    *)
(* memory, and carve the dump file in chunks.  An object that is carved    *)
(* but not on the list has been hidden, and is reported as an anomaly.     *)
(*                                                                         *)
(* An object of the list is its virtual address.  Its key is the PID or    *)
(* the module's name.  Where the memory does not hold a plausible object   *)
(* there may still be a pointer to the next one, and the other way round.  *)
(* An object in the file is an occurrence of pattern a, its key the value. *)
(***************************************************************************)
EXTENDS ChunkScan

CONSTANTS
  LinuxFiles,    (* the files these two extractors search                   *)
  Addresses,     (* virtual addresses, in their order                       *)
  Window,        (* the addresses at which the first object is looked for   *)
  Memories,      (* functions from addresses to [key, plausible, next]      *)
  Famous,        (* the keys the first object may have: PID 1 or the names  *)
                 (* of some modules                                         *)
  NoPid,         (* PID 0, accepted on the list but not when carving; for   *)
                 (* modules, a name that is accepted on neither path        *)
  MaxWalkHops    (* max_hops                                                *)

Nowhere == 0     (* unreadable, or no kernel address                        *)
LinuxExtractors == {"linux/process", "linux/modules"}

ASSUME LinuxAssumption ==
  /\ Scanners \cap LinuxExtractors = {} /\ \A f \in LinuxFiles : IsFile(f)
  /\ Addresses \subseteq Nat \ {Nowhere} /\ IsFiniteSet(Addresses)
  /\ Window \subseteq Addresses
  /\ \A m \in Memories : DOMAIN m = Addresses
                         /\ \A v \in Addresses : m[v].next \in Addresses \cup {Nowhere}
  /\ MaxWalkHops \in Nat

VARIABLES
  memory,             (* the virtual memory, constant during the run        *)
  head,               (* init_task_va or head_va                            *)
  queue, visited,     (* local variables of the walk; hops counts visited   *)
  carved              (* carve_results                                      *)

listVars == <<memory, head, queue, visited, carved>>
vars == <<scanVars, listVars>>

LinuxInit ==
  /\ extractor \in LinuxExtractors /\ file \in LinuxFiles /\ memory \in Memories
  /\ phase = "find" /\ chunk = 0 /\ report = <<>>
  /\ head = Nowhere /\ queue = <<>> /\ visited = {} /\ carved = <<>>

-----------------------------------------------------------------------------
(* _read_task_struct(), _read_module_struct(): do they return something?   *)
IsTask(v) == memory[v].plausible
IsModule(v) == memory[v].plausible /\ memory[v].key # NoPid

Decodes(v) == IF extractor = "linux/process" THEN IsTask(v) ELSE IsModule(v)

(* The walk starts at v, or there is no walk.                              *)
StartWalk(v) ==
  /\ phase = "find"
  /\ head' = v
  /\ queue' = IF v = Nowhere THEN <<>> ELSE <<v>>
  /\ phase' = "walk"
  /\ UNCHANGED <<extractor, file, chunk, report, memory, visited, carved>>

First(S) == CHOOSE v \in S : \A w \in S : v <= w

(* The lowest address that looks like the first object of the list.        *)
FindInitTask ==
  /\ extractor = "linux/process"
  /\ LET candidates == {v \in Window : IsTask(v) /\ memory[v].key \in Famous}
     IN StartWalk(IF candidates = {} THEN Nowhere ELSE First(candidates))

FindHeadModule ==
  /\ extractor = "linux/modules"
  /\ LET candidates == {v \in Window : IsModule(v) /\ memory[v].key \in Famous}
     IN StartWalk(IF candidates = {} THEN Nowhere ELSE First(candidates))

(* The backend does not know where the kernel is.                          *)
NoKernelBase == extractor \in LinuxExtractors /\ StartWalk(Nowhere)

-----------------------------------------------------------------------------
Object(key, source) == [key |-> <<"object", key>>, source |-> source]

Walking ==
  /\ phase = "walk" /\ queue # <<>> /\ Cardinality(visited) < MaxWalkHops
  /\ extractor \in LinuxExtractors

(* One turn of the loop: an address seen before is dropped, ...            *)
MutDropVisited ==
  /\ Walking /\ Head(queue) \in visited
  /\ queue' = IF memory[Head(queue)].next = Nowhere THEN <<>>
              ELSE <<memory[Head(queue)].next>>
  /\ UNCHANGED <<scanVars, memory, head, visited, carved>>
DropVisited ==
  /\ Walking /\ Head(queue) \in visited
  /\ queue' = Tail(queue)
  /\ UNCHANGED <<scanVars, memory, head, visited, carved>>

(* ... another one is read and its successor queued, whatever was read.    *)
MutVisit(v, decodes) ==
  /\ Walking /\ v = Head(queue) /\ v \notin visited
  /\ visited' = visited \cup {v}
  /\ report' = IF decodes THEN Add(report, Object(memory[v].key, "list_walk")) ELSE report
  /\ queue' = IF decodes /\ memory[v].next # Nowhere THEN <<memory[v].next>> ELSE <<>>
  /\ UNCHANGED <<extractor, file, phase, chunk, memory, head, carved>>
Visit(v, decodes) ==
  /\ Walking /\ v = Head(queue) /\ v \notin visited
  /\ visited' = visited \cup {v}
  /\ report' = IF decodes THEN Add(report, Object(memory[v].key, "list_walk")) ELSE report
  /\ queue' = Tail(queue) \o (IF memory[v].next = Nowhere THEN <<>> ELSE <<memory[v].next>>)
  /\ UNCHANGED <<extractor, file, phase, chunk, memory, head, carved>>

VisitTask == \E v \in Addresses :
  extractor = "linux/process" /\ Visit(v, IsTask(v))
VisitModule == \E v \in Addresses :
  extractor = "linux/modules" /\ Visit(v, IsModule(v))

EndWalk ==
  /\ phase = "walk" /\ ~Walking
  /\ phase' = "scan"
  /\ UNCHANGED <<extractor, file, chunk, report, listVars>>

-----------------------------------------------------------------------------
(* The objects a chunk holds; one that ends with the chunk, or beyond, is  *)
(* not looked at.                                                          *)
InChunk(lo, hi) == {o \in Structures(lo, hi) : o.value # NoPid}

(* They go to the results of carving, and to the report unless an object   *)
(* with this key is there already, from the list or from elsewhere.        *)
Carve(objects) ==
  /\ phase = "scan" /\ More
  /\ carved' = carved \o objects
  /\ report' = AddAll(report, [i \in DOMAIN objects |-> Object(objects[i].value, "carve")])
  /\ chunk' = chunk + 1
  /\ UNCHANGED <<extractor, file, phase, memory, head, queue, visited>>

CarveTasks == extractor = "linux/process" /\ Carve(InOrder(InChunk(Lo, Hi)))
CarveModules == extractor = "linux/modules" /\ Carve(InOrder(InChunk(Lo, Hi)))

EndCarving ==
  /\ phase = "scan" /\ ~More /\ extractor \in LinuxExtractors
  /\ phase' = "done"
  /\ UNCHANGED <<extractor, file, chunk, report, listVars>>

(* list_walk_pids, list_walk_names                                         *)
MutListed == {report[i].key[2] : i \in DOMAIN report}
Listed == {report[i].key[2] : i \in {j \in DOMAIN report : report[j].source = "list_walk"}}

(* dkom_anomalies                                                          *)
Anomalies == {o \in ToSet(carved) : o.value \notin Listed}

LinuxNext ==
  \/ FindInitTask \/ FindHeadModule \/ NoKernelBase
  \/ DropVisited \/ VisitTask \/ VisitModule \/ EndWalk
  \/ CarveTasks \/ CarveModules \/ EndCarving

-----------------------------------------------------------------------------
(* All extractors that search the dump.                                    *)

Unmapped == [v \in Addresses |-> [key |-> NoPid, plausible |-> FALSE, next |-> Nowhere]]

AllInit ==
  \/ LinuxInit
  \/ /\ Init
     /\ memory = Unmapped /\ head = Nowhere /\ queue = <<>>
     /\ visited = {} /\ carved = <<>>

Notes == BoundedSeq({"note 1", "note 2"}, MaxHits + 1)

AllNext ==
  \/ LinuxNext
  \/ (ScanNext \/ \E notes \in Notes : ElfNotes(notes)) /\ UNCHANGED listVars

(* An extractor that has been called runs on.                              *)
Spec == AllInit /\ [][AllNext]_vars /\ WF_vars(AllNext)

-----------------------------------------------------------------------------
(* Properties.                                                             *)

TypeOK ==
  /\ extractor \in Scanners \cup LinuxExtractors
  /\ file.size \in Nat /\ DOMAIN memory = Addresses
  /\ phase \in {"notes", "find", "walk", "scan", "done"}
  /\ chunk * ChunkSize < file.size + ChunkSize
  /\ chunk > MaxHops => extractor = "network"
  /\ head \in Window \cup {Nowhere}
  /\ Len(queue) <= 1 /\ ToSet(queue) \subseteq Addresses /\ visited \subseteq Addresses
  /\ ToSet(carved) \subseteq file.occurrences
  /\ \A i, j \in DOMAIN report : report[i].key = report[j].key => i = j \/ Head(report[i].key) = "note"

(* The objects of the kernel's list: the head, the next of each of them.   *)
OnList ==
  {v \in Addresses :
    \A S \in SUBSET Addresses :
      (head \in S /\ \A w \in S : memory[w].next \in S \cup {Nowhere}) => v \in S}

ListedKeys == IF head = Nowhere THEN {} ELSE {memory[v].key : v \in {w \in OnList : Decodes(w)}}

(* The objects that lie well within a chunk that is read.                  *)
Visible == {o \in file.occurrences :
             /\ o.pattern = "a" /\ o.value # NoPid
             /\ o.at \div ChunkSize < MaxHops
             /\ o.at + StructSize < file.size
             /\ (o.at % ChunkSize) + StructSize < ChunkSize}

LinuxDone == phase = "done" /\ extractor \in LinuxExtractors

(* No rootkit escapes by where the walk ends: however the list is broken,  *)
(* cyclic or too long, and whatever shares its key, every visible object   *)
(* whose key nothing on the list has is among the anomalies.               *)
HiddenAreReported ==
  LinuxDone => \A o \in Visible : o.value \notin ListedKeys => o \in Anomalies

(* An object is called hidden though the list leads to one of its key only *)
(* when the walk was cut off at its limit; and every object on the list or *)
(* visible is in the report, once.                                         *)
NoFalseAlarm ==
  (LinuxDone /\ (head = Nowhere \/ Cardinality(OnList) <= MaxWalkHops)) =>
    /\ \A o \in Anomalies : o.value \notin ListedKeys
    /\ {report[i].key[2] : i \in DOMAIN report} =
         ListedKeys \cup {o.value : o \in Visible}
    /\ Len(report) = Cardinality(ToSet(report))

(* Every extractor returns, whatever the lists look like.                  *)
ScanEnds == <>(phase = "done")
=============================================================================
