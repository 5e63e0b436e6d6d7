---------------------------- MODULE ExtractorDAG ----------------------------
(***************************************************************************)
(* ExtractorDAGExecutor, extractors/base.py: orders the extractors of the  *)
(* detected platform by their dependencies (Kahn's algorithm) and runs     *)
(* them one after the other, so that one that fails takes down only those  *)
(* that need it.                                                           *)
(*                                                                         *)
(* An extractor is its name.  What it declares is chosen once, in Init,    *)
(* from the constants; a dependency may be declared twice, may be the      *)
(* extractor itself, and may name an extractor of another platform.  What  *)
(* run() computes is abstracted to the keys of the dict it returns.        *)
(***************************************************************************)
EXTENDS Naturals, Sequences, FiniteSets, SequencesExt

CONSTANTS
  Available,        (* names of the discovered extractors, in their order   *)
  Declarations,     (* the possible dependency lists of all extractors      *)
  Platforms,        (* the sets of extractors some platform is compatible   *)
                    (* with                                                 *)
  KeysOf,           (* the keys of the dict each extractor returns          *)
  MayInterrupt      (* run() may raise what is not an Exception             *)

Names == ToSet(Available)
Keys == UNION {KeysOf[e] : e \in Names}
NoWriter == "none"   (* no extractor has written this key                   *)

ASSUME DAGAssumption ==
  /\ Available \in Seq(Names)
  /\ \A i, j \in DOMAIN Available : Available[i] = Available[j] => i = j
  /\ Declarations \subseteq [Names -> Seq(Names)]
  /\ Platforms \subseteq SUBSET Names
  /\ NoWriter \notin Names
  /\ MayInterrupt \in BOOLEAN

VARIABLES
  extractors,     (* _extractors, after the platform filter                 *)
  dependencies,   (* the class attribute of each extractor                  *)
  inDegree, queue, sorted,    (* the local variables of _resolve_dag()      *)
  disabled,       (* _disabled                                              *)
  phase,          (* resolving, ready, executing, done, interrupted         *)
  position,       (* extractors of the order that execute() is through with *)
  succeeded, failed, skipped, (* the lists of the scan_status block         *)
  merged          (* merged_results: the extractor each key's value is from *)

declared == <<extractors, dependencies>>
resolution == <<inDegree, queue, sorted, disabled>>
outcome == <<succeeded, failed, skipped, merged>>
vars == <<declared, resolution, phase, position, outcome>>

-----------------------------------------------------------------------------
(* Operators whose name starts with Mut are faulty variants of the         *)
(* definition that follows them, never used by the model.                  *)

(* A loop over a list that keeps what is in a set, in the order of the list.*)
Among(list, set) ==
  LET f[n \in 0 .. Len(list)] ==
        IF n = 0 THEN <<>>
        ELSE IF list[n] \in set THEN Append(f[n - 1], list[n]) ELSE f[n - 1]
  IN f[Len(list)]

(* How often extractor e declares d.                                       *)
Times(e, d) == Cardinality({i \in DOMAIN dependencies[e] : dependencies[e][i] = d})

(* Dependencies that are not among the compatible extractors do not count. *)
MutInitialDegree(list, deps) == Len(deps)
MutInitialDegreeOnce(list, deps) == Cardinality(ToSet(deps) \cap ToSet(list))
InitialDegree(list, deps) ==
  Cardinality({i \in DOMAIN deps : deps[i] \in ToSet(list)})

Filter(platform) == Among(Available, platform)

NothingRun ==
  /\ position = 0
  /\ succeeded = <<>> /\ failed = <<>> /\ skipped = <<>>
  /\ merged = [k \in Keys |-> NoWriter]

(* __init__() up to the loop of _resolve_dag().                            *)
Init ==
  /\ \E platform \in Platforms : extractors = Filter(platform)
  /\ dependencies \in Declarations
  /\ inDegree = [e \in ToSet(extractors) |->
                   InitialDegree(extractors, dependencies[e])]
  /\ queue = Among(extractors, {e \in ToSet(extractors) : inDegree[e] = 0})
  /\ sorted = <<>> /\ disabled = <<>>
  /\ phase = "resolving"
  /\ NothingRun

(* The extractors that node's removal from the graph makes ready.          *)
MutReleased(node) ==
  Among(extractors, {e \in ToSet(extractors) : Times(e, node) > 0})
Released(node) ==
  Among(extractors, {e \in ToSet(extractors) : Times(e, node) > 0
                                               /\ inDegree[e] = Times(e, node)})

(* One turn of the while loop, the loop over the dependents included.      *)
Sort ==
  /\ phase = "resolving" /\ queue # <<>>
  /\ LET node == Head(queue) IN
       /\ sorted' = Append(sorted, node)
       /\ queue' = Tail(queue) \o Released(node)
       /\ inDegree' = [e \in DOMAIN inDegree |-> inDegree[e] - Times(e, node)]
  /\ UNCHANGED <<declared, disabled, phase, position, outcome>>

(* What the queue never held is disabled.                                  *)
MutResolved ==
  /\ phase = "resolving" /\ queue = <<>>
  /\ disabled' = Among(extractors, Names \ ToSet(sorted))
  /\ phase' = IF disabled' = <<>> THEN "ready" ELSE phase
  /\ UNCHANGED <<declared, inDegree, queue, sorted, position, outcome>>
Resolved ==
  /\ phase = "resolving" /\ queue = <<>>
  /\ disabled' = Among(extractors, Names \ ToSet(sorted))
  /\ phase' = "ready"
  /\ UNCHANGED <<declared, inDegree, queue, sorted, position, outcome>>

-----------------------------------------------------------------------------
(* execute(): the lists are local, each call starts with empty ones.       *)
Execute ==
  /\ phase \in {"ready", "done", "interrupted"}
  /\ phase' = "executing"
  /\ position' = 0
  /\ succeeded' = <<>> /\ failed' = <<>> /\ skipped' = <<>>
  /\ merged' = [k \in Keys |-> NoWriter]
  /\ UNCHANGED <<declared, resolution>>

Current == sorted[position + 1]
Running == phase = "executing" /\ position < Len(sorted)

MutMissing(e) == {d \in ToSet(dependencies[e]) : d \in ToSet(failed)}
Missing(e) == {d \in ToSet(dependencies[e]) : d \notin ToSet(succeeded)}

(* A dependency did not succeed.                                           *)
Skip ==
  /\ Running /\ Missing(Current) # {}
  /\ skipped' = Append(skipped, Current)
  /\ position' = position + 1
  /\ UNCHANGED <<declared, resolution, phase, succeeded, failed, merged>>

(* run() returns.  A later dict overwrites the keys of the earlier ones; a *)
(* result that is not a dict counts as one without keys.                   *)
RunSucceeds(keys) ==
  /\ Running /\ Missing(Current) = {}
  /\ succeeded' = Append(succeeded, Current)
  /\ merged' = [k \in Keys |-> IF k \in keys THEN Current ELSE merged[k]]
  /\ position' = position + 1
  /\ UNCHANGED <<declared, resolution, phase, failed, skipped>>

(* run() raises an Exception: the loop goes on with the next extractor.    *)
MutRunFails ==
  /\ Running /\ Missing(Current) = {}
  /\ failed' = Append(failed, Current)
  /\ phase' = "done"
  /\ UNCHANGED <<declared, resolution, position, succeeded, skipped, merged>>
RunFails ==
  /\ Running /\ Missing(Current) = {}
  /\ failed' = Append(failed, Current)
  /\ position' = position + 1
  /\ UNCHANGED <<declared, resolution, phase, succeeded, skipped, merged>>

(* run() raises KeyboardInterrupt or the like: execute() has no result.    *)
RunInterrupted ==
  /\ MayInterrupt
  /\ Running /\ Missing(Current) = {}
  /\ phase' = "interrupted"
  /\ UNCHANGED <<declared, resolution, position, outcome>>

(* The order is exhausted; the result holds the lists and the merged keys. *)
Return ==
  /\ phase = "executing" /\ position = Len(sorted)
  /\ phase' = "done"
  /\ UNCHANGED <<declared, resolution, position, outcome>>

(* scan_status.overall                                                     *)
Overall == IF failed = <<>> /\ skipped = <<>> THEN "COMPLETE" ELSE "PARTIAL"

Step ==
  \/ Sort \/ Resolved
  \/ Skip \/ RunFails \/ RunInterrupted \/ Return
  \/ Running /\ RunSucceeds(KeysOf[Current])
  \/ RunSucceeds({})

Next == Step \/ Execute

(* __init__() and execute() run on by themselves once called; nobody has   *)
(* to call execute().                                                      *)
Spec == Init /\ [][Next]_vars /\ WF_vars(Step)

-----------------------------------------------------------------------------
(* Properties.                                                             *)

Compatible == ToSet(extractors)
Needs(e) == {d \in Names : d \in ToSet(dependencies[e])}

(* The dependencies of e, theirs, and so on: the least set that holds      *)
(* those of e and, with a compatible extractor, that extractor's.          *)
Upstream(e) ==
  {d \in Names :
    \A S \in SUBSET Names :
      (Needs(e) \subseteq S /\ \A x \in S \cap Compatible : Needs(x) \subseteq S)
        => d \in S}

OnCycle(e) == e \in Compatible /\ e \in Upstream(e)

TypeOK ==
  /\ extractors \in Seq(Names)
  /\ dependencies \in Declarations
  /\ inDegree \in [Compatible -> Nat]
  /\ queue \in Seq(Compatible) /\ sorted \in Seq(Compatible)
  /\ disabled \in Seq(Compatible)
  /\ phase \in {"resolving", "ready", "executing", "done", "interrupted"}
  /\ position \in 0 .. Len(sorted)
  /\ succeeded \in Seq(Compatible) /\ failed \in Seq(Compatible)
  /\ skipped \in Seq(Compatible)
  /\ merged \in [Keys -> Names \cup {NoWriter}]

(* Every compatible dependency of an extractor stands before it in the     *)
(* execution order, and no extractor stands there twice.                   *)
OrderIsTopological ==
  \A i \in DOMAIN sorted :
    /\ \A d \in Needs(sorted[i]) \cap Compatible :
         \E j \in 1 .. i - 1 : sorted[j] = d
    /\ \A j \in 1 .. i - 1 : sorted[j] # sorted[i]

(* _resolve_dag() disables the extractors on a dependency cycle and those  *)
(* that need one of them, no others, and orders all the rest.              *)
OrderIsComplete ==
  phase # "resolving" =>
    LET doomed == {e \in Compatible :
                     OnCycle(e) \/ \E d \in Upstream(e) : OnCycle(d)}
    IN ToSet(disabled) = doomed /\ ToSet(sorted) = Compatible \ doomed

(* run() is called only after all that the extractor needs, directly or    *)
(* through others, has succeeded in this call of execute().                *)
RunsOnSuccess ==
  \A e \in ToSet(succeeded) \cup ToSet(failed) : Upstream(e) \subseteq ToSet(succeeded)

(* In the result each ordered extractor is in one list once.  It is        *)
(* skipped just when one that it needs, directly or through others, failed *)
(* or is not there for this platform: a failure reaches nobody else.       *)
(* COMPLETE means that all ordered extractors succeeded.                   *)
FaultIsolation ==
  phase = "done" =>
    /\ ToSet(succeeded) \cup ToSet(failed) \cup ToSet(skipped) = ToSet(sorted)
    /\ Len(succeeded) + Len(failed) + Len(skipped) = Len(sorted)
    /\ ToSet(skipped) =
         {e \in ToSet(sorted) :
            \E d \in Upstream(e) : d \in ToSet(failed) \/ d \notin Compatible}
    /\ Overall = "COMPLETE" <=> ToSet(succeeded) = ToSet(sorted)
=============================================================================
