---------------------------- MODULE ScanPipeline ----------------------------
(***************************************************************************)
(* The commands of cli.py.  `scan' examines the dump, opens the audit      *)
(* trail, orders and runs the extractors (ExtractorDAG), records that it   *)
(* is done and writes the report; `detect' and `verify' stop after the     *)
(* examination.  What raises inside the try block goes through the finally *)
(* block; what raises there or afterwards, while the result is printed,    *)
(* ends the process at once.                                               *)
(*                                                                         *)
(* The examination (hash, entropy, platform, architecture; see Detection)  *)
(* is one step that succeeds or raises; the platform it finds is that of   *)
(* the ExtractorDAG instance, whose variables hold from the start what its *)
(* constructor makes of it.  The trail is the list of the events recorded  *)
(* (the file is AuditTrail's subject), the report is there, torn or whole. *)
(*                                                                         *)
(* Operators whose name starts with Mut are faulty variants of the         *)
(* definition that follows them, never used by the model.                  *)
(***************************************************************************)
EXTENDS ExtractorDAG

CONSTANT Commands      (* those of scan, detect and verify that are given  *)

ASSUME CommandsAssumption == Commands \subseteq {"scan", "detect", "verify"}

VARIABLES
  command,
  at,        (* the next thing to do: see Places                           *)
  dump,      (* fh: none, open, closed                                     *)
  audit,     (* audit: none, open, closed                                  *)
  trail,     (* the events recorded                                        *)
  report,    (* vantacore_output.json: none, torn, written                 *)
  exit       (* running, or its end: ok (0), usage (1), traceback (others) *)

files == <<dump, audit>>
products == <<trail, report>>
pipeline == <<command, at, files, products, exit>>
allVars == <<vars, pipeline>>

Places == {"start", "examine", "prepare", "ingest", "extract", "record",
           "report", "finally", "close", "print", "over"}

PipelineInit ==
  /\ Init
  /\ command \in Commands
  /\ at = "start" /\ dump = "none" /\ audit = "none"
  /\ trail = <<>> /\ report = "none" /\ exit = "running"

-----------------------------------------------------------------------------
Goto(place) == at' = place

(* No path on the command line, or one that cannot be opened: an OSError   *)
(* is reported, unless that print or open() raises something else.         *)
Refuse ==
  /\ at = "start"
  /\ exit' \in {"usage", "traceback"} /\ Goto("over")
  /\ UNCHANGED <<vars, command, files, products>>

Open ==
  /\ at = "start"
  /\ dump' = "open" /\ Goto("examine")
  /\ UNCHANGED <<vars, command, audit, products, exit>>

Examine ==
  /\ at = "examine"
  /\ Goto(IF command = "scan" THEN "prepare" ELSE "finally")
  /\ UNCHANGED <<vars, command, files, products, exit>>

(* mkdir() and the trail's constructor.                                    *)
Prepare ==
  /\ at = "prepare"
  /\ audit' = "open" /\ Goto("ingest")
  /\ UNCHANGED <<vars, command, dump, products, exit>>

RecordEvent(event, next) ==
  /\ trail' = Append(trail, event) /\ Goto(next)
  /\ UNCHANGED <<vars, command, files, report, exit>>

Ingest == at = "ingest" /\ RecordEvent("DUMP_INGESTED", "extract")

(* _discover_extractors() skips what it cannot load; the executor then     *)
(* runs to the end by the steps of ExtractorDAG.                           *)
Extract ==
  /\ at = "extract"
  /\ Step \/ (phase = "ready" /\ Execute)
  /\ UNCHANGED pipeline

Extracted ==
  /\ at = "extract" /\ phase = "done"
  /\ Goto("record")
  /\ UNCHANGED <<vars, command, files, products, exit>>

MutComplete == at \in {"record", "extract"} /\ RecordEvent("SCAN_COMPLETED", "report")
Complete == at = "record" /\ RecordEvent("SCAN_COMPLETED", "report")

(* json.dump() writes as it goes.                                          *)
Write ==
  /\ at = "report"
  /\ report' = "written" /\ Goto("finally")
  /\ UNCHANGED <<vars, command, files, trail, exit>>

(* What raises leaves the try block: a failing read, no backend for the    *)
(* dump, a disk that is full, a result that JSON cannot express.  Around   *)
(* the extractors it is the discovery, the constructor, the seek before    *)
(* execute(), or an extractor that is interrupted.                         *)
MutRaise ==
  /\ \/ at \in {"examine", "prepare", "ingest", "record", "report"}
     \/ at = "extract" /\ phase \in {"resolving", "ready", "interrupted"}
  /\ exit' = "traceback"
  /\ report' \in IF at = "report" THEN {"none", "torn"} ELSE {report}
  /\ Goto(IF at = "report" THEN "close" ELSE "finally")
  /\ UNCHANGED <<vars, command, files, trail>>
Raise ==
  /\ \/ at \in {"examine", "prepare", "ingest", "record", "report"}
     \/ at = "extract" /\ phase \in {"resolving", "ready", "interrupted"}
  /\ exit' = "traceback"
  /\ report' \in IF at = "report" THEN {"none", "torn"} ELSE {report}
  /\ Goto("finally")
  /\ UNCHANGED <<vars, command, files, trail>>

(* The finally block: a trail that is open is closed, then the dump.       *)
CloseAudit ==
  /\ at = "finally"
  /\ audit' = IF audit = "open" THEN "closed" ELSE audit
  /\ Goto("close")
  /\ UNCHANGED <<vars, command, dump, products, exit>>

(* close() of the trail raises: the dump stays open until the process ends.*)
CloseRaises ==
  /\ at = "finally" /\ audit = "open"
  /\ exit' = "traceback" /\ Goto("over")
  /\ UNCHANGED <<vars, command, files, products>>

(* A file that raises in close() is closed all the same.                   *)
CloseDump ==
  /\ at = "close"
  /\ dump' = "closed"
  /\ exit' \in {exit, "traceback"}
  /\ Goto(IF exit' = "running" THEN "print" ELSE "over")
  /\ UNCHANGED <<vars, command, audit, products>>

(* Nobody reads the output, its encoding lacks a character, or the name of *)
(* the dump is no valid markup: the scan is done, its report is whole, and *)
(* the command fails.  Output that cannot be flushed at the exit, which    *)
(* makes the status 120, counts as this too.                               *)
PrintFails ==
  /\ at = "print"
  /\ exit' = "traceback" /\ Goto("over")
  /\ UNCHANGED <<vars, command, files, products>>

(* The result is printed, and sys.exit(0) or the end of main() follows.    *)
Exit ==
  /\ at = "print"
  /\ exit' = "ok" /\ Goto("over")
  /\ UNCHANGED <<vars, command, files, products>>

Main ==
  \/ Refuse \/ Open \/ Examine \/ Prepare \/ Ingest \/ Extract \/ Extracted
  \/ Complete \/ Write \/ Raise \/ CloseAudit \/ CloseRaises \/ CloseDump
  \/ PrintFails \/ Exit

(* A command that can go on does; nothing has to raise, but for what is    *)
(* interrupted.                                                            *)
Proceed == Main /\ (exit' = "traceback" => exit = "traceback" \/ phase = "interrupted")

PipelineSpec == PipelineInit /\ [][Main]_allVars /\ WF_allVars(Proceed)

-----------------------------------------------------------------------------
(* Properties.                                                             *)

PipelineTypeOK ==
  /\ TypeOK
  /\ command \in Commands /\ at \in Places
  /\ dump \in {"none", "open", "closed"} /\ audit \in {"none", "open", "closed"}
  /\ trail \in Seq({"DUMP_INGESTED", "SCAN_COMPLETED"})
  /\ report \in {"none", "torn", "written"}
  /\ exit \in {"running", "usage", "traceback", "ok"}

(* The trail tells the truth about the scan: extractors only run on a dump *)
(* whose ingestion is recorded, SCAN_COMPLETED is recorded at most once    *)
(* and only for an executor that has gone through all its extractors, and  *)
(* no byte of a report is written before it.                               *)
TrailIsTruthful ==
  /\ (phase = "executing" \/ position > 0) => trail # <<>>
  /\ trail \in {<<>>, <<"DUMP_INGESTED">>, <<"DUMP_INGESTED", "SCAN_COMPLETED">>}
  /\ Len(trail) = 2 => phase = "done" /\ position = Len(sorted)
  /\ report # "none" => Len(trail) = 2

(* Exit code 0 means that all was done and nothing is left open: a scan    *)
(* has recorded its end and has written the whole report, detect and       *)
(* verify have left nothing behind.  Code 1 means that nothing was begun.  *)
(* A command that failed otherwise never opened a file, or has closed all  *)
(* that it opened, unless closing the trail is what failed.  The converse  *)
(* does not hold: a whole report may belong to a command that failed while *)
(* it closed its files or printed; a torn one always does.                 *)
ExitIsHonest ==
  at = "over" =>
    /\ exit # "running"
    /\ exit = "ok" =>
         /\ dump = "closed"
         /\ IF command = "scan"
            THEN Len(trail) = 2 /\ report = "written" /\ audit = "closed"
            ELSE trail = <<>> /\ report = "none" /\ audit = "none"
    /\ exit = "usage" => dump = "none" /\ audit = "none" /\ trail = <<>> /\ report = "none"
    /\ exit = "traceback" =>
         \/ dump = "none" /\ audit = "none" /\ trail = <<>> /\ report = "none"
         \/ dump = "open" /\ audit = "open"
         \/ dump = "closed" /\ audit # "open"
    /\ report = "torn" => exit = "traceback"

(* The process ends, whatever graph is declared and whatever fails.        *)
CommandEnds == <>(at = "over")
=============================================================================
