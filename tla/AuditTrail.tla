----------------------------- MODULE AuditTrail -----------------------------
(***************************************************************************)
(* ForensicAuditTrail, core/audit.py: a JSON Lines file in which each      *)
(* record carries an HMAC over its own payload and the HMAC of the record  *)
(* before it.                                                              *)
(*                                                                         *)
(* A session is one ForensicAuditTrail object, in a process of its own.    *)
(* `vantacore scan' opens one per scan, on a path made from the output     *)
(* directory, which for the same dump is the same path again: the sessions *)
(* of one file follow each other.                                          *)
(*                                                                         *)
(* A payload is the session and the number of the call of record(); it     *)
(* stands for time, event, dump hash and fields.  HMAC-SHA256 is taken to  *)
(* be injective: a code is the list of the payloads it covers, and the     *)
(* empty string covers none.  A line reaches the file in Pieces writes at  *)
(* most; it is taken to fit the 8 KiB buffer of the file object.           *)
(***************************************************************************)
EXTENDS Naturals, Sequences

CONSTANTS
  Sessions,
  Pieces,       (* the parts of a line that may be written one by one       *)
  Killable,     (* sessions whose process may be killed                     *)
  MaxRecords,   (* bound: calls of record() in a session                    *)
  MaxErrors     (* bound: I/O errors and refused fields in a session        *)

ASSUME AuditAssumption ==
  /\ Pieces \in Nat \ {0}
  /\ Killable \subseteq Sessions
  /\ MaxRecords \in Nat /\ MaxErrors \in Nat

VARIABLES
  file,         (* the file: a sequence of pieces of lines                  *)
  mode,         (* unopened, open, flushing, closing, closed, dead          *)
  prevHmac,     (* _prev_hmac                                               *)
  buffer,       (* pieces in the file object's buffer                       *)
  calls,        (* calls of record() so far                                 *)
  errors,       (* errors so far                                            *)
  recorded      (* history: payloads of the record() calls that returned    *)

vars == <<file, mode, prevHmac, buffer, calls, errors, recorded>>

Init ==
  /\ file = <<>>
  /\ mode = [s \in Sessions |-> "unopened"]
  /\ prevHmac = [s \in Sessions |-> <<>>]
  /\ buffer = [s \in Sessions |-> <<>>]
  /\ calls = [s \in Sessions |-> 0]
  /\ errors = [s \in Sessions |-> 0]
  /\ recorded = <<>>

-----------------------------------------------------------------------------
(* Operators whose name starts with Mut are faulty variants of the         *)
(* definition that follows them, never used by the model.                  *)

Payload(s) == <<s, calls[s] + 1>>

Hmac(payload, prev) == Append(prev, payload)

(* The pieces of the line that holds a payload and its code.               *)
Line(payload, mac) ==
  [i \in 1 .. Pieces |-> [payload |-> payload, hmac |-> mac, piece |-> i]]

Goto(s, m) == mode' = [mode EXCEPT ![s] = m]
Call(s) == calls' = [calls EXCEPT ![s] = @ + 1]
Error(s) ==
  /\ errors[s] < MaxErrors
  /\ errors' = [errors EXCEPT ![s] = @ + 1]

(* The constructor opens the file for appending; the chain starts empty,   *)
(* whatever the file holds already.                                        *)
Open(s) ==
  /\ mode[s] = "unopened"
  /\ \A t \in Sessions : mode[t] \in {"unopened", "closed", "dead"}
  /\ Goto(s, "open")
  /\ prevHmac' = [prevHmac EXCEPT ![s] = <<>>]
  /\ UNCHANGED <<file, buffer, calls, errors, recorded>>

(* record(): json.dumps() raises on the fields before anything is changed. *)
MutRecordRefused(s) ==
  /\ mode[s] = "open" /\ calls[s] < MaxRecords
  /\ Call(s) /\ Error(s)
  /\ prevHmac' = [prevHmac EXCEPT ![s] = Hmac(Payload(s), prevHmac[s])]
  /\ UNCHANGED <<file, mode, buffer, recorded>>
RecordRefused(s) ==
  /\ mode[s] = "open" /\ calls[s] < MaxRecords
  /\ Call(s) /\ Error(s)
  /\ UNCHANGED <<file, mode, prevHmac, buffer, recorded>>

(* record(): _prev_hmac moves on, then the line is given to the file       *)
(* object and flush() starts.                                              *)
Record(s) ==
  /\ mode[s] = "open" /\ calls[s] < MaxRecords
  /\ Call(s)
  /\ LET mac == Hmac(Payload(s), prevHmac[s]) IN
       /\ prevHmac' = [prevHmac EXCEPT ![s] = mac]
       /\ buffer' = [buffer EXCEPT ![s] = @ \o Line(Payload(s), mac)]
  /\ Goto(s, "flushing")
  /\ UNCHANGED <<file, errors, recorded>>

(* record() after close(): write() raises, _prev_hmac has moved on.        *)
RecordClosed(s) ==
  /\ mode[s] = "closed" /\ calls[s] < MaxRecords
  /\ Call(s) /\ Error(s)
  /\ prevHmac' = [prevHmac EXCEPT ![s] = Hmac(Payload(s), prevHmac[s])]
  /\ UNCHANGED <<file, mode, buffer, recorded>>

(* The operating system appends the next piece to the file.                *)
Write(s) ==
  /\ mode[s] \in {"flushing", "closing"} /\ buffer[s] # <<>>
  /\ file' = Append(file, Head(buffer[s]))
  /\ buffer' = [buffer EXCEPT ![s] = Tail(@)]
  /\ UNCHANGED <<mode, prevHmac, calls, errors, recorded>>

(* The write fails, the disk being full: flush() raises, and the buffer    *)
(* keeps what is not written, for the next flush().  A close() that raises *)
(* here leaves the file object open.                                       *)
WriteFails(s) ==
  /\ mode[s] \in {"flushing", "closing"} /\ buffer[s] # <<>>
  /\ Error(s)
  /\ Goto(s, "open")
  /\ UNCHANGED <<file, prevHmac, buffer, calls, recorded>>

(* flush() returns, and record() with it.                                  *)
MutFlushed(s) ==
  /\ mode[s] = "flushing"
  /\ Goto(s, "open")
  /\ recorded' = Append(recorded, <<s, calls[s]>>)
  /\ UNCHANGED <<file, prevHmac, buffer, calls, errors>>
Flushed(s) ==
  /\ mode[s] = "flushing" /\ buffer[s] = <<>>
  /\ Goto(s, "open")
  /\ recorded' = Append(recorded, <<s, calls[s]>>)
  /\ UNCHANGED <<file, prevHmac, buffer, calls, errors>>

(* close(), also at the end of a `with' block; it flushes first.           *)
Close(s) ==
  /\ mode[s] = "open"
  /\ Goto(s, "closing")
  /\ UNCHANGED <<file, prevHmac, buffer, calls, errors, recorded>>

MutClosed(s) ==
  /\ mode[s] = "closing"
  /\ Goto(s, "closed")
  /\ UNCHANGED <<file, prevHmac, buffer, calls, errors, recorded>>
Closed(s) ==
  /\ mode[s] = "closing" /\ buffer[s] = <<>>
  /\ Goto(s, "closed")
  /\ UNCHANGED <<file, prevHmac, buffer, calls, errors, recorded>>

(* The process is killed, and its buffer is gone.                          *)
Kill(s) ==
  /\ s \in Killable /\ mode[s] \in {"open", "flushing", "closing"}
  /\ Goto(s, "dead")
  /\ buffer' = [buffer EXCEPT ![s] = <<>>]
  /\ UNCHANGED <<file, prevHmac, calls, errors, recorded>>

Next ==
  \E s \in Sessions :
    \/ Open(s) \/ RecordRefused(s) \/ Record(s) \/ RecordClosed(s)
    \/ Write(s) \/ WriteFails(s) \/ Flushed(s)
    \/ Close(s) \/ Closed(s) \/ Kill(s)

Spec == Init /\ [][Next]_vars

-----------------------------------------------------------------------------
(* Reading the file.                                                       *)

(* A line of the file is readable when it is one whole record: it starts   *)
(* where another line ended and its pieces follow each other.              *)
Readable(i) ==
  /\ i = 1 \/ file[i - 1].piece = Pieces
  /\ i + Pieces - 1 <= Len(file)
  /\ \A k \in 1 .. Pieces : file[i + k - 1] = Line(file[i].payload, file[i].hmac)[k]

(* The records a reader of the file gets, by where they start.             *)
Records == {i \in DOMAIN file : Readable(i)}

Session(i) == file[i].payload[1]
RecordsOf(s) == {i \in Records : Session(i) = s}

(* The chain check of a list of records, given by their places: every code *)
(* covers its payload and the code of the record before it.                *)
Verifies(records) ==
  \A j \in records :
    \/ /\ \A i \in records : i >= j
       /\ file[j].hmac = Hmac(file[j].payload, <<>>)
    \/ \E i \in records :
         /\ i < j /\ \A k \in records : k <= i \/ k >= j
         /\ file[j].hmac = Hmac(file[j].payload, file[i].hmac)

(* Where a line starts in the middle of another one, a torn line.          *)
Glued == {i \in DOMAIN file :
            i > 1 /\ file[i].piece = 1 /\ file[i - 1].piece # Pieces}

-----------------------------------------------------------------------------
(* Properties.                                                             *)

Payloads == Sessions \X (1 .. MaxRecords)
PieceType == [payload : Payloads, hmac : Seq(Payloads), piece : 1 .. Pieces]

TypeOK ==
  /\ file \in Seq(PieceType)
  /\ mode \in [Sessions -> {"unopened", "open", "flushing", "closing",
                           "closed", "dead"}]
  /\ prevHmac \in [Sessions -> Seq(Payloads)]
  /\ buffer \in [Sessions -> Seq(PieceType)]
  /\ \A s \in Sessions :
       mode[s] \in {"unopened", "closed", "dead"} => buffer[s] = <<>>
  /\ calls \in [Sessions -> 0 .. MaxRecords]
  /\ errors \in [Sessions -> 0 .. MaxErrors]
  /\ recorded \in Seq(Payloads)

(* At every moment the chain of the file's readable records is unbroken.   *)
FileVerifies == Verifies(Records)

(* The records of each session form an unbroken chain, whatever failed or  *)
(* was refused and wherever its process or an earlier one was killed.  It  *)
(* starts with the session's first record, or after that one if it is      *)
(* glued to the torn line of an earlier session.                           *)
SessionsVerify ==
  \A s \in Sessions :
    \/ Verifies(RecordsOf(s))
    \/ \E g \in Glued :
         /\ Session(g) = s /\ \A i \in RecordsOf(s) : g < i
         /\ Verifies({g} \cup RecordsOf(s))

(* Every record() that returned is in the file, and those of a session are *)
(* in the order of the calls.  All are readable but those glued to a torn  *)
(* line, which only the first of a session can be.                         *)
RecordedIsReadable ==
  \A i \in DOMAIN recorded :
    \/ /\ \E g \in Glued : file[g].payload = recorded[i]
       /\ \A j \in 1 .. i - 1 : recorded[j][1] # recorded[i][1]
    \/ \E k \in Records :
         /\ file[k].payload = recorded[i]
         /\ \A l \in Records, j \in 1 .. i - 1 : l > k => file[l].payload # recorded[j]
=============================================================================
