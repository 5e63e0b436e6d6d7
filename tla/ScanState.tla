----------------------------- MODULE ScanState -----------------------------
(***************************************************************************)
(* SQLiteWALStateManager, core/db.py: what a traversal has visited, found  *)
(* and noted, in tables of one SQLite file in WAL mode.  Clients are       *)
(* processes with a connection each; they call the methods in any order    *)
(* and may die.                                                            *)
(*                                                                         *)
(* A row is a key of one of the four tables; its value stands for the      *)
(* other columns.  An address from 2^63 on does not fit SQLite's signed    *)
(* integers.  Python's sqlite3 opens a (deferred) transaction before it    *)
(* binds the values of a statement that writes; only commit() or close()   *)
(* ends it.  A transaction reads what was committed when it read for the   *)
(* first time, and can only write when that is still the latest.           *)
(***************************************************************************)
EXTENDS Naturals, Sequences, FiniteSets

CONSTANTS
  Clients,
  Visits,       (* rows of visited_pointers                                 *)
  Entries,      (* rows of the tables whose writes replace: extracted_nodes,*)
                (* extracted_edges, scan_metadata                           *)
  TooHigh,      (* the rows with an address from 2^63 on                    *)
  Values,       (* what a row of the latter may hold                        *)
  MaxWrites     (* bound: writes begun by one client                        *)

Rows == Visits \cup Entries
Absent == "absent"
Marked == "marked"   (* a row of visited_pointers has no other columns      *)

ASSUME ScanStateAssumption ==
  /\ Visits \cap Entries = {} /\ TooHigh \subseteq Rows
  /\ {Absent, Marked} \cap Values = {} /\ MaxWrites \in Nat

VARIABLES
  conn,         (* of a client: none, open, closed, dead                    *)
  db,           (* the committed value of each row                          *)
  commits,      (* the commits so far that have changed the file            *)
  txn,          (* the client's transaction: [active, read (it has read),   *)
                (* since (commits it saw), view (the rows as it saw them)]  *)
  writing,      (* what the client has written and not committed, or none   *)
  writes,       (* writes begun                                             *)
  returned,     (* history: the last write of each row that returned        *)
  answer        (* history: the last read [row, value, due (what the last   *)
                (* write of the row that had returned before stored)]       *)

dbVars == <<conn, db, commits, txn, writing, writes, returned, answer>>

NoTxn == [active |-> FALSE, read |-> FALSE, since |-> 0, view |-> [r \in Rows |-> Absent]]
Nothing == [row |-> "none", value |-> Absent]
NoAnswer == [row |-> "none", value |-> Absent, due |-> Absent]

DbInit ==
  /\ conn = [c \in Clients |-> "none"]
  /\ db = [r \in Rows |-> Absent] /\ commits = 0
  /\ txn = [c \in Clients |-> NoTxn]
  /\ writing = [c \in Clients |-> Nothing]
  /\ writes = [c \in Clients |-> 0]
  /\ returned = [r \in Rows |-> Absent] /\ answer = [c \in Clients |-> NoAnswer]

-----------------------------------------------------------------------------
(* Operators whose name starts with Mut are faulty variants of the         *)
(* definition that follows them, never used by the model.                  *)

(* __init__(): the tables are there afterwards, with the rows they had.    *)
Connect(c) ==
  /\ conn[c] = "none"
  /\ conn' = [conn EXCEPT ![c] = "open"]
  /\ UNCHANGED <<db, commits, txn, writing, writes, returned, answer>>

Idle(c) == conn[c] = "open" /\ writing[c] = Nothing

(* A method that writes begins: the transaction is open from here on.      *)
Begins(c) ==
  /\ Idle(c) /\ writes[c] < MaxWrites
  /\ writes' = [writes EXCEPT ![c] = @ + 1]

(* The values cannot be bound: OverflowError, the transaction stays open.  *)
WriteRefused(c, row) ==
  /\ row \in TooHigh /\ Begins(c)
  /\ txn' = [txn EXCEPT ![c].active = TRUE]
  /\ UNCHANGED <<conn, db, commits, writing, returned, answer>>

Locked(c) ==
  \/ \E d \in Clients \ {c} : writing[d] # Nothing
  \/ txn[c].read /\ txn[c].since # commits

(* Another client is writing, for longer than the timeout, or has written  *)
(* since this transaction read: OperationalError, as before.               *)
WriteLocked(c, row) ==
  /\ row \notin TooHigh /\ Begins(c) /\ Locked(c)
  /\ txn' = [txn EXCEPT ![c].active = TRUE]
  /\ UNCHANGED <<conn, db, commits, writing, returned, answer>>

Execute(c, row, value) ==
  /\ row \notin TooHigh /\ Begins(c) /\ ~Locked(c)
  /\ txn' = [txn EXCEPT ![c].active = TRUE]
  /\ writing' = [writing EXCEPT ![c] = [row |-> row, value |-> value]]
  /\ UNCHANGED <<conn, db, commits, returned, answer>>

(* mark_visited(): INSERT OR IGNORE; the others: INSERT OR REPLACE.        *)
MarkVisited(c, row) == row \in Visits /\ Execute(c, row, Marked)
Insert(c, row, value) == row \in Entries /\ Execute(c, row, value)

(* commit(), and the method returns.  To mark what is marked changes no    *)
(* page of the file.                                                       *)
MutCommit(c) ==
  /\ conn[c] = "open" /\ writing[c] # Nothing
  /\ writing' = [writing EXCEPT ![c] = Nothing]
  /\ returned' = [returned EXCEPT ![writing[c].row] = writing[c].value]
  /\ UNCHANGED <<conn, db, commits, txn, writes, answer>>
Commit(c) ==
  /\ conn[c] = "open" /\ writing[c] # Nothing
  /\ db' = [db EXCEPT ![writing[c].row] = writing[c].value]
  /\ commits' = IF writing[c].row \in Visits /\ db[writing[c].row] = Marked
                THEN commits ELSE commits + 1
  /\ txn' = [txn EXCEPT ![c] = NoTxn]
  /\ writing' = [writing EXCEPT ![c] = Nothing]
  /\ returned' = [returned EXCEPT ![writing[c].row] = writing[c].value]
  /\ UNCHANGED <<conn, writes, answer>>

(* is_visited() and get_metadata(): a client in a transaction that has     *)
(* read keeps what it saw then.                                            *)
Snapshot(c) == IF txn[c].read THEN txn[c].view ELSE db
Read(c, row) ==
  /\ row \notin TooHigh /\ Idle(c)
  /\ txn' = IF ~txn[c].active \/ txn[c].read THEN txn
            ELSE [txn EXCEPT ![c] = [active |-> TRUE, read |-> TRUE,
                                     since |-> commits, view |-> db]]
  /\ answer' = [answer EXCEPT ![c] = [row |-> row, value |-> Snapshot(c)[row],
                                      due |-> returned[row]]]
  /\ UNCHANGED <<conn, db, commits, writing, writes, returned>>

(* close() rolls back, and so does death; a method of a closed manager     *)
(* raises RuntimeError and does nothing.                                   *)
Ends(c, how) ==
  /\ conn' = [conn EXCEPT ![c] = how]
  /\ txn' = [txn EXCEPT ![c] = NoTxn]
  /\ writing' = [writing EXCEPT ![c] = Nothing]
  /\ answer' = [answer EXCEPT ![c] = NoAnswer]
  /\ UNCHANGED <<db, commits, writes, returned>>
Close(c) == Idle(c) /\ Ends(c, "closed")
Dies(c) == conn[c] = "open" /\ Ends(c, "dead")

DbNext ==
  \E c \in Clients :
    \/ Connect(c) \/ Commit(c) \/ Close(c) \/ Dies(c)
    \/ \E row \in Rows : \/ WriteRefused(c, row) \/ WriteLocked(c, row)
                         \/ MarkVisited(c, row) \/ Read(c, row)
                         \/ \E value \in Values : Insert(c, row, value)

DbSpec == DbInit /\ [][DbNext]_dbVars

-----------------------------------------------------------------------------
(* Properties.                                                             *)

(* A client is told what the last write of the row stored that returned    *)
(* before it asked, whoever wrote it, died or closed since; except for a   *)
(* client whose transaction a refused write has left open.                 *)
AnswersAreFresh ==
  \A c \in Clients : ~txn[c].active => answer[c].value = answer[c].due

(* is_visited() is true of every row whose mark_visited() returned before. *)
VisitedIsKnown ==
  \A c \in Clients :
    answer[c].row \in Visits /\ answer[c].due = Marked => answer[c].value = Marked
=============================================================================
