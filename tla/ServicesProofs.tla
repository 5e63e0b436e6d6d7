-------------------------- MODULE ServicesProofs ----------------------------
(***************************************************************************)
(* What the state database answers, for any number of clients and rows;    *)
(* what the two event buses promise, for any interval, any number of       *)
(* functions of any kind and any times at which events come.               *)
(***************************************************************************)
EXTENDS Services, FiniteSetTheorems, TLAPS

-----------------------------------------------------------------------------
(* The state database.                                                     *)

Cells == Values \cup {Absent, Marked}
Writings == [row : Rows, value : Cells] \cup {Nothing}

DbTyped ==
  /\ db \in [Rows -> Cells] /\ commits \in Nat
  /\ txn = [c \in Clients |-> txn[c]] /\ \A c \in Clients : txn[c].since \in Nat
  /\ writing \in [Clients -> Writings]
  /\ answer = [c \in Clients |-> answer[c]]

(* One client writes at a time, on what is still the latest.               *)
OneWriter ==
  /\ \A c, d \in Clients : writing[c] # Nothing /\ writing[d] # Nothing => c = d
  /\ \A c \in Clients : writing[c] # Nothing =>
       /\ txn[c].read => txn[c].since = commits
       /\ writing[c].row \in Visits => writing[c].value = Marked

(* A snapshot is the database unless somebody has committed since.         *)
Snapshots ==
  \A c \in Clients :
    /\ txn[c].read => txn[c].active
    /\ txn[c].since <= commits
    /\ txn[c].read /\ txn[c].since = commits => txn[c].view = db

(* The last answer was right, unless it came from an old snapshot, which   *)
(* the client keeps to its end.                                            *)
Right(c) == answer[c].value = answer[c].due
Trusted == \A c \in Clients : (txn[c].read => txn[c].since = commits) => Right(c)

(* None of the parts is inductive alone: that an answer stays right across *)
(* commit() needs that the writer's snapshot is the latest, which needs    *)
(* that nobody else is writing.                                            *)
Fresh == DbTyped /\ db = returned /\ OneWriter /\ Snapshots /\ Trusted

LEMMA NoTxnTyped == NoTxn.read = FALSE /\ NoTxn.since = 0 /\ NoTxn.since \in Nat
  BY SMT DEF NoTxn

LEMMA NoAnswerTyped == NoAnswer.value = NoAnswer.due
  BY SMT DEF NoAnswer

LEMMA FreshInit == DbInit => Fresh
  <1> SUFFICES ASSUME DbInit PROVE Fresh
    OBVIOUS
  <1>1. DbTyped
    BY NoTxnTyped, NoAnswerTyped, SMT DEF DbInit, DbTyped, Cells, Writings
  <1>2. \A c \in Clients : writing[c] = Nothing /\ txn[c] = NoTxn /\ answer[c] = NoAnswer
    BY DEF DbInit
  <1>3. OneWriter /\ Snapshots /\ Trusted
    BY <1>2, NoTxnTyped, NoAnswerTyped, SMT DEF DbInit, OneWriter, Snapshots, Trusted, Right
  <1>4. db = returned
    BY DEF DbInit
  <1>5. QED
    BY <1>1, <1>3, <1>4 DEF Fresh

LEMMA Activated ==
  ASSUME DbTyped, NEW c \in Clients, txn' = [txn EXCEPT ![c].active = TRUE]
  PROVE  /\ txn' = [d \in Clients |-> txn'[d]]
         /\ \A d \in Clients :
              /\ txn'[d].read = txn[d].read /\ txn'[d].since = txn[d].since
              /\ txn'[d].view = txn[d].view /\ txn[d].active => txn'[d].active
  <1> DEFINE t == [txn[c] EXCEPT !.active = TRUE]
  <1>1. txn = [d \in Clients |-> txn[d]]
    BY DEF DbTyped
  <1>2. t.read = txn[c].read /\ t.since = txn[c].since /\ t.view = txn[c].view
    OBVIOUS
  <1>3. txn[c].active => t.active
    OBVIOUS
  <1>4. txn' = [txn EXCEPT ![c] = t]
    OBVIOUS
  <1> HIDE DEF t
  <1>5. /\ txn' = [d \in Clients |-> txn'[d]] /\ txn'[c] = t
        /\ \A d \in Clients \ {c} : txn'[d] = txn[d]
    BY <1>1, <1>4, Zenon
  <1>6. QED
    BY <1>2, <1>3, <1>5, Zenon

(* A refused write opens the transaction and does nothing else.            *)
LEMMA RefusedStep ==
  ASSUME Fresh, NEW c \in Clients, txn' = [txn EXCEPT ![c].active = TRUE],
         UNCHANGED <<db, commits, writing, returned, answer>>
  PROVE  Fresh'
  <1>1. txn' = [d \in Clients |-> txn'[d]]
    BY Activated DEF Fresh
  <1>2. \A d \in Clients :
          /\ txn'[d].read = txn[d].read /\ txn'[d].since = txn[d].since
          /\ txn'[d].view = txn[d].view /\ txn[d].active => txn'[d].active
    BY Activated DEF Fresh
  <1>3. DbTyped' /\ OneWriter'
    BY <1>1, <1>2, Zenon DEF Fresh, DbTyped, OneWriter
  <1>4. Snapshots'
    BY <1>2, SMT DEF Fresh, Snapshots, DbTyped
  <1>5. Trusted'
    BY <1>2, Zenon DEF Fresh, Trusted, Right
  <1>6. QED
    BY <1>3, <1>4, <1>5, Zenon DEF Fresh

LEMMA ExecuteStep ==
  ASSUME Fresh, NEW c \in Clients, NEW row \in Rows, NEW value \in Cells,
         row \in Visits => value = Marked, Execute(c, row, value)
  PROVE  Fresh'
  <1> DEFINE w == [row |-> row, value |-> value]
  <1>1. /\ txn' = [txn EXCEPT ![c].active = TRUE] /\ writing' = [writing EXCEPT ![c] = w]
        /\ UNCHANGED <<db, commits, returned, answer>> /\ ~Locked(c)
    BY DEF Execute
  <1>2. txn' = [d \in Clients |-> txn'[d]] /\ writing' \in [Clients -> Writings]
    <2>1. w \in Writings
      BY DEF Writings
    <2> HIDE DEF w
    <2>2. QED
      BY <1>1, <2>1, Activated, Zenon DEF Fresh, DbTyped
  <1>3. \A d \in Clients :
          /\ txn'[d].read = txn[d].read /\ txn'[d].since = txn[d].since
          /\ txn'[d].view = txn[d].view /\ txn[d].active => txn'[d].active
    BY <1>1, Activated DEF Fresh
  <1>4. OneWriter'
    <2>1. writing'[c] = w /\ \A d \in Clients \ {c} : writing'[d] = writing[d]
      BY <1>1, Zenon DEF Fresh, DbTyped
    <2>2. \A d \in Clients \ {c} : writing[d] = Nothing
      BY <1>1, Zenon DEF Locked
    <2>3. txn[c].read => txn[c].since = commits
      BY <1>1, Zenon DEF Locked
    <2>4. w.row = row /\ w.value = value
      OBVIOUS
    <2> HIDE DEF w
    <2>5. \A d \in Clients : writing'[d] # Nothing => d = c
      BY <2>1, <2>2, Zenon
    <2>6. /\ txn'[c].read => txn'[c].since = commits'
          /\ writing'[c].row \in Visits => writing'[c].value = Marked
      BY <1>1, <1>3, <2>1, <2>3, <2>4
    <2>7. QED
      BY <2>5, <2>6, Zenon DEF OneWriter
  <1>5. Snapshots'
    BY <1>1, <1>3, SMT DEF Fresh, Snapshots, DbTyped
  <1>6. Trusted'
    BY <1>1, <1>3, Zenon DEF Fresh, Trusted, Right
  <1>7. QED
    BY <1>1, <1>2, <1>3, <1>4, <1>5, <1>6, Zenon DEF Fresh, DbTyped

LEMMA CommitStep ==
  ASSUME Fresh, NEW c \in Clients, Commit(c)
  PROVE  Fresh'
  <1> DEFINE row == writing[c].row
             value == writing[c].value
  <1>1. /\ writing[c] # Nothing /\ UNCHANGED answer
        /\ db' = [db EXCEPT ![row] = value]
        /\ returned' = [returned EXCEPT ![row] = value]
        /\ commits' = IF row \in Visits /\ db[row] = Marked THEN commits ELSE commits + 1
        /\ txn' = [txn EXCEPT ![c] = NoTxn] /\ writing' = [writing EXCEPT ![c] = Nothing]
    BY Zenon DEF Commit
  <1>2. row \in Rows /\ value \in Cells
    BY <1>1, SMT DEF Fresh, DbTyped, Writings
  <1>3. db' \in [Rows -> Cells] /\ commits' \in Nat /\ commits <= commits' /\ db' = returned'
    BY <1>1, <1>2, SMT DEF Fresh, DbTyped
  <1>4. DbTyped'
    <2>1. /\ txn' = [d \in Clients |-> txn'[d]] /\ txn'[c] = NoTxn
          /\ \A d \in Clients \ {c} : txn'[d] = txn[d]
      BY <1>1, Zenon DEF Fresh, DbTyped
    <2>2. \A d \in Clients : txn'[d].since \in Nat
      BY <2>1, NoTxnTyped, Zenon DEF Fresh, DbTyped
    <2>3. writing' \in [Clients -> Writings]
      BY <1>1, Zenon DEF Fresh, DbTyped, Writings
    <2>4. answer' = [d \in Clients |-> answer'[d]]
      BY <1>1 DEF Fresh, DbTyped
    <2>5. QED
      BY <1>3, <2>1, <2>2, <2>3, <2>4, Zenon DEF DbTyped
  <1>5. /\ txn'[c] = NoTxn /\ writing'[c] = Nothing
        /\ \A d \in Clients \ {c} : txn'[d] = txn[d] /\ writing'[d] = Nothing
    BY <1>1, Zenon DEF Fresh, DbTyped, OneWriter
  <1>6. OneWriter'
    BY <1>5, Zenon DEF OneWriter
  <1>7. commits' = commits => db' = db
    <2>1. CASE row \in Visits /\ db[row] = Marked
      BY <1>1, <2>1, SMT DEF Fresh, DbTyped, OneWriter
    <2>2. CASE ~ (row \in Visits /\ db[row] = Marked)
      <3>1. commits' # commits
        BY <1>1, <2>2, SMT DEF Fresh, DbTyped
      <3>2. QED
        BY <3>1
    <2>3. QED
      BY <2>1, <2>2
  <1>8. Snapshots'
    <2>1. \A d \in Clients : txn[d].since \in Nat /\ commits \in Nat
      BY SMT DEF Fresh, DbTyped
    <2>2. \A d \in Clients \ {c} :
            /\ txn[d].read => txn[d].active
            /\ txn[d].since <= commits'
            /\ txn[d].read /\ txn[d].since = commits' => txn[d].view = db'
      BY <1>3, <1>7, <2>1, SMT DEF Fresh, Snapshots
    <2>3. NoTxn.since <= commits'
      BY <1>3, NoTxnTyped, SMT
    <2>4. QED
      BY <1>5, <2>2, <2>3, NoTxnTyped, Zenon DEF Snapshots
  <1>9. Trusted'
    <2>1. Right(c)
      BY <1>1, Zenon DEF Fresh, OneWriter, Trusted
    <2>2. ASSUME NEW d \in Clients \ {c}, txn[d].read => txn[d].since = commits'
          PROVE  Right(d)
      <3>1. txn[d].since \in Nat /\ commits \in Nat /\ txn[d].since <= commits
        BY SMT DEF Fresh, DbTyped, Snapshots
      <3>2. txn[d].read => txn[d].since = commits
        BY <1>3, <2>2, <3>1, SMT
      <3>3. QED
        BY <3>2, Zenon DEF Fresh, Trusted
    <2>3. QED
      BY <1>1, <1>5, <2>1, <2>2, Zenon DEF Trusted, Right
  <1>10. QED
    BY <1>3, <1>4, <1>6, <1>8, <1>9, Zenon DEF Fresh

LEMMA ReadStep ==
  ASSUME Fresh, NEW c \in Clients, NEW row \in Rows, Read(c, row)
  PROVE  Fresh'
  <1> DEFINE t == [active |-> TRUE, read |-> TRUE, since |-> commits, view |-> db]
             a == [row |-> row, value |-> Snapshot(c)[row], due |-> returned[row]]
  <1>1. /\ txn' = IF ~txn[c].active \/ txn[c].read THEN txn ELSE [txn EXCEPT ![c] = t]
        /\ answer' = [answer EXCEPT ![c] = a] /\ writing[c] = Nothing
        /\ UNCHANGED <<db, commits, writing, returned>>
    BY Zenon DEF Read, Idle
  <1>2. a.value = Snapshot(c)[row] /\ a.due = db[row]
    BY DEF Fresh
  <1>3. /\ t.active /\ t.read /\ t.since = commits /\ t.view = db
        /\ commits <= commits
    BY SMT DEF Fresh, DbTyped
  <1> HIDE DEF t, a
  <1>4. /\ \A d \in Clients \ {c} : txn'[d] = txn[d] /\ answer'[d] = answer[d]
        /\ answer'[c] = a
        /\ txn'[c] = IF ~txn[c].active \/ txn[c].read THEN txn[c] ELSE t
    BY <1>1, Zenon DEF Fresh, DbTyped
  <1>5. DbTyped'
    BY <1>1, <1>3, <1>4, Zenon DEF Fresh, DbTyped
  <1>6. OneWriter'
    BY <1>1, <1>4, ZenonT(60) DEF Fresh, OneWriter
  <1>7. Snapshots'
    BY <1>1, <1>3, <1>4, ZenonT(60) DEF Fresh, Snapshots
  <1>8. Trusted'
    <2>1. ASSUME txn[c].read => txn[c].since = commits
          PROVE  a.value = a.due
      BY <1>2, <2>1, Zenon DEF Fresh, Snapshots, Snapshot
    <2>2. (txn'[c].read => txn'[c].since = commits) => a.value = a.due
      BY <1>4, <2>1, Zenon
    <2>3. QED
      BY <1>1, <1>4, <2>2, Zenon DEF Fresh, Trusted, Right
  <1>9. QED
    BY <1>1, <1>5, <1>6, <1>7, <1>8, Zenon DEF Fresh

LEMMA EndStep ==
  ASSUME Fresh, NEW c \in Clients, NEW how, Ends(c, how)
  PROVE  Fresh'
  <1>1. /\ txn' = [txn EXCEPT ![c] = NoTxn] /\ writing' = [writing EXCEPT ![c] = Nothing]
        /\ answer' = [answer EXCEPT ![c] = NoAnswer] /\ UNCHANGED <<db, commits, returned>>
    BY DEF Ends
  <1>2. DbTyped'
    <2>1. /\ txn' = [d \in Clients |-> txn'[d]] /\ txn'[c] = NoTxn
          /\ \A d \in Clients \ {c} : txn'[d] = txn[d]
      BY <1>1, Zenon DEF Fresh, DbTyped
    <2>2. \A d \in Clients : txn'[d].since \in Nat
      BY <2>1, NoTxnTyped, Zenon DEF Fresh, DbTyped
    <2>3. writing' \in [Clients -> Writings]
      BY <1>1, Zenon DEF Fresh, DbTyped, Writings
    <2>4. answer' = [d \in Clients |-> answer'[d]]
      BY <1>1, Zenon DEF Fresh, DbTyped
    <2>5. QED
      BY <1>1, <2>1, <2>2, <2>3, <2>4, Zenon DEF Fresh, DbTyped
  <1>3. /\ \A d \in Clients \ {c} :
             txn'[d] = txn[d] /\ answer'[d] = answer[d] /\ writing'[d] = writing[d]
        /\ txn'[c] = NoTxn /\ answer'[c] = NoAnswer /\ writing'[c] = Nothing
    BY <1>1, Zenon DEF Fresh, DbTyped
  <1>4. OneWriter' /\ Trusted'
    BY <1>1, <1>3, NoAnswerTyped, ZenonT(60) DEF Fresh, OneWriter, Trusted, Right
  <1>5. Snapshots'
    <2>1. 0 <= commits
      BY SMT DEF Fresh, DbTyped
    <2>2. QED
      BY <1>1, <1>3, <2>1, NoTxnTyped, Zenon DEF Fresh, Snapshots
  <1>6. QED
    BY <1>1, <1>2, <1>4, <1>5, Zenon DEF Fresh

LEMMA FreshStep ==
  ASSUME Fresh, [DbNext]_dbVars
  PROVE  Fresh'
  <1>1. ASSUME NEW c \in Clients, Connect(c)
        PROVE  Fresh'
    <2>1. UNCHANGED <<db, commits, txn, writing, returned, answer>>
      BY <1>1 DEF Connect
    <2>2. QED
      BY <2>1, Zenon DEF Fresh, DbTyped, OneWriter, Snapshots, Trusted, Right
  <1>2. ASSUME NEW c \in Clients, NEW row \in Rows, WriteRefused(c, row) \/ WriteLocked(c, row)
        PROVE  Fresh'
    BY <1>2, RefusedStep DEF WriteRefused, WriteLocked
  <1>3. ASSUME NEW c \in Clients, NEW row \in Rows, MarkVisited(c, row)
        PROVE  Fresh'
    <2>1. Marked \in Cells
      BY DEF Cells
    <2>2. QED
      BY <1>3, <2>1, ExecuteStep DEF MarkVisited
  <1>4. ASSUME NEW c \in Clients, NEW row \in Rows, NEW value \in Values, Insert(c, row, value)
        PROVE  Fresh'
    <2>1. value \in Cells /\ row \notin Visits
      BY <1>4, ScanStateAssumption DEF Cells, Insert
    <2>2. QED
      BY <1>4, <2>1, ExecuteStep DEF Insert
  <1>5. CASE UNCHANGED dbVars
    BY <1>5, Zenon DEF dbVars, Fresh, DbTyped, OneWriter, Snapshots, Trusted, Right
  <1>6. \A c \in Clients : Commit(c) \/ Close(c) \/ Dies(c) => Fresh'
    BY CommitStep, EndStep, Zenon DEF Close, Dies
  <1>7. \A c \in Clients : \A row \in Rows : Read(c, row) => Fresh'
    BY ReadStep
  <1>8. QED
    BY <1>1, <1>2, <1>3, <1>4, <1>5, <1>6, <1>7, Zenon DEF DbNext

(* A client without an open transaction is told what was last stored,      *)
(* whoever stored it, died or closed since.                                *)
THEOREM FreshAnswers == ServicesSpec => []AnswersAreFresh
  <1>1. ServicesInit => Fresh
    BY FreshInit DEF ServicesInit
  <1>2. Fresh /\ [ServicesNext]_serviceVars => Fresh'
    <2>1. [ServicesNext]_serviceVars => [DbNext]_dbVars
      BY Zenon DEF ServicesNext, serviceVars
    <2>2. QED
      BY <2>1, FreshStep
  <1>3. Fresh => AnswersAreFresh
    BY Zenon DEF Fresh, Snapshots, Trusted, Right, AnswersAreFresh
  <1>4. QED
    BY <1>1, <1>2, <1>3, PTL DEF ServicesSpec

-----------------------------------------------------------------------------
(* The event buses: no two events too close.                               *)

(* The last event passed on is the one lastEmit knows of, whatever the     *)
(* listeners did with it, so the next is measured against it.              *)
Measured ==
  /\ times \in Seq(Nat) /\ clock \in Nat
  /\ times # <<>> => lastEmit = times[Len(times)]
  /\ RateIsLimited

LEMMA MeasuredInit == EventsInit => Measured
  <1> SUFFICES ASSUME EventsInit PROVE Measured
    OBVIOUS
  <1>1. times = <<>> /\ times \in Seq(Nat) /\ Len(times) = 0
    BY SMT DEF EventsInit
  <1>2. clock \in Nat
    BY EventsAssumption, SMT DEF EventsInit
  <1>3. QED
    BY <1>1, <1>2, SMT DEF Measured, RateIsLimited

LEMMA MeasuredStep ==
  ASSUME Measured, [EventsNext]_eventVars
  PROVE  Measured'
  <1>1. CASE Emit
    <2>1. /\ times' = Append(times, clock) /\ lastEmit' = clock
          /\ bus' = bus /\ clock' = clock /\ ~TooFast
      BY <1>1 DEF Emit
    <2>2. /\ times' \in Seq(Nat) /\ Len(times') = Len(times) + 1 /\ Len(times) \in Nat
          /\ times'[Len(times) + 1] = clock
          /\ \A i \in 1 .. Len(times) : times'[i] = times[i]
      BY <2>1, SMT DEF Measured
    <2>3. ASSUME bus = "progress", NEW i \in 1 .. Len(times)
          PROVE  times'[i] + Interval <= times'[i + 1]
      <3>1. CASE i = Len(times)
        <4>1. times # <<>> /\ lastEmit = times[i]
          BY <2>2, <3>1, SMT DEF Measured
        <4>2. times[i] \in Nat /\ Interval \in Nat /\ clock \in Nat
          BY EventsAssumption, SMT DEF Measured
        <4>3. times[i] + Interval <= clock
          BY <2>1, <2>3, <4>1, <4>2, SMT DEF TooFast
        <4>4. QED
          BY <2>2, <3>1, <4>3
      <3>2. CASE i # Len(times)
        <4>1. i \in 1 .. Len(times) - 1 /\ i + 1 \in 1 .. Len(times)
          BY <2>2, <3>2, SMT
        <4>2. times[i] + Interval <= times[i + 1]
          BY <2>3, <4>1 DEF Measured, RateIsLimited
        <4>3. QED
          BY <2>2, <4>1, <4>2
      <3>3. QED
        BY <3>1, <3>2
    <2>4. RateIsLimited'
      BY <2>1, <2>2, <2>3, SMT DEF RateIsLimited
    <2>5. QED
      BY <2>1, <2>2, <2>4, SMT DEF Measured
  <1>2. CASE Tick
    BY <1>2, SMT DEF Tick, Measured, RateIsLimited
  <1>3. CASE \/ Drop \/ CallReturns \/ CallRegisters \/ CallRaises \/ EmitReturns
             \/ (\E kind \in Kinds : Register(kind)) \/ UNCHANGED eventVars
    <2>1. UNCHANGED <<bus, clock, lastEmit, times>>
      BY <1>3, Zenon DEF Drop, CallReturns, CallRegisters, CallRaises, EmitReturns, Register,
         Called, eventVars
    <2>2. QED
      BY <2>1, SMT DEF Measured, RateIsLimited
  <1>4. QED
    BY <1>1, <1>2, <1>3, Zenon DEF EventsNext

(* At most one event in an interval is passed on, even when a listener     *)
(* raises or nobody listens.                                               *)
THEOREM RateLimit == ServicesSpec => []RateIsLimited
  <1>1. ServicesInit => Measured
    BY MeasuredInit DEF ServicesInit
  <1>2. Measured /\ [ServicesNext]_serviceVars => Measured'
    <2>1. [ServicesNext]_serviceVars => [EventsNext]_eventVars
      BY Zenon DEF ServicesNext, serviceVars
    <2>2. QED
      BY <2>1, MeasuredStep
  <1>3. Measured => RateIsLimited
    BY DEF Measured
  <1>4. QED
    BY <1>1, <1>2, <1>3, PTL DEF ServicesSpec

-----------------------------------------------------------------------------
(* While an event is passed on, the functions called so far are the first  *)
(* of the list, which begins with those there were when the event came and *)
(* has grown by one with every call that registered another.  On the       *)
(* progress bus none of them has raised, or emit() would be over.          *)
UnderWay ==
  /\ times # <<>> /\ next = Len(called) + 1 /\ Len(called) <= Len(functions)
  /\ \A i \in 1 .. Len(called) : called[i] = functions[i]
  /\ Len(functions) = Len(offered) + Cardinality(Registrations)
  /\ \A i \in 1 .. Len(offered) : functions[i] = offered[i]
  /\ bus = "hooks" \/ \A i \in 1 .. Len(called) : called[i] # "raises"

Telling ==
  /\ bus \in Buses /\ emitting \in BOOLEAN
  /\ functions \in Seq(Kinds) /\ offered \in Seq(Kinds) /\ called \in Seq(Kinds)
  /\ emitting => UnderWay
  /\ EverybodyIsTold

LEMMA TellingInit == EventsInit => Telling
  <1> SUFFICES ASSUME EventsInit PROVE Telling
    OBVIOUS
  <1>1. times = <<>> /\ emitting = FALSE /\ bus \in Buses
    BY Zenon DEF EventsInit
  <1>2. functions \in Seq(Kinds) /\ offered \in Seq(Kinds) /\ called \in Seq(Kinds)
    BY SMT DEF EventsInit
  <1>3. QED
    BY <1>1, <1>2, Zenon DEF Telling, EverybodyIsTold

(* The set of registrations is finite, and grows with the list by at most  *)
(* the last place.                                                         *)
LEMMA RegistrationsFinite ==
  ASSUME NEW s \in Seq(Kinds)
  PROVE  LET R == {i \in DOMAIN s : s[i] = "registers"}
         IN  IsFiniteSet(R) /\ Cardinality(R) \in Nat
  <1> DEFINE R == {i \in DOMAIN s : s[i] = "registers"}
  <1>1. DOMAIN s = 1 .. Len(s) /\ Len(s) \in Nat
    BY SMT
  <1>2. IsFiniteSet(1 .. Len(s))
    BY <1>1, FS_Interval, SMT
  <1>3. R \in SUBSET (1 .. Len(s))
    BY <1>1
  <1> HIDE DEF R
  <1>4. IsFiniteSet(R)
    BY <1>2, <1>3, FS_Subset, Zenon
  <1>5. Cardinality(R) \in Nat
    BY <1>4, FS_CardinalityType, Zenon
  <1>6. QED
    BY <1>4, <1>5 DEF R

LEMMA RegistrationsGrow ==
  ASSUME NEW s \in Seq(Kinds), NEW k \in Kinds
  PROVE  LET R == {i \in DOMAIN s : s[i] = "registers"}
             t == Append(s, k)
             T == {i \in DOMAIN t : t[i] = "registers"}
         IN  Cardinality(T) = IF k = "registers" THEN Cardinality(R) + 1 ELSE Cardinality(R)
  <1> DEFINE R == {i \in DOMAIN s : s[i] = "registers"}
             t == Append(s, k)
             T == {i \in DOMAIN t : t[i] = "registers"}
  <1>1. /\ DOMAIN s = 1 .. Len(s) /\ DOMAIN t = 1 .. Len(s) + 1 /\ Len(s) \in Nat
        /\ \A i \in 1 .. Len(s) : t[i] = s[i]
        /\ t[Len(s) + 1] = k
    BY SMT
  <1>2. IsFiniteSet(R)
    BY RegistrationsFinite, Zenon
  <1>3. T = IF k = "registers" THEN R \cup {Len(s) + 1} ELSE R
    <2> HIDE DEF t
    <2>1. QED
      BY <1>1, SMT
  <1>4. Len(s) + 1 \notin R
    BY <1>1, SMT
  <1> HIDE DEF R, T, t
  <1>5. Cardinality(T) = IF k = "registers" THEN Cardinality(R) + 1 ELSE Cardinality(R)
    BY <1>2, <1>3, <1>4, FS_AddElement, Zenon
  <1>6. QED
    BY <1>5, Zenon DEF R, T, t

(* A call: the function in the place after the last one is called, and the *)
(* list stays or grows by one that returns.                                *)
LEMMA TellingCall ==
  ASSUME Telling, Calls, Called, functions[next] \in Kinds,
         \/ functions[next] # "registers" /\ UNCHANGED functions
         \/ functions[next] = "registers" /\ functions' = Append(functions, "returns"),
         emitting' \in BOOLEAN,
         emitting' = FALSE <=> functions[next] = "raises" /\ bus = "progress"
  PROVE  Telling'
  <1> DEFINE k == functions[next]
  <1>1. /\ UnderWay /\ next <= Len(functions)
        /\ called' = Append(called, k) /\ next' = next + 1
        /\ bus' = bus /\ offered' = offered /\ times' = times
    BY Zenon DEF Telling, Calls, Called
  <1>2. /\ functions \in Seq(Kinds) /\ called \in Seq(Kinds) /\ k \in Kinds
        /\ Len(called) \in Nat /\ Len(functions) \in Nat
        /\ bus \in Buses /\ offered \in Seq(Kinds) /\ Len(offered) \in Nat
    BY SMT DEF Telling
  <1>3. next = Len(called) + 1 /\ times # <<>>
    BY <1>1, Zenon DEF UnderWay
  <1>4. /\ called' \in Seq(Kinds) /\ Len(called') = Len(called) + 1
        /\ \A i \in 1 .. Len(called) : called'[i] = called[i]
        /\ called'[next] = k
    BY <1>1, <1>2, <1>3, SMT
  <1>5. /\ functions' \in Seq(Kinds)
        /\ Len(functions') = IF k = "registers" THEN Len(functions) + 1 ELSE Len(functions)
        /\ \A i \in 1 .. Len(functions) : functions'[i] = functions[i]
    <2>1. CASE UNCHANGED functions /\ k # "registers"
      BY <1>2, <2>1
    <2>2. CASE functions' = Append(functions, "returns") /\ k = "registers"
      <3>1. "returns" \in Kinds
        BY DEF Kinds
      <3>2. QED
        BY <1>2, <2>2, <3>1, SMT
    <2>3. QED
      BY <2>1, <2>2
  <1>6. Cardinality(Registrations') =
          IF k = "registers" THEN Cardinality(Registrations) + 1 ELSE Cardinality(Registrations)
    BY <1>1, <1>2, RegistrationsGrow, Zenon DEF Registrations
  <1>7. Cardinality(Registrations) \in Nat
    BY <1>2, RegistrationsFinite, Zenon DEF Registrations
  <1>8. /\ Len(functions) = Len(offered) + Cardinality(Registrations)
        /\ \A i \in 1 .. Len(offered) : functions[i] = offered[i]
        /\ \A i \in 1 .. Len(called) : called[i] = functions[i]
        /\ bus = "hooks" \/ \A i \in 1 .. Len(called) : called[i] # "raises"
    BY <1>1, Zenon DEF UnderWay
  <1> HIDE DEF k
  <1>9. ASSUME emitting' = TRUE
        PROVE  UnderWay'
    <2>1. bus = "hooks" \/ k # "raises"
      BY <1>2, <1>9, Zenon DEF k, Buses
    <2>2. \A i \in 1 .. Len(called') : called'[i] = functions'[i]
      <3>1. called'[next] = functions'[next]
        BY <1>1, <1>2, <1>3, <1>4, <1>5, SMT DEF k
      <3>2. QED
        BY <1>1, <1>2, <1>3, <1>4, <1>5, <1>8, <3>1, SMT
    <2>3. Len(functions') = Len(offered') + Cardinality(Registrations')
      BY <1>1, <1>2, <1>5, <1>6, <1>7, <1>8, SMT
    <2>4. \A i \in 1 .. Len(offered') : functions'[i] = offered'[i]
      BY <1>1, <1>2, <1>5, <1>7, <1>8, SMT
    <2>5. bus' = "hooks" \/ \A i \in 1 .. Len(called') : called'[i] # "raises"
      BY <1>1, <1>2, <1>3, <1>4, <1>8, <2>1, SMT
    <2>6. next' = Len(called') + 1 /\ Len(called') <= Len(functions') /\ times' # <<>>
      BY <1>1, <1>2, <1>3, <1>4, <1>5, SMT
    <2>7. QED
      BY <2>2, <2>3, <2>4, <2>5, <2>6, Zenon DEF UnderWay
  <1>10. EverybodyIsTold'
    <2> SUFFICES ASSUME emitting' = FALSE
                 PROVE  EverybodyIsTold'
      BY Zenon DEF EverybodyIsTold
    <2>1. k = "raises" /\ bus = "progress"
      BY Zenon DEF k
    <2>2. /\ \A i \in 1 .. Len(called') - 1 : called'[i] # "raises"
          /\ called'[Len(called')] = "raises" /\ Len(called') \in 1 .. Len(called')
      BY <1>2, <1>3, <1>4, <1>8, <2>1, SMT
    <2>3. QED
      BY <1>1, <2>1, <2>2, SMT DEF EverybodyIsTold
  <1>11. QED
    BY <1>1, <1>2, <1>4, <1>5, <1>9, <1>10, Zenon DEF Telling

LEMMA TellingStep ==
  ASSUME Telling, [EventsNext]_eventVars
  PROVE  Telling'
  <1>1. CASE Emit
    <2>1. /\ emitting' = TRUE /\ next' = 1 /\ times' = Append(times, clock)
          /\ offered' = functions /\ called' = <<>> /\ bus' = bus /\ functions' = functions
      BY <1>1, Zenon DEF Emit
    <2>2. times' # <<>>
      BY <2>1, SMT
    <2>3. called' \in Seq(Kinds) /\ Len(called') = 0 /\ DOMAIN called' = {}
      BY <2>1, SMT
    <2>4. Cardinality(Registrations') = 0
      <3>1. Registrations' = {}
        BY <2>3, Zenon DEF Registrations
      <3>2. QED
        BY <3>1, FS_EmptySet, Zenon
    <2>5. functions \in Seq(Kinds) /\ Len(functions) \in Nat
      BY SMT DEF Telling
    <2>6. UnderWay'
      BY <2>1, <2>2, <2>3, <2>4, <2>5, SMT DEF UnderWay
    <2>7. QED
      BY <2>1, <2>3, <2>6, Zenon DEF Telling, EverybodyIsTold
  <1>2. CASE CallReturns \/ CallRegisters \/ CallRaises
    <2>1. Calls /\ Called /\ functions[next] \in {"returns", "registers", "raises"}
      BY <1>2, Zenon DEF CallReturns, CallRegisters, CallRaises
    <2>2. \/ functions[next] # "registers" /\ UNCHANGED functions
          \/ functions[next] = "registers" /\ functions' = Append(functions, "returns")
      BY <1>2, SMT DEF CallReturns, CallRegisters, CallRaises
    <2>3. emitting = TRUE /\ bus \in {"hooks", "progress"}
      BY <2>1, Zenon DEF Calls, Telling, Buses
    <2>4. /\ emitting' \in BOOLEAN
          /\ emitting' = FALSE <=> functions[next] = "raises" /\ bus = "progress"
      <3>1. CASE functions[next] = "raises" /\ emitting' = (bus = "hooks")
        BY <2>3, <3>1
      <3>2. CASE functions[next] \in {"returns", "registers"} /\ emitting' = TRUE
        BY <3>2
      <3>3. QED
        BY <1>2, <2>3, <3>1, <3>2, Zenon DEF CallReturns, CallRegisters, CallRaises
    <2>5. QED
      BY <2>1, <2>2, <2>4, TellingCall, Zenon DEF Kinds
  <1>3. CASE EmitReturns
    <2>1. /\ emitting = TRUE /\ next > Len(functions) /\ emitting' = FALSE
          /\ UNCHANGED <<bus, functions, next, offered, called, times>>
      BY <1>3, Zenon DEF EmitReturns, Telling
    <2>2. UnderWay /\ Len(called) \in Nat /\ Len(functions) \in Nat /\ Len(offered) \in Nat
      BY <2>1, SMT DEF Telling
    <2>3. Len(called) = Len(functions) /\ Cardinality(Registrations) \in Nat
      <3>1. next = Len(called) + 1 /\ Len(called) <= Len(functions)
        BY <2>2, Zenon DEF UnderWay
      <3>2. Cardinality(Registrations) \in Nat
        BY RegistrationsFinite, Zenon DEF Registrations, Telling
      <3>3. QED
        BY <2>1, <2>2, <3>1, <3>2, SMT
    <2>4. /\ Len(called) = Len(offered) + Cardinality(Registrations)
          /\ \A i \in 1 .. Len(offered) : called[i] = offered[i]
          /\ bus = "hooks" \/ \A i \in 1 .. Len(called) : called[i] # "raises"
      BY <2>2, <2>3, SMT DEF UnderWay
    <2>5. EverybodyIsTold'
      BY <2>1, <2>4, Zenon DEF EverybodyIsTold, Registrations
    <2>6. QED
      BY <2>1, <2>5, Zenon DEF Telling
  <1>4. CASE \E kind \in Kinds : Register(kind)
    <2>1. PICK kind \in Kinds : Register(kind)
      BY <1>4
    <2>2. /\ emitting = FALSE /\ emitting' = FALSE /\ functions' = Append(functions, kind)
          /\ UNCHANGED <<bus, offered, called, times>>
      BY <2>1, Zenon DEF Register, Telling
    <2>3. functions' \in Seq(Kinds)
      BY <2>2, SMT DEF Telling
    <2>4. QED
      BY <2>2, <2>3, Zenon DEF Telling, EverybodyIsTold, Registrations
  <1>5. CASE Tick \/ Drop \/ UNCHANGED eventVars
    <2>1. UNCHANGED <<bus, functions, next, emitting, offered, called, times>>
      BY <1>5, Zenon DEF Tick, Drop, eventVars
    <2>2. QED
      BY <2>1, Zenon DEF Telling, UnderWay, EverybodyIsTold, Registrations
  <1>6. QED
    BY <1>1, <1>2, <1>3, <1>4, <1>5, Zenon DEF EventsNext

(* Each hook that was registered when the event came, and each that was    *)
(* registered meanwhile, is called once and in order, whatever the others  *)
(* do; on the progress bus, up to the first that raises.                   *)
THEOREM NobodyIsForgotten == ServicesSpec => []EverybodyIsTold
  <1>1. ServicesInit => Telling
    BY TellingInit DEF ServicesInit
  <1>2. Telling /\ [ServicesNext]_serviceVars => Telling'
    <2>1. [ServicesNext]_serviceVars => [EventsNext]_eventVars
      BY Zenon DEF ServicesNext, serviceVars
    <2>2. QED
      BY <2>1, TellingStep
  <1>3. Telling => EverybodyIsTold
    BY DEF Telling
  <1>4. QED
    BY <1>1, <1>2, <1>3, PTL DEF ServicesSpec
=============================================================================
