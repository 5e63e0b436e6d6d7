------------------------------- MODULE Events -------------------------------
(***************************************************************************)
(* The two event buses: HookFramework, core/hooks.py, and ProgressEventBus,*)
(* core/progress.py.  Both call the functions registered with them one     *)
(* after the other, from the list itself, in the thread that emits.  They  *)
(* differ in what a function that raises does to the others, and the       *)
(* progress bus drops events that come too fast.                           *)
(*                                                                         *)
(* A function is its kind: it returns, raises, or registers a new one,     *)
(* that returns, for the event that is being emitted.  The clock counts    *)
(* units of 0.05 seconds.                                                  *)
(***************************************************************************)
EXTENDS Naturals, Sequences, FiniteSets

CONSTANTS
  Interval,        (* _min_interval                                         *)
  MaxFunctions,    (* bound: functions a client registers                   *)
  MaxTime,         (* bound: the clock                                      *)
  MaxEmits         (* bound: events passed on                               *)

Kinds == {"returns", "raises", "registers"}
Buses == {"hooks", "progress"}

ASSUME EventsAssumption == {Interval, MaxFunctions, MaxTime, MaxEmits} \subseteq Nat \ {0}

VARIABLES
  bus,             (* which of the two this is                              *)
  functions,       (* _callbacks of the event, _listeners                   *)
  next,            (* index of the function that is called next             *)
  emitting,
  clock,
  lastEmit,        (* _last_emit                                            *)
  offered,         (* history: functions registered when the event came     *)
  called,          (* history: those called for it                          *)
  times            (* history: when events were not dropped                 *)

eventVars == <<bus, functions, next, emitting, clock, lastEmit, offered, called, times>>

EventsInit ==
  /\ bus \in Buses
  /\ functions = <<>> /\ next = 1 /\ emitting = FALSE
  /\ clock \in 0 .. Interval
  /\ lastEmit = 0
  /\ offered = <<>> /\ called = <<>> /\ times = <<>>

-----------------------------------------------------------------------------
(* Operators whose name starts with Mut are faulty variants of the         *)
(* definition that follows them, never used by the model.                  *)

(* register(), add_listener()                                              *)
Register(kind) ==
  /\ ~emitting /\ Len(functions) < MaxFunctions
  /\ functions' = Append(functions, kind)
  /\ UNCHANGED <<bus, next, emitting, clock, lastEmit, offered, called, times>>

Tick ==
  /\ clock < MaxTime /\ clock' = clock + 1
  /\ UNCHANGED <<bus, functions, next, emitting, lastEmit, offered, called, times>>

TooFast == bus = "progress" /\ clock < lastEmit + Interval

Drop == ~emitting /\ TooFast /\ UNCHANGED eventVars

(* emit(): the time is noted before anybody is told.                       *)
MutEmit ==
  /\ ~emitting /\ ~TooFast /\ Len(times) < MaxEmits
  /\ emitting' = TRUE /\ next' = 1
  /\ lastEmit' = (IF functions = <<>> THEN lastEmit ELSE clock)
  /\ times' = Append(times, clock)
  /\ offered' = functions /\ called' = <<>>
  /\ UNCHANGED <<bus, functions, clock>>
Emit ==
  /\ ~emitting /\ ~TooFast /\ Len(times) < MaxEmits
  /\ emitting' = TRUE /\ next' = 1
  /\ lastEmit' = clock /\ times' = Append(times, clock)
  /\ offered' = functions /\ called' = <<>>
  /\ UNCHANGED <<bus, functions, clock>>

Calls == emitting /\ next <= Len(functions)

Called ==
  /\ called' = Append(called, functions[next]) /\ next' = next + 1
  /\ UNCHANGED <<bus, clock, lastEmit, offered, times>>

CallReturns ==
  /\ Calls /\ functions[next] = "returns" /\ Called
  /\ UNCHANGED <<functions, emitting>>

(* The new function is at the end of the list that is being called.        *)
CallRegisters ==
  /\ Calls /\ functions[next] = "registers" /\ Called
  /\ functions' = Append(functions, "returns")
  /\ UNCHANGED emitting

(* A hook that raises is logged; a listener that raises ends emit().       *)
MutCallRaises ==
  /\ Calls /\ functions[next] = "raises" /\ Called
  /\ emitting' = FALSE
  /\ UNCHANGED functions
CallRaises ==
  /\ Calls /\ functions[next] = "raises" /\ Called
  /\ emitting' = (bus = "hooks")
  /\ UNCHANGED functions

EmitReturns ==
  /\ emitting /\ next > Len(functions)
  /\ emitting' = FALSE
  /\ UNCHANGED <<bus, functions, next, clock, lastEmit, offered, called, times>>

EventsNext ==
  \/ Tick \/ Drop \/ Emit \/ CallReturns \/ CallRegisters \/ CallRaises \/ EmitReturns
  \/ \E kind \in Kinds : Register(kind)

EventsSpec == EventsInit /\ [][EventsNext]_eventVars

-----------------------------------------------------------------------------
(* Properties.                                                             *)

(* Where in the list of those called one registered another.               *)
Registrations == {i \in DOMAIN called : called[i] = "registers"}

(* When emit() is over, each hook that was registered when the event came  *)
(* has been called once, in order, whatever the ones before it did, and so *)
(* has each that was registered meanwhile; on the progress bus only those  *)
(* up to the first that raises.                                            *)
EverybodyIsTold ==
  ~emitting /\ times # <<>> =>
    LET told == Len(called)
    IN IF bus = "hooks" \/ \A i \in 1 .. told : called[i] # "raises"
       THEN /\ told = Len(offered) + Cardinality(Registrations)
            /\ \A i \in 1 .. Len(offered) : called[i] = offered[i]
       ELSE /\ \A i \in 1 .. told - 1 : called[i] # "raises"
            /\ called[told] = "raises"

(* The progress bus passes on at most one event in an interval, even when  *)
(* a listener raises or nobody listens.                                    *)
RateIsLimited ==
  bus = "progress" =>
    \A i \in 1 .. Len(times) - 1 : times[i] + Interval <= times[i + 1]
=============================================================================
