--------------------------- MODULE CandidateStream ---------------------------
(***************************************************************************)
(* What ScannerCoordinator (core/scanner/coordinator.py) with one worker   *)
(* promises its client: in each session the accepted addresses are scanned *)
(* in their order, none twice, and what is found in a window is returned   *)
(* by drain_results() once, or lost with the process that found it.        *)
(***************************************************************************)
EXTENDS Naturals, Sequences

CONSTANTS Addrs,    (* addresses the client submits, each at most once      *)
          Hits      (* how many candidates the window at an address holds   *)

VARIABLES accepted, (* addresses submit() answered True for, in order       *)
          scanned,  (* addresses whose windows have been scanned, in order  *)
          found,    (* candidates the client has not got yet                *)
          drained   (* candidates drain_results() has returned              *)

vars == <<accepted, scanned, found, drained>>

Init == accepted = <<>> /\ scanned = <<>> /\ found = {} /\ drained = {}

(* start(): a session begins with nothing from an earlier one.             *)
Begin == accepted' = <<>> /\ scanned' = <<>> /\ found' = {} /\ drained' = {}

Accept(a) ==
  /\ \A i \in 1 .. Len(accepted) : accepted[i] # a
  /\ accepted' = Append(accepted, a)
  /\ UNCHANGED <<scanned, found, drained>>

(* All that was scanned was accepted before a.                             *)
InTurn(a) ==
  \E l \in 1 .. Len(accepted) :
    /\ accepted[l] = a
    /\ \A i \in 1 .. Len(scanned) : \E k \in 1 .. l - 1 : accepted[k] = scanned[i]

Scan(a) ==
  /\ InTurn(a)
  /\ scanned' = Append(scanned, a)
  /\ found' = found \cup {<<a, i>> : i \in 1 .. Hits[a]}
  /\ UNCHANGED <<accepted, drained>>

Drain(c) ==
  /\ c \in found
  /\ found' = found \ {c}
  /\ drained' = drained \cup {c}
  /\ UNCHANGED <<accepted, scanned>>

(* A process dies with results it has not sent.                            *)
Lose ==
  /\ found' \in SUBSET found
  /\ UNCHANGED <<accepted, scanned, drained>>

Next == \/ Begin \/ Lose
        \/ \E a \in Addrs : Accept(a) \/ Scan(a)
        \/ \E c \in found : Drain(c)

Spec == Init /\ [][Next]_vars
=============================================================================
