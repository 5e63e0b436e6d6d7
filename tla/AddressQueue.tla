---------------------------- MODULE AddressQueue ----------------------------
(***************************************************************************)
(* What SharedMemoryRingBuffer (core/scanner/ring_buffer.py) promises to   *)
(* its users: a bounded first-in first-out queue of physical addresses.    *)
(* An address that was accepted stays in the queue until exactly one       *)
(* caller of get() receives it, in the order of acceptance.                *)
(***************************************************************************)
EXTENDS Naturals, Sequences

CONSTANTS Addrs,    (* the addresses that fit in a uint64 slot              *)
          Bound     (* the number of addresses the queue can hold at once   *)

VARIABLES queue,      (* the accepted addresses no caller has received yet  *)
          delivered   (* the addresses received so far, in order            *)

vars == <<queue, delivered>>

Init == /\ queue = <<>>
        /\ delivered = <<>>

(* put() returned True.  A refusal (False) changes nothing and is a stutter. *)
Offer(a) == /\ Len(queue) < Bound
            /\ queue' = Append(queue, a)
            /\ UNCHANGED delivered

(* get() returned an address.  None changes nothing and is a stutter.      *)
Take == /\ queue # <<>>
        /\ delivered' = Append(delivered, Head(queue))
        /\ queue' = Tail(queue)

Next == Take \/ \E a \in Addrs : Offer(a)

Spec == Init /\ [][Next]_vars
=============================================================================
