----------------------------- MODULE RingBuffer -----------------------------
(***************************************************************************)
(* SharedMemoryRingBuffer, core/scanner/ring_buffer.py: a ring of uint64   *)
(* slots in shared memory, with a head and a tail index, that the scanner  *)
(* coordinator fills and the worker processes empty.                       *)
(*                                                                         *)
(* Every read or write of shared memory is a step of its own, so that      *)
(* processes interleave between them.  put() and get() run under           *)
(* `with self._lock', but which processes share that lock is decided by    *)
(* the caller: a handle built without a lock makes a private one           *)
(* (ring_buffer.py:49), and the coordinator and every worker of the        *)
(* scanner build theirs that way.  LockOf states the wiring; with private  *)
(* locks the ring is a lock-free ring, safe for one producer and one       *)
(* consumer only.                                                          *)
(*                                                                         *)
(* Memory is sequentially consistent here.  Slot contents are members of   *)
(* Addrs; 0 is the content of a fresh shared memory segment.               *)
(***************************************************************************)
EXTENDS Naturals, Sequences, FiniteSets

HARD_CAPACITY_LIMIT == 65536

CONSTANTS
  Producers,      (* processes that call put(): the coordinator             *)
  Consumers,      (* processes that call get(): the workers                 *)
  Capacity,       (* the slots of the ring                                  *)
  Addrs,          (* addresses that fit in a slot                           *)
  Unstorable,     (* addresses a slot refuses: negative, or 2^64 and more   *)
  Locks, LockOf,  (* the lock each process's handle holds                   *)
  Killable,       (* processes that may die at any point                    *)
  MaxAccepted,    (* bound: no new put() once so many were accepted         *)
  MaxDelivered    (* bound: no new get() once so many were delivered        *)

Procs == Producers \cup Consumers
Slots == 0 .. Capacity - 1
Free      == "free"          (* nobody holds the lock                       *)
Abandoned == "abandoned"     (* its holder died: multiprocessing locks are  *)
                             (* not robust, nobody will release it          *)

ASSUME RingAssumption ==
  /\ Capacity \in 1 .. HARD_CAPACITY_LIMIT
  /\ Producers \cap Consumers = {}
  /\ LockOf \in [Procs -> Locks]
  /\ {Free, Abandoned} \cap Procs = {}
  /\ Addrs \subseteq Nat
  /\ Addrs \cap Unstorable = {}
  /\ Killable \subseteq Procs
  /\ MaxAccepted \in Nat
  /\ MaxDelivered \in Nat

VARIABLES
  head, tail,     (* _meta_view[0], _meta_view[1]                           *)
  data,           (* _data_view                                             *)
  linked,         (* the segments' names still exist                        *)
  lock,           (* the holder of each lock                                *)
  pc,             (* where each process is in put() or get()                *)
  lhead, ltail, laddr,        (* the local variables of put() and get()     *)
  accepted,       (* history: addresses put() stored, in order              *)
  delivered       (* history: addresses get() took, in order                *)

shared == <<head, tail, data>>
locals == <<lhead, ltail, laddr>>
history == <<accepted, delivered>>
vars == <<head, tail, data, linked, lock, pc, lhead, ltail, laddr,
          accepted, delivered>>

PutPoints == {"putLock", "putTail", "putStore", "putPublish"}
GetPoints == {"getLock", "getTail", "getFetch", "getCommit"}

(* Where a process holds its lock.                                         *)
Critical == {"putTail", "putStore", "putPublish",
             "getTail", "getFetch", "getCommit", "leave"}

(* The handle's lock belongs to this process alone.                        *)
Private(p) == \A q \in Procs \ {p} : LockOf[q] # LockOf[p]

-----------------------------------------------------------------------------
(* Index arithmetic.  Operators whose name starts with Mut are faulty      *)
(* variants of the definition that follows them, never used by the model:  *)
(* they are there to show that the properties tell them apart from it.     *)

MutSuccNoWrap(i) == i + 1
Succ(i) == (i + 1) % Capacity

MutFullNoWrap(h, t) == t + 1 = h
Full(h, t) == Succ(t) = h

(* The number of filled slots from index h up to index t.                  *)
Span(h, t) == IF h <= t THEN t - h ELSE t + Capacity - h
(* The k-th slot after index h.                                            *)
SlotAt(h, k) == IF h + k < Capacity THEN h + k ELSE h + k - Capacity

-----------------------------------------------------------------------------
(* The life of a handle.                                                   *)

(* The creator holds a handle from the start; the others have to attach.   *)
Init ==
  /\ head = 0 /\ tail = 0
  /\ data = [i \in Slots |-> 0]
  /\ linked = TRUE
  /\ lock = [l \in Locks |-> Free]
  /\ pc = [p \in Procs |-> IF p \in Producers THEN "idle" ELSE "detached"]
  /\ lhead = [p \in Procs |-> 0]
  /\ ltail = [p \in Procs |-> 0]
  /\ laddr = [p \in Procs |-> 0]
  /\ accepted = <<>> /\ delivered = <<>>

(* SharedMemoryRingBuffer(create=False, ...).  It fails, changing nothing, *)
(* once the names are unlinked.  Without a lock argument the handle makes  *)
(* a fresh one; a lock passed by the caller keeps the state it has.        *)
Attach(p) ==
  /\ pc[p] = "detached" /\ linked
  /\ pc' = [pc EXCEPT ![p] = "idle"]
  /\ lock' = IF Private(p) THEN [lock EXCEPT ![LockOf[p]] = Free] ELSE lock
  /\ UNCHANGED <<shared, linked, locals, history>>

(* close(): every later put() or get() on the handle raises RuntimeError,  *)
(* which changes nothing.                                                  *)
Close(p) ==
  /\ pc[p] = "idle"
  /\ pc' = [pc EXCEPT ![p] = "detached"]
  /\ UNCHANGED <<shared, linked, lock, locals, history>>

(* unlink() closes the handle first.  Processes that are attached keep     *)
(* their mapping.                                                          *)
Unlink(p) ==
  /\ p \in Producers
  /\ pc[p] \in {"idle", "detached"}
  /\ pc' = [pc EXCEPT ![p] = "detached"]
  /\ linked' = FALSE
  /\ UNCHANGED <<shared, lock, locals, history>>

(* The process is killed.  A lock it holds stays held.                     *)
Crash(p) ==
  /\ p \in Killable
  /\ pc[p] # "detached"
  /\ pc' = [pc EXCEPT ![p] = "detached"]
  /\ lock' = IF pc[p] \in Critical
             THEN [lock EXCEPT ![LockOf[p]] = Abandoned] ELSE lock
  /\ UNCHANGED <<shared, linked, locals, history>>

-----------------------------------------------------------------------------
(* Entering and leaving `with self._lock'.  The first read of head, which  *)
(* directly follows the acquisition, is one step with it.                  *)

Acquire(p, from, to) ==
  /\ pc[p] = from
  /\ lock[LockOf[p]] = Free
  /\ lock' = [lock EXCEPT ![LockOf[p]] = p]
  /\ lhead' = [lhead EXCEPT ![p] = head]
  /\ pc' = [pc EXCEPT ![p] = to]
  /\ UNCHANGED <<shared, linked, ltail, laddr, history>>

MutLeaveKeepsLock(p) ==
  /\ pc[p] = "leave"
  /\ pc' = [pc EXCEPT ![p] = "idle"]
  /\ UNCHANGED <<shared, linked, lock, locals, history>>

Leave(p) ==
  /\ pc[p] = "leave"
  /\ lock' = [lock EXCEPT ![LockOf[p]] = Free]
  /\ pc' = [pc EXCEPT ![p] = "idle"]
  /\ UNCHANGED <<shared, linked, locals, history>>

-----------------------------------------------------------------------------
(* put(addr)                                                               *)

PutCall(p, a) ==
  /\ p \in Producers /\ pc[p] = "idle"
  /\ Len(accepted) < MaxAccepted
  /\ laddr' = [laddr EXCEPT ![p] = a]
  /\ pc' = [pc EXCEPT ![p] = "putLock"]
  /\ UNCHANGED <<shared, linked, lock, lhead, ltail, history>>

PutEnter(p) == Acquire(p, "putLock", "putTail")

(* tail is read after head; a full ring answers False.                     *)
PutReadTail(p) ==
  /\ pc[p] = "putTail"
  /\ ltail' = [ltail EXCEPT ![p] = tail]
  /\ pc' = [pc EXCEPT ![p] = IF Full(lhead[p], tail) THEN "leave"
                                                     ELSE "putStore"]
  /\ UNCHANGED <<shared, linked, lock, lhead, laddr, history>>

(* The store raises OverflowError for an address that is no uint64.        *)
PutStore(p) ==
  /\ pc[p] = "putStore"
  /\ \/ /\ laddr[p] \in Addrs
        /\ data' = [data EXCEPT ![ltail[p]] = laddr[p]]
        /\ pc' = [pc EXCEPT ![p] = "putPublish"]
     \/ /\ laddr[p] \in Unstorable
        /\ pc' = [pc EXCEPT ![p] = "leave"]
        /\ UNCHANGED data
  /\ UNCHANGED <<head, tail, linked, lock, locals, history>>

PutPublish(p) ==
  /\ pc[p] = "putPublish"
  /\ tail' = Succ(ltail[p])
  /\ accepted' = Append(accepted, laddr[p])
  /\ pc' = [pc EXCEPT ![p] = "leave"]
  /\ UNCHANGED <<head, data, linked, lock, locals, delivered>>

-----------------------------------------------------------------------------
(* get()                                                                   *)

GetCall(p) ==
  /\ p \in Consumers /\ pc[p] = "idle"
  /\ Len(delivered) < MaxDelivered
  /\ pc' = [pc EXCEPT ![p] = "getLock"]
  /\ UNCHANGED <<shared, linked, lock, locals, history>>

GetEnter(p) == Acquire(p, "getLock", "getTail")

MutGetReadTailEarly(p) ==
  /\ pc[p] = "getTail"
  /\ ltail' = [ltail EXCEPT ![p] = tail]
  /\ pc' = [pc EXCEPT ![p] = IF Succ(lhead[p]) = tail THEN "leave" ELSE "getFetch"]
  /\ UNCHANGED <<shared, linked, lock, lhead, laddr, history>>

(* head = tail answers None.                                               *)
GetReadTail(p) ==
  /\ pc[p] = "getTail"
  /\ ltail' = [ltail EXCEPT ![p] = tail]
  /\ pc' = [pc EXCEPT ![p] = IF lhead[p] = tail THEN "leave" ELSE "getFetch"]
  /\ UNCHANGED <<shared, linked, lock, lhead, laddr, history>>

GetFetch(p) ==
  /\ pc[p] = "getFetch"
  /\ laddr' = [laddr EXCEPT ![p] = data[lhead[p]]]
  /\ pc' = [pc EXCEPT ![p] = "getCommit"]
  /\ UNCHANGED <<shared, linked, lock, lhead, ltail, history>>

GetCommit(p) ==
  /\ pc[p] = "getCommit"
  /\ head' = Succ(lhead[p])
  /\ delivered' = Append(delivered, laddr[p])
  /\ pc' = [pc EXCEPT ![p] = "leave"]
  /\ UNCHANGED <<tail, data, linked, lock, locals, accepted>>

-----------------------------------------------------------------------------
Step(p) == \/ PutReadTail(p) \/ PutStore(p) \/ PutPublish(p)
           \/ GetReadTail(p) \/ GetFetch(p) \/ GetCommit(p)
           \/ Leave(p)

Enter(p) == PutEnter(p) \/ GetEnter(p)

Next == \E p \in Procs :
          \/ Attach(p) \/ Close(p) \/ Unlink(p) \/ Crash(p)
          \/ \E a \in Addrs \cup Unstorable : PutCall(p, a)
          \/ GetCall(p)
          \/ Enter(p)
          \/ Step(p)

Spec == Init /\ [][Next]_vars

(* The operating system runs every live process, and a waiter whose lock   *)
(* keeps being released gets it in the end.  Workers poll: an attached     *)
(* consumer that is idle calls get() again (worker.py:89-93).  Nobody has  *)
(* to call put(), attach, close, unlink or die.                            *)
Fairness == \A p \in Procs : /\ WF_vars(Step(p))
                             /\ SF_vars(Enter(p))
                             /\ WF_vars(GetCall(p))

FairSpec == Spec /\ Fairness

-----------------------------------------------------------------------------
(* Properties                                                              *)

(* Indices stay inside the ring, slots and locals hold what the code puts  *)
(* there, and whoever is between the entry and the exit of the with block  *)
(* holds the lock of its handle.                                           *)
TypeOK ==
  /\ head \in Slots /\ tail \in Slots
  /\ data \in [Slots -> Addrs \cup {0}]
  /\ linked \in BOOLEAN
  /\ lock \in [Locks -> Procs \cup {Free, Abandoned}]
  /\ pc \in [Procs -> {"detached", "idle", "leave"} \cup PutPoints \cup GetPoints]
  /\ lhead \in [Procs -> Slots]
  /\ ltail \in [Procs -> Slots]
  /\ laddr \in [Procs -> Addrs \cup Unstorable \cup {0}]
  /\ accepted \in Seq(Addrs)
  /\ delivered \in Seq(Addrs \cup {0})

(* Producers share one lock, and so do consumers: true of one producer and *)
(* one consumer with private locks (the scanner with num_workers = 1), and *)
(* of any number of processes that were all passed the same lock.          *)
Serialised ==
  /\ \A p, q \in Producers : LockOf[p] = LockOf[q]
  /\ \A p, q \in Consumers : LockOf[p] = LockOf[q]

(* The addresses the ring holds, oldest first.                             *)
Contents == [i \in 1 .. Span(head, tail) |-> data[SlotAt(head, i - 1)]]

(* What get() has handed out is a prefix of what put() has accepted: no    *)
(* address is lost, repeated, reordered or made up.                        *)
DeliveredInOrder ==
  /\ Len(delivered) <= Len(accepted)
  /\ \A i \in 1 .. Len(delivered) : delivered[i] = accepted[i]

(* What was accepted and not delivered is in the ring, in order.           *)
RingHoldsPending ==
  /\ Len(accepted) = Len(delivered) + Span(head, tail)
  /\ \A k \in 0 .. Span(head, tail) - 1 :
        accepted[Len(delivered) + k + 1] = data[SlotAt(head, k)]

(* No producer is about to overwrite a slot a consumer is about to read.   *)
NoSlotRace ==
  \A p, c \in Procs :
    pc[p] = "putStore" /\ pc[c] = "getFetch" => ltail[p] # lhead[c]

(* What put() and get() may rely on between two of their steps, under      *)
(* Serialised.  Each role uses the steps of its own function; the lock is  *)
(* held; the address about to be published or returned is one; a producer  *)
(* at worst underestimates the room there is, because consumers only move  *)
(* head towards the tail it has read; a consumer's view of head is exact.  *)
StepsOfRole ==
  \A p \in Procs : /\ pc[p] \in PutPoints => p \in Producers
                   /\ pc[p] \in GetPoints => p \in Consumers
HolderHasLock ==
  \A p \in Procs : pc[p] \in Critical => lock[LockOf[p]] = p
CarriesAddress ==
  \A p \in Procs : /\ pc[p] = "putPublish" => laddr[p] \in Addrs
                   /\ pc[p] = "getCommit"  => laddr[p] \in Addrs \cup {0}
ProducerView ==
  \A p \in Producers :
    /\ pc[p] = "putTail" => Span(lhead[p], tail) >= Span(head, tail)
    /\ pc[p] \in {"putStore", "putPublish"}
         => ltail[p] = tail /\ Span(head, tail) < Capacity - 1
    /\ pc[p] = "putPublish" => data[tail] = laddr[p]
ConsumerView ==
  \A c \in Consumers :
    /\ pc[c] \in {"getTail", "getFetch", "getCommit"} => lhead[c] = head
    /\ pc[c] \in {"getFetch", "getCommit"} => head # tail
    /\ pc[c] = "getCommit" => laddr[c] = data[head]

TypeInv == TypeOK /\ CarriesAddress
RingInv == /\ TypeInv
           /\ StepsOfRole
           /\ HolderHasLock
           /\ ProducerView
           /\ ConsumerView
           /\ DeliveredInOrder
           /\ RingHoldsPending

(* The ring implements the abstract queue, which holds one address less    *)
(* than there are slots.                                                   *)
AQ == INSTANCE AddressQueue WITH Bound <- Capacity - 1, queue <- Contents
QueueRefinement == AQ!Spec

(* When nobody is inside put() or get() and the ring is empty, every       *)
(* address that was accepted has been handed out to somebody.              *)
NothingLost ==
  (head = tail /\ \A p \in Procs : pc[p] \in {"idle", "detached"})
    => \A j \in 1 .. Len(accepted) :
         \E i \in 1 .. Len(delivered) : delivered[i] = accepted[j]

(* Every put() and get() returns (or its process dies): no process can     *)
(* block another, whatever the other does and wherever it dies.            *)
CallsReturn ==
  \A p \in Procs : pc[p] \notin {"idle", "detached"}
                     ~> pc[p] \in {"idle", "detached"}

(* An accepted address reaches a consumer, unless all of them are gone.    *)
AcceptedIsDelivered ==
  \A n \in 1 .. MaxAccepted :
    Len(accepted) >= n
      ~> \/ Len(delivered) >= n
         \/ \A c \in Consumers : pc[c] = "detached"
=============================================================================
