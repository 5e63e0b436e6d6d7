-------------------------- MODULE RingBufferProofs --------------------------
EXTENDS RingBuffer, SequenceTheorems, TLAPS
(***************************************************************************)
(* Theorems about RingBuffer for every capacity, every set of processes    *)
(* and every set of addresses.                                             *)
(***************************************************************************)

-----------------------------------------------------------------------------
(* Index arithmetic.                                                       *)

LEMMA CapacityPositive == Capacity \in Nat /\ Capacity > 0
  <1>1. Capacity \in 1 .. HARD_CAPACITY_LIMIT
    BY RingAssumption, Zenon
  <1>2. HARD_CAPACITY_LIMIT \in Int
    BY Z3T(30) DEF HARD_CAPACITY_LIMIT
  <1>3. QED
    BY <1>1, <1>2, SMTT(30)

(* The wrap of put() and get(), (i + 1) % cap, without division.           *)
LEMMA SuccWraps ==
  ASSUME NEW i \in Slots
  PROVE  Succ(i) = IF i + 1 = Capacity THEN 0 ELSE i + 1
  <1>1. Capacity \in Nat /\ Capacity > 0
    BY CapacityPositive
  <1>2. CASE i + 1 = Capacity
    BY <1>1, <1>2, SMTT(20) DEF Succ, Slots
  <1>3. CASE i + 1 < Capacity
    BY <1>1, <1>3, SMTT(20) DEF Succ, Slots
  <1>4. QED
    BY <1>1, <1>2, <1>3 DEF Slots

LEMMA SuccInSlots == ASSUME NEW i \in Slots PROVE Succ(i) \in Slots
  <1>1. Capacity \in Nat /\ Capacity > 0
    BY CapacityPositive
  <1>2. QED
    BY <1>1, SuccWraps DEF Slots

LEMMA SpanRange ==
  ASSUME NEW h \in Slots, NEW t \in Slots
  PROVE  /\ Span(h, t) \in 0 .. Capacity - 1
         /\ Span(h, t) = 0 <=> h = t
  BY CapacityPositive DEF Span, Slots

(* put() refuses exactly when all slots but one are filled.                *)
LEMMA FullIsSpan ==
  ASSUME NEW h \in Slots, NEW t \in Slots
  PROVE  Full(h, t) <=> Span(h, t) = Capacity - 1
  BY CapacityPositive, SuccWraps DEF Full, Span, Slots

(* Filled slots are slots, and the free slot at the tail is not among them. *)
LEMMA FilledSlots ==
  ASSUME NEW h \in Slots, NEW t \in Slots, NEW k \in 0 .. Span(h, t) - 1
  PROVE  SlotAt(h, k) \in Slots /\ SlotAt(h, k) # t
  BY CapacityPositive DEF SlotAt, Span, Slots

(* Publishing the tail slot makes it the last filled one.                  *)
LEMMA SpanPublish ==
  ASSUME NEW h \in Slots, NEW t \in Slots, Span(h, t) < Capacity - 1
  PROVE  /\ Span(h, Succ(t)) = Span(h, t) + 1
         /\ SlotAt(h, Span(h, t)) = t
  BY CapacityPositive, SuccWraps DEF SlotAt, Span, Slots

(* Moving head past a filled slot leaves the others in order.              *)
LEMMA SpanTake ==
  ASSUME NEW h \in Slots, NEW t \in Slots, h # t
  PROVE  /\ Span(Succ(h), t) = Span(h, t) - 1
         /\ SlotAt(h, 0) = h
         /\ \A k \in 0 .. Span(h, t) - 2 : SlotAt(Succ(h), k) = SlotAt(h, k + 1)
  BY CapacityPositive, SuccWraps DEF SlotAt, Span, Slots

-----------------------------------------------------------------------------
(* Type correctness, for any wiring of locks: the indices that processes   *)
(* read and write back stay inside the ring (ring_buffer.py:127, 157) even *)
(* when they race.                                                         *)
LEMMA TypeStep ==
  ASSUME TypeInv, [Next]_vars
  PROVE  TypeInv'
  <1> USE RingAssumption DEF TypeInv, TypeOK, CarriesAddress
  <1>1. ASSUME NEW p \in Procs, Attach(p) PROVE TypeInv'
    BY <1>1 DEF Attach, shared, locals, history
  <1>2. ASSUME NEW p \in Procs, Close(p) PROVE TypeInv'
    BY <1>2 DEF Close, shared, locals, history
  <1>3. ASSUME NEW p \in Procs, Unlink(p) PROVE TypeInv'
    BY <1>3 DEF Unlink, shared, locals, history
  <1>4. ASSUME NEW p \in Procs, Crash(p) PROVE TypeInv'
    BY <1>4 DEF Crash, shared, locals, history
  <1>5. ASSUME NEW p \in Procs, NEW a \in Addrs \cup Unstorable, PutCall(p, a)
        PROVE  TypeInv'
    BY <1>5 DEF PutCall, shared, history, PutPoints
  <1>6. ASSUME NEW p \in Procs, GetCall(p) PROVE TypeInv'
    BY <1>6 DEF GetCall, shared, locals, history, GetPoints
  <1>7. ASSUME NEW p \in Procs, Enter(p) PROVE TypeInv'
    <2>1. CASE PutEnter(p)
      BY <2>1 DEF PutEnter, Acquire, shared, history, PutPoints
    <2>2. CASE GetEnter(p)
      BY <2>2 DEF GetEnter, Acquire, shared, history, GetPoints
    <2>3. QED
      BY <1>7, <2>1, <2>2 DEF Enter
  <1>8. ASSUME NEW p \in Procs, PutReadTail(p) PROVE TypeInv'
    BY <1>8 DEF PutReadTail, shared, history, PutPoints
  <1>9. ASSUME NEW p \in Procs, PutStore(p) PROVE TypeInv'
    BY <1>9 DEF PutStore, locals, history, PutPoints
  <1>10. ASSUME NEW p \in Procs, PutPublish(p) PROVE TypeInv'
    <2>1. accepted' \in Seq(Addrs)
      BY <1>10, AppendProperties DEF PutPublish
    <2>2. tail' \in Slots
      BY <1>10, SuccInSlots DEF PutPublish
    <2>3. QED
      BY <1>10, <2>1, <2>2 DEF PutPublish, locals
  <1>11. ASSUME NEW p \in Procs, GetReadTail(p) PROVE TypeInv'
    BY <1>11 DEF GetReadTail, shared, history, GetPoints
  <1>12. ASSUME NEW p \in Procs, GetFetch(p) PROVE TypeInv'
    BY <1>12 DEF GetFetch, shared, history, GetPoints
  <1>13. ASSUME NEW p \in Procs, GetCommit(p) PROVE TypeInv'
    <2>1. delivered' \in Seq(Addrs \cup {0})
      BY <1>13, AppendProperties DEF GetCommit
    <2>2. head' \in Slots
      BY <1>13, SuccInSlots DEF GetCommit
    <2>3. QED
      BY <1>13, <2>1, <2>2 DEF GetCommit, locals
  <1>14. ASSUME NEW p \in Procs, Leave(p) PROVE TypeInv'
    BY <1>14 DEF Leave, shared, locals, history
  <1>15. CASE UNCHANGED vars
    BY <1>15 DEF vars
  <1>16. QED
    BY <1>1, <1>2, <1>3, <1>4, <1>5, <1>6, <1>7, <1>8, <1>9, <1>10, <1>11,
       <1>12, <1>13, <1>14, <1>15 DEF Next, Step

LEMMA TypeInit == Init => TypeInv
  <1>1. Capacity \in Nat /\ Capacity > 0
    BY CapacityPositive
  <1>2. 0 \in Slots
    BY <1>1 DEF Slots
  <1>3. QED
    BY <1>2, RingAssumption
       DEF Init, TypeInv, TypeOK, CarriesAddress, PutPoints, GetPoints

LEMMA TypeInvariant == Spec => []TypeInv
  BY TypeInit, TypeStep, PTL DEF Spec

THEOREM TypeCorrect == Spec => []TypeOK
  BY TypeInvariant, PTL DEF TypeInv

-----------------------------------------------------------------------------
(* Whoever is inside the with block (ring_buffer.py:122, 148) is recorded  *)
(* as the holder of its lock, so processes that share a lock are never     *)
(* inside together; for any wiring, deaths and new handles included.       *)
LockInv == StepsOfRole /\ HolderHasLock

LEMMA LockStep ==
  ASSUME TypeInv, LockInv, [Next]_vars
  PROVE  LockInv'
  <1> USE RingAssumption DEF TypeInv, TypeOK, LockInv, StepsOfRole, HolderHasLock,
                             PutPoints, GetPoints, Critical
  <1>1. ASSUME NEW p \in Procs, Attach(p) PROVE LockInv'
    BY <1>1 DEF Attach, Private
  <1>2. ASSUME NEW p \in Procs, Close(p) PROVE LockInv'
    BY <1>2 DEF Close
  <1>3. ASSUME NEW p \in Procs, Unlink(p) PROVE LockInv'
    BY <1>3 DEF Unlink
  <1>4. ASSUME NEW p \in Procs, Crash(p) PROVE LockInv'
    BY <1>4 DEF Crash
  <1>5. ASSUME NEW p \in Procs, NEW a \in Addrs \cup Unstorable, PutCall(p, a)
        PROVE  LockInv'
    BY <1>5 DEF PutCall
  <1>6. ASSUME NEW p \in Procs, GetCall(p) PROVE LockInv'
    BY <1>6 DEF GetCall
  <1>7. ASSUME NEW p \in Procs, PutEnter(p) PROVE LockInv'
    BY <1>7 DEF PutEnter, Acquire
  <1>8. ASSUME NEW p \in Procs, GetEnter(p) PROVE LockInv'
    BY <1>8 DEF GetEnter, Acquire
  <1>9. ASSUME NEW p \in Procs, PutReadTail(p) PROVE LockInv'
    BY <1>9 DEF PutReadTail
  <1>10. ASSUME NEW p \in Procs, PutStore(p) PROVE LockInv'
    BY <1>10 DEF PutStore
  <1>11. ASSUME NEW p \in Procs, PutPublish(p) PROVE LockInv'
    BY <1>11 DEF PutPublish
  <1>12. ASSUME NEW p \in Procs, GetReadTail(p) PROVE LockInv'
    BY <1>12 DEF GetReadTail
  <1>13. ASSUME NEW p \in Procs, GetFetch(p) PROVE LockInv'
    BY <1>13 DEF GetFetch
  <1>14. ASSUME NEW p \in Procs, GetCommit(p) PROVE LockInv'
    BY <1>14 DEF GetCommit
  <1>15. ASSUME NEW p \in Procs, Leave(p) PROVE LockInv'
    BY <1>15 DEF Leave
  <1>16. CASE UNCHANGED vars
    BY <1>16 DEF vars
  <1>17. QED
    BY <1>1, <1>2, <1>3, <1>4, <1>5, <1>6, <1>7, <1>8, <1>9, <1>10, <1>11,
       <1>12, <1>13, <1>14, <1>15, <1>16 DEF Next, Step, Enter

LEMMA LockInit == Init => LockInv
  BY DEF Init, LockInv, StepsOfRole, HolderHasLock, PutPoints, GetPoints, Critical

LEMMA LockInvariant == Spec => []LockInv
  BY LockInit, LockStep, TypeInvariant, PTL DEF Spec

-----------------------------------------------------------------------------
(* The ring is a FIFO queue whenever producers share a lock and consumers  *)
(* share a lock.                                                           *)

(* One producer and one consumer at most between entry and exit.           *)
Exclusive ==
  /\ \A p, q \in Producers : pc[p] \in Critical /\ pc[q] \in Critical => p = q
  /\ \A p, q \in Consumers : pc[p] \in Critical /\ pc[q] \in Critical => p = q

LEMMA OneInside == Serialised /\ LockInv => Exclusive
  BY DEF Serialised, LockInv, HolderHasLock, Procs, Exclusive

DataInv == ProducerView /\ ConsumerView /\ DeliveredInOrder /\ RingHoldsPending

(* A step of p that leaves the ring, the indices it has read and the       *)
(* histories alone, and ends outside of the body of put() and get().       *)
Quiet(p) ==
  /\ UNCHANGED <<head, tail, data, lhead, ltail, accepted, delivered>>
  /\ \A q \in Procs \ {p} : pc'[q] = pc[q] /\ laddr'[q] = laddr[q]
  /\ pc'[p] \in {"detached", "idle", "leave", "putLock", "getLock"}

LEMMA QuietStep ==
  ASSUME DataInv, NEW p \in Procs, Quiet(p)
  PROVE  DataInv'
  <1>1. ProducerView'
    BY DEF DataInv, ProducerView, Quiet, Procs, Span
  <1>2. ConsumerView'
    BY DEF DataInv, ConsumerView, Quiet, Procs
  <1>3. DeliveredInOrder' /\ RingHoldsPending'
    BY DEF DataInv, DeliveredInOrder, RingHoldsPending, Quiet, Span, SlotAt
  <1>4. QED
    BY <1>1, <1>2, <1>3 DEF DataInv

(* put() publishes the slot at the tail: one more address is pending, in   *)
(* the last place.                                                         *)
LEMMA PublishStep ==
  ASSUME Exclusive, TypeInv, LockInv, DataInv,
         NEW p \in Procs, PutPublish(p)
  PROVE  DataInv'
  <1> USE DEF TypeInv, TypeOK
  <1>1. p \in Producers /\ pc[p] \in Critical
    BY DEF PutPublish, LockInv, StepsOfRole, PutPoints, Critical
  <1>2. /\ ltail[p] = tail /\ data[tail] = laddr[p] /\ laddr[p] \in Addrs
        /\ Span(head, tail) < Capacity - 1
    BY <1>1 DEF DataInv, ProducerView, PutPublish, CarriesAddress
  <1>3. /\ Span(head, tail') = Span(head, tail) + 1
        /\ SlotAt(head, Span(head, tail)) = tail
        /\ tail' = Succ(tail)
    BY <1>2, SpanPublish DEF PutPublish
  <1>4. /\ accepted' \in Seq(Addrs)
        /\ Len(accepted') = Len(accepted) + 1
        /\ \A i \in 1 .. Len(accepted) : accepted'[i] = accepted[i]
        /\ accepted'[Len(accepted) + 1] = laddr[p]
    BY <1>2, AppendProperties DEF PutPublish
  <1>5. Len(accepted) \in Nat /\ Len(delivered) \in Nat
    BY LenProperties
  <1>6. ProducerView'
    <2>1. \A q \in Producers \ {p} : pc[q] \notin Critical /\ pc'[q] = pc[q]
      BY <1>1 DEF Exclusive, PutPublish, Procs
    <2>2. pc'[p] = "leave"
      BY DEF PutPublish
    <2>3. QED
      BY <2>1, <2>2 DEF ProducerView, Critical
  <1>7. ConsumerView'
    <2>1. head \in Slots /\ tail' \in Slots /\ Span(head, tail) \in Nat
      <3>1. head \in Slots /\ tail \in Slots
        BY Zenon
      <3>2. Span(head, tail) \in 0 .. Capacity - 1 /\ Capacity \in Nat
        BY <3>1, SpanRange, CapacityPositive, Zenon
      <3>3. QED
        BY <1>3, <3>1, <3>2, SuccInSlots, SMTT(30)
    <2>2. head # tail'
      <3>1. Span(head, tail') # 0
        BY <1>3, <2>1, SMTT(30)
      <3>2. QED
        BY <2>1, <3>1, SpanRange, Zenon
    <2>3. QED
      BY <2>2, <1>1, RingAssumption DEF DataInv, ConsumerView, PutPublish, locals
  <1>8. DeliveredInOrder'
    BY <1>4, <1>5 DEF DataInv, DeliveredInOrder, PutPublish
  <1>9. RingHoldsPending'
    <2>1. Len(accepted') = Len(delivered') + Span(head', tail')
      <3>1. head' = head /\ delivered' = delivered
        BY DEF PutPublish
      <3>2. Len(accepted) = Len(delivered) + Span(head, tail)
        BY DEF DataInv, RingHoldsPending
      <3>3. Span(head, tail) \in Nat
        BY SpanRange, CapacityPositive
      <3>4. QED
        BY <1>3, <1>4, <1>5, <3>1, <3>2, <3>3
    <2>2. ASSUME NEW k \in 0 .. Span(head', tail') - 1
          PROVE  accepted'[Len(delivered') + k + 1] = data'[SlotAt(head', k)]
      <3>1. /\ head' = head /\ data' = data /\ delivered' = delivered
            /\ Len(accepted) = Len(delivered) + Span(head, tail)
            /\ Span(head, tail) \in Nat
        BY SpanRange, CapacityPositive DEF DataInv, RingHoldsPending, PutPublish
      <3>2. CASE k = Span(head, tail)
        BY <1>2, <1>3, <1>4, <1>5, <3>1, <3>2
      <3>3. CASE k \in 0 .. Span(head, tail) - 1
        <4>1. accepted[Len(delivered) + k + 1] = data[SlotAt(head, k)]
          BY <3>3 DEF DataInv, RingHoldsPending
        <4>2. Len(delivered) + k + 1 \in 1 .. Len(accepted)
          BY <1>5, <3>1, <3>3
        <4>3. QED
          BY <1>4, <3>1, <4>1, <4>2
      <3>4. QED
        BY <1>3, <3>1, <3>2, <3>3
    <2>3. QED
      BY <2>1, <2>2 DEF RingHoldsPending
  <1>10. QED
    BY <1>6, <1>7, <1>8, <1>9 DEF DataInv

(* get() moves head past the address it returns: the oldest pending        *)
(* address becomes the last delivered one.                                 *)
LEMMA CommitStep ==
  ASSUME Exclusive, TypeInv, LockInv, DataInv,
         NEW c \in Procs, GetCommit(c)
  PROVE  DataInv'
  <1> USE DEF TypeInv, TypeOK
  <1>1. c \in Consumers /\ pc[c] \in Critical
    BY DEF GetCommit, LockInv, StepsOfRole, GetPoints, Critical
  <1>2. /\ lhead[c] = head /\ laddr[c] = data[head] /\ head # tail
        /\ laddr[c] \in Addrs \cup {0}
    BY <1>1 DEF DataInv, ConsumerView, GetCommit, CarriesAddress
  <1>3. /\ head' = Succ(head)
        /\ Span(head', tail) = Span(head, tail) - 1
        /\ SlotAt(head, 0) = head
        /\ \A k \in 0 .. Span(head, tail) - 2 :
             SlotAt(head', k) = SlotAt(head, k + 1)
    BY <1>2, SpanTake DEF GetCommit
  <1>4. /\ Len(delivered') = Len(delivered) + 1
        /\ \A i \in 1 .. Len(delivered) : delivered'[i] = delivered[i]
        /\ delivered'[Len(delivered) + 1] = laddr[c]
    BY <1>2, AppendProperties DEF GetCommit
  <1>5. /\ Len(accepted) \in Nat /\ Len(delivered) \in Nat
        /\ Span(head, tail) \in Nat /\ Span(head, tail) > 0
    BY <1>2, LenProperties, SpanRange, CapacityPositive
  <1>6. /\ Len(accepted) = Len(delivered) + Span(head, tail)
        /\ accepted[Len(delivered) + 1] = data[head]
    BY <1>3, <1>5 DEF DataInv, RingHoldsPending
  <1>7. ProducerView'
    <2>1. /\ tail' = tail /\ data' = data /\ lhead' = lhead /\ ltail' = ltail
          /\ laddr' = laddr
          /\ \A q \in Producers : pc'[q] = pc[q]
      BY <1>1, RingAssumption DEF GetCommit, locals, Procs
    <2>2. Span(head', tail') < Span(head, tail)
      BY <1>3, <1>5, <2>1
    <2>3. \A q \in Producers : Span(lhead[q], tail) \in Nat
      BY SpanRange, CapacityPositive DEF Procs
    <2>4. Span(head', tail') \in Nat
      BY <1>3, <1>5, <2>1
    <2>5. QED
      BY <1>5, <2>1, <2>2, <2>3, <2>4, CapacityPositive DEF DataInv, ProducerView
  <1>8. ConsumerView'
    <2>1. \A q \in Consumers \ {c} : pc[q] \notin Critical /\ pc'[q] = pc[q]
      BY <1>1 DEF Exclusive, GetCommit, Procs
    <2>2. pc'[c] = "leave"
      BY DEF GetCommit
    <2>3. QED
      BY <2>1, <2>2 DEF ConsumerView, Critical
  <1>9. DeliveredInOrder'
    BY <1>2, <1>4, <1>5, <1>6 DEF DataInv, DeliveredInOrder, GetCommit
  <1>10. RingHoldsPending'
    <2>1. Len(accepted') = Len(delivered') + Span(head', tail')
      BY <1>3, <1>4, <1>5, <1>6 DEF GetCommit
    <2>2. ASSUME NEW k \in 0 .. Span(head', tail') - 1
          PROVE  accepted'[Len(delivered') + k + 1] = data'[SlotAt(head', k)]
      <3>1. k \in 0 .. Span(head, tail) - 2 /\ k + 1 \in 0 .. Span(head, tail) - 1
        BY <1>3, <1>5 DEF GetCommit
      <3>2. accepted[Len(delivered) + (k + 1) + 1] = data[SlotAt(head, k + 1)]
        BY <3>1 DEF DataInv, RingHoldsPending
      <3>3. Len(delivered') + k + 1 = Len(delivered) + (k + 1) + 1
        BY <1>4, <1>5, <3>1
      <3>4. QED
        BY <1>3, <3>1, <3>2, <3>3 DEF GetCommit
    <2>3. QED
      BY <2>1, <2>2 DEF RingHoldsPending
  <1>11. QED
    BY <1>7, <1>8, <1>9, <1>10 DEF DataInv

(* The steps of a call that only read: put() reads head (with the lock) and *)
(* then tail, get() reads head, tail and the slot.                          *)
LEMMA ReadStep ==
  ASSUME Exclusive, TypeInv, LockInv, DataInv, NEW p \in Procs,
         Enter(p) \/ PutReadTail(p) \/ GetReadTail(p) \/ GetFetch(p)
  PROVE  DataInv'
  <1> USE DEF TypeInv, TypeOK
  <1>1. UNCHANGED <<head, tail, data, accepted, delivered>>
    BY DEF Enter, PutEnter, GetEnter, Acquire, PutReadTail, GetReadTail, GetFetch,
           shared, history
  <1>2. \A q \in Procs \ {p} : /\ pc'[q] = pc[q] /\ laddr'[q] = laddr[q]
                              /\ lhead'[q] = lhead[q] /\ ltail'[q] = ltail[q]
    BY DEF Enter, PutEnter, GetEnter, Acquire, PutReadTail, GetReadTail, GetFetch
  <1>3. DeliveredInOrder' /\ RingHoldsPending'
    BY <1>1 DEF DataInv, DeliveredInOrder, RingHoldsPending, Span, SlotAt
  <1>4. ASSUME NEW q \in Producers
        PROVE  /\ pc'[q] = "putTail" => Span(lhead'[q], tail') >= Span(head', tail')
               /\ pc'[q] \in {"putStore", "putPublish"}
                    => ltail'[q] = tail' /\ Span(head', tail') < Capacity - 1
               /\ pc'[q] = "putPublish" => data'[tail'] = laddr'[q]
    <2>1. CASE q # p
      BY <1>1, <1>2, <2>1 DEF DataInv, ProducerView, Procs, Span
    <2>2. CASE q = p /\ PutEnter(p)
      <3>1. pc'[p] = "putTail" /\ lhead'[p] = head
        BY <2>2 DEF PutEnter, Acquire
      <3>2. Span(head, tail) \in Nat
        BY SpanRange, CapacityPositive
      <3>3. QED
        BY <1>1, <2>2, <3>1, <3>2
    <2>3. CASE q = p /\ PutReadTail(p)
      <3>1. /\ Span(lhead[p], tail) >= Span(head, tail)
            /\ Span(lhead[p], tail) \in 0 .. Capacity - 1
            /\ Span(head, tail) \in Nat
        BY <2>3, SpanRange, CapacityPositive DEF DataInv, ProducerView, PutReadTail
      <3>2. /\ ltail'[p] = tail
            /\ \/ pc'[p] = "leave"
               \/ pc'[p] = "putStore" /\ ~Full(lhead[p], tail)
        BY <2>3 DEF PutReadTail
      <3>3. ~Full(lhead[p], tail) => Span(head, tail) < Capacity - 1
        BY <3>1, FullIsSpan, CapacityPositive
      <3>4. QED
        BY <1>1, <2>3, <3>2, <3>3
    <2>4. CASE q = p /\ (GetEnter(p) \/ GetReadTail(p) \/ GetFetch(p))
      BY <2>4 DEF GetEnter, Acquire, GetReadTail, GetFetch
    <2>5. QED
      BY <2>1, <2>2, <2>3, <2>4 DEF Enter
  <1>5. ASSUME NEW c \in Consumers
        PROVE  /\ pc'[c] \in {"getTail", "getFetch", "getCommit"} => lhead'[c] = head'
               /\ pc'[c] \in {"getFetch", "getCommit"} => head' # tail'
               /\ pc'[c] = "getCommit" => laddr'[c] = data'[head']
    <2>1. CASE c # p
      BY <1>1, <1>2, <2>1 DEF DataInv, ConsumerView, Procs
    <2>2. CASE c = p /\ GetEnter(p)
      BY <1>1, <2>2 DEF GetEnter, Acquire
    <2>3. CASE c = p /\ GetReadTail(p)
      BY <1>1, <2>3 DEF GetReadTail, DataInv, ConsumerView
    <2>4. CASE c = p /\ GetFetch(p)
      BY <1>1, <2>4 DEF GetFetch, DataInv, ConsumerView
    <2>5. CASE c = p /\ (PutEnter(p) \/ PutReadTail(p))
      BY <2>5 DEF PutEnter, Acquire, PutReadTail
    <2>6. QED
      BY <2>1, <2>2, <2>3, <2>4, <2>5 DEF Enter
  <1>6. QED
    BY <1>3, <1>4, <1>5 DEF DataInv, ProducerView, ConsumerView

(* put() writes the free slot at the tail: no filled slot changes, so no   *)
(* consumer can see the write before it is published.                      *)
LEMMA StoreStep ==
  ASSUME Exclusive, TypeInv, LockInv, DataInv, NEW p \in Procs, PutStore(p)
  PROVE  DataInv'
  <1> USE DEF TypeInv, TypeOK
  <1>1. p \in Producers /\ pc[p] \in Critical
    BY DEF PutStore, LockInv, StepsOfRole, PutPoints, Critical
  <1>2. ltail[p] = tail /\ Span(head, tail) < Capacity - 1
    BY <1>1 DEF DataInv, ProducerView, PutStore
  <1>3. /\ UNCHANGED <<head, tail, accepted, delivered, lhead, ltail, laddr>>
        /\ \A q \in Procs \ {p} : pc'[q] = pc[q]
        /\ \/ pc'[p] = "leave"
           \/ pc'[p] = "putPublish" /\ data'[tail] = laddr[p]
    BY <1>2 DEF PutStore, locals, history
  <1>4. \A i \in Slots : i # tail => data'[i] = data[i]
    BY <1>2 DEF PutStore
  <1>5. ProducerView'
    <2>1. \A q \in Producers \ {p} : pc[q] \notin Critical
      BY <1>1 DEF Exclusive
    <2>2. QED
      BY <1>2, <1>3, <2>1 DEF ProducerView, Critical, Procs
  <1>6. ConsumerView'
    BY <1>1, <1>3, <1>4, RingAssumption DEF DataInv, ConsumerView, Procs
  <1>7. DeliveredInOrder'
    BY <1>3 DEF DataInv, DeliveredInOrder
  <1>8. RingHoldsPending'
    BY <1>3, <1>4, FilledSlots DEF DataInv, RingHoldsPending
  <1>9. QED
    BY <1>5, <1>6, <1>7, <1>8 DEF DataInv

(* Every step of the ring keeps the data right.                            *)
LEMMA DataStep ==
  ASSUME Exclusive, TypeInv, LockInv, DataInv, [Next]_vars
  PROVE  DataInv'
  <1>1. ASSUME NEW p \in Procs,
               \/ Attach(p) \/ Close(p) \/ Unlink(p) \/ Crash(p) \/ GetCall(p)
               \/ Leave(p) \/ \E a \in Addrs \cup Unstorable : PutCall(p, a)
        PROVE  DataInv'
    <2>1. Quiet(p)
      BY <1>1 DEF Quiet, Attach, Close, Unlink, Crash, GetCall, Leave, PutCall,
                  shared, locals, history, TypeInv, TypeOK
    <2>2. QED
      BY <2>1, QuietStep
  <1>2. ASSUME NEW p \in Procs,
               Enter(p) \/ PutReadTail(p) \/ GetReadTail(p) \/ GetFetch(p)
        PROVE  DataInv'
    BY <1>2, ReadStep
  <1>3. ASSUME NEW p \in Procs, PutStore(p) PROVE DataInv'
    BY <1>3, StoreStep
  <1>4. ASSUME NEW p \in Procs, PutPublish(p) PROVE DataInv'
    BY <1>4, PublishStep
  <1>5. ASSUME NEW p \in Procs, GetCommit(p) PROVE DataInv'
    BY <1>5, CommitStep
  <1>6. CASE UNCHANGED vars
    BY <1>6 DEF vars, DataInv, ProducerView, ConsumerView, DeliveredInOrder,
                RingHoldsPending, Span, SlotAt
  <1>7. QED
    BY <1>1, <1>2, <1>3, <1>4, <1>5, <1>6 DEF Next, Step

LEMMA DataInit == Init => DataInv
  <1>1. Init => 0 \in Slots /\ Span(0, 0) = 0
    BY CapacityPositive DEF Slots, Span
  <1>2. QED
    BY <1>1, CapacityPositive
       DEF Init, DataInv, ProducerView, ConsumerView, DeliveredInOrder,
           RingHoldsPending, Procs

(* RingInv is inductive.                                                   *)
THEOREM RingInvariant == Serialised => (Spec => []RingInv)
  <1> SUFFICES ASSUME Serialised PROVE Spec => []RingInv
    OBVIOUS
  <1>1. TypeInv /\ LockInv /\ DataInv /\ [Next]_vars => DataInv'
    BY OneInside, DataStep
  <1>2. TypeInv /\ LockInv /\ DataInv => RingInv
    BY DEF LockInv, DataInv, RingInv
  <1>3. QED
    BY <1>1, <1>2, DataInit, TypeInvariant, LockInvariant, PTL DEF Spec

(* Addresses come out of get() in the order put() accepted them, none lost *)
(* and none twice.                                                         *)
THEOREM FirstInFirstOut == Serialised => (Spec => []DeliveredInOrder)
  BY RingInvariant, PTL DEF RingInv

(* put() never writes the slot get() is reading (ring_buffer.py:131, 156). *)
THEOREM SlotRaceFreedom == Serialised => (Spec => []NoSlotRace)
  <1> SUFFICES ASSUME Serialised PROVE Spec => []NoSlotRace
    OBVIOUS
  <1>1. RingInv => NoSlotRace
    BY DEF RingInv, NoSlotRace, ProducerView, ConsumerView, StepsOfRole,
           PutPoints, GetPoints
  <1>2. QED
    BY <1>1, RingInvariant, PTL

-----------------------------------------------------------------------------
(* The ring implements the bounded queue.                                  *)

RingSeq(h, t, d) == [i \in 1 .. Span(h, t) |-> d[SlotAt(h, i - 1)]]

(* What the slots can hold.                                                *)
Word   == Addrs \cup {0}
Memory == [Slots -> Word]

LEMMA RingSeqIsSeq ==
  ASSUME NEW h \in Slots, NEW t \in Slots, NEW d \in Memory
  PROVE  /\ RingSeq(h, t, d) \in Seq(Word)
         /\ Len(RingSeq(h, t, d)) = Span(h, t)
         /\ \A k \in 1 .. Span(h, t) : RingSeq(h, t, d)[k] = d[SlotAt(h, k - 1)]
         /\ Span(h, t) \in Nat
  <1>1. Span(h, t) \in Nat
    BY SpanRange, CapacityPositive
  <1>2. \A k \in 1 .. Span(h, t) : d[SlotAt(h, k - 1)] \in Word
    <2> SUFFICES ASSUME NEW k \in 1 .. Span(h, t) PROVE d[SlotAt(h, k - 1)] \in Word
      OBVIOUS
    <2>1. k - 1 \in 0 .. Span(h, t) - 1
      BY <1>1
    <2>2. QED
      BY <2>1, FilledSlots DEF Memory
  <1>3. RingSeq(h, t, d) \in [1 .. Span(h, t) -> Word]
    BY <1>2 DEF RingSeq
  <1>4. RingSeq(h, t, d) \in Seq(Word) /\ Len(RingSeq(h, t, d)) = Span(h, t)
    BY <1>1, <1>3, SMT
  <1>5. QED
    BY <1>1, <1>4 DEF RingSeq

(* Storing in the slot at the tail and publishing it appends to the        *)
(* contents; storing alone changes nothing; moving head drops the first.   *)
LEMMA RingSeqAppend ==
  ASSUME NEW h \in Slots, NEW t \in Slots, NEW d \in Memory,
         Span(h, t) < Capacity - 1
  PROVE  RingSeq(h, Succ(t), d) = Append(RingSeq(h, t, d), d[t])
  <1> DEFINE q == RingSeq(h, t, d)
             r == RingSeq(h, Succ(t), d)
             n == Span(h, t)
  <1>1. /\ q \in Seq(Word) /\ Len(q) = n /\ n \in Nat
        /\ \A k \in 1 .. n : q[k] = d[SlotAt(h, k - 1)]
    BY RingSeqIsSeq
  <1>2. Span(h, Succ(t)) = n + 1 /\ SlotAt(h, n) = t
    BY SpanPublish
  <1>3. /\ r \in Seq(Word) /\ Len(r) = n + 1
        /\ \A k \in 1 .. n + 1 : r[k] = d[SlotAt(h, k - 1)]
    <2>1. Succ(t) \in Slots
      BY SuccInSlots
    <2>2. /\ r \in Seq(Word) /\ Len(r) = Span(h, Succ(t))
          /\ \A k \in 1 .. Span(h, Succ(t)) : r[k] = d[SlotAt(h, k - 1)]
      BY <2>1, RingSeqIsSeq
    <2>3. QED
      BY <1>2, <2>2
  <1>4. /\ Append(q, d[t]) \in Seq(Word) /\ Len(Append(q, d[t])) = n + 1
        /\ \A k \in 1 .. n : Append(q, d[t])[k] = q[k]
        /\ Append(q, d[t])[n + 1] = d[t]
    <2>1. d[t] \in Word
      BY DEF Memory
    <2> HIDE DEF q, r, n
    <2>2. QED
      BY <1>1, <2>1, AppendProperties
  <1> HIDE DEF q, r, n
  <1>5. ASSUME NEW k \in 1 .. n + 1 PROVE r[k] = Append(q, d[t])[k]
    <2>1. CASE k = n + 1
      <3>1. k - 1 = n
        BY <1>1, <2>1
      <3>2. QED
        BY <1>2, <1>3, <1>4, <2>1, <3>1
    <2>2. CASE k \in 1 .. n
      BY <1>1, <1>3, <1>4, <2>2
    <2>3. QED
      BY <1>1, <2>1, <2>2
  <1>6. r = Append(q, d[t])
    BY <1>3, <1>4, <1>5, SeqEqual
  <1>7. QED
    BY <1>6 DEF q, r

LEMMA RingSeqTail ==
  ASSUME NEW h \in Slots, NEW t \in Slots, NEW d \in Memory, h # t
  PROVE  /\ RingSeq(h, t, d) # <<>>
         /\ Head(RingSeq(h, t, d)) = d[h]
         /\ RingSeq(Succ(h), t, d) = Tail(RingSeq(h, t, d))
  <1> DEFINE q == RingSeq(h, t, d)
             r == RingSeq(Succ(h), t, d)
             n == Span(h, t)
  <1>1. /\ q \in Seq(Word) /\ Len(q) = n /\ n \in Nat
        /\ \A k \in 1 .. n : q[k] = d[SlotAt(h, k - 1)]
    BY RingSeqIsSeq
  <1>2. n # 0
    BY SpanRange
  <1>3. /\ Span(Succ(h), t) = n - 1 /\ SlotAt(h, 0) = h
        /\ \A k \in 0 .. n - 2 : SlotAt(Succ(h), k) = SlotAt(h, k + 1)
    BY SpanTake
  <1>4. /\ r \in Seq(Word) /\ Len(r) = n - 1
        /\ \A k \in 1 .. n - 1 : r[k] = d[SlotAt(Succ(h), k - 1)]
    <2>1. Succ(h) \in Slots
      BY SuccInSlots
    <2>2. /\ r \in Seq(Word) /\ Len(r) = Span(Succ(h), t)
          /\ \A k \in 1 .. Span(Succ(h), t) : r[k] = d[SlotAt(Succ(h), k - 1)]
      BY <2>1, RingSeqIsSeq
    <2>3. QED
      BY <1>3, <2>2
  <1> HIDE DEF q, r, n
  <1>5. q # <<>>
    BY <1>1, <1>2, EmptySeq
  <1>6. /\ Tail(q) \in Seq(Word) /\ Len(Tail(q)) = n - 1
        /\ \A k \in 1 .. n - 1 : Tail(q)[k] = q[k + 1]
    BY <1>1, <1>5, HeadTailProperties
  <1>7. Head(q) = d[h]
    <2>1. Head(q) = q[1]
      BY <1>1, <1>5
    <2>2. 1 \in 1 .. n /\ 1 - 1 = 0
      BY <1>1, <1>2
    <2>3. QED
      BY <1>1, <1>3, <2>1, <2>2
  <1>8. ASSUME NEW k \in 1 .. n - 1 PROVE r[k] = Tail(q)[k]
    <2>1. /\ k - 1 \in 0 .. n - 2 /\ k + 1 \in 1 .. n
          /\ (k - 1) + 1 = (k + 1) - 1
      BY <1>1
    <2>2. SlotAt(Succ(h), k - 1) = SlotAt(h, (k + 1) - 1)
      BY <1>3, <2>1
    <2>3. QED
      BY <1>1, <1>4, <1>6, <2>1, <2>2
  <1>9. r = Tail(q)
    BY <1>4, <1>6, <1>8, SeqEqual
  <1>10. QED
    BY <1>5, <1>7, <1>9 DEF q, r

LEMMA RingSeqStore ==
  ASSUME NEW h \in Slots, NEW t \in Slots, NEW d, NEW e,
         \A i \in Slots : i # t => e[i] = d[i]
  PROVE  RingSeq(h, t, e) = RingSeq(h, t, d)
  <1>1. ASSUME NEW k \in 1 .. Span(h, t)
        PROVE  e[SlotAt(h, k - 1)] = d[SlotAt(h, k - 1)]
    <2>1. k - 1 \in 0 .. Span(h, t) - 1
      BY SpanRange, CapacityPositive
    <2>2. QED
      BY <2>1, FilledSlots
  <1>2. QED
    BY <1>1 DEF RingSeq

(* A put() that publishes offers its address to the queue.                 *)
LEMMA PublishOffers ==
  ASSUME TypeInv, LockInv, DataInv, NEW p \in Procs, PutPublish(p)
  PROVE  AQ!Offer(laddr[p])
  <1>1. p \in Producers
    BY DEF PutPublish, LockInv, StepsOfRole, PutPoints
  <1>2. /\ ltail[p] = tail /\ data[tail] = laddr[p]
        /\ Span(head, tail) < Capacity - 1
        /\ head' = head /\ data' = data /\ tail' = Succ(tail)
        /\ delivered' = delivered
    BY <1>1 DEF DataInv, ProducerView, PutPublish
  <1>3. head \in Slots /\ tail \in Slots /\ data \in Memory
    BY DEF TypeInv, TypeOK, Memory, Word
  <1>4. Contents = RingSeq(head, tail, data) /\ Contents' = RingSeq(head', tail', data')
    BY DEF Contents, RingSeq
  <1>5. Contents' = Append(Contents, laddr[p]) /\ Len(Contents) < Capacity - 1
    <2>1. RingSeq(head, Succ(tail), data) = Append(RingSeq(head, tail, data), data[tail])
      BY <1>2, <1>3, RingSeqAppend
    <2>2. Len(RingSeq(head, tail, data)) = Span(head, tail)
      BY <1>3, RingSeqIsSeq
    <2>3. QED
      BY <1>2, <1>4, <2>1, <2>2
  <1>6. QED
    BY <1>2, <1>5 DEF AQ!Offer

(* A get() that commits takes the head of the queue.                       *)
LEMMA CommitTakes ==
  ASSUME TypeInv, LockInv, DataInv, NEW c \in Procs, GetCommit(c)
  PROVE  AQ!Take
  <1>1. c \in Consumers
    BY DEF GetCommit, LockInv, StepsOfRole, GetPoints
  <1>2. /\ lhead[c] = head /\ laddr[c] = data[head] /\ head # tail
        /\ head' = Succ(head) /\ tail' = tail /\ data' = data
        /\ delivered' = Append(delivered, data[head])
    BY <1>1 DEF DataInv, ConsumerView, GetCommit
  <1>3. head \in Slots /\ tail \in Slots /\ data \in Memory
    BY DEF TypeInv, TypeOK, Memory, Word
  <1>4. Contents = RingSeq(head, tail, data) /\ Contents' = RingSeq(head', tail', data')
    BY DEF Contents, RingSeq
  <1>5. Contents # <<>> /\ Head(Contents) = data[head] /\ Contents' = Tail(Contents)
    <2>1. /\ RingSeq(head, tail, data) # <<>>
          /\ Head(RingSeq(head, tail, data)) = data[head]
          /\ RingSeq(Succ(head), tail, data) = Tail(RingSeq(head, tail, data))
      <3>1. head # tail
        BY <1>2
      <3>2. QED
        BY <1>3, <3>1, RingSeqTail
    <2>2. QED
      BY <1>2, <1>4, <2>1
  <1>6. QED
    BY <1>2, <1>5 DEF AQ!Take

(* SharedMemoryRingBuffer is the bounded FIFO queue of AddressQueue.       *)
THEOREM ImplementsQueue == Serialised => (Spec => QueueRefinement)
  <1> SUFFICES ASSUME Serialised PROVE Spec => AQ!Spec
    BY DEF QueueRefinement
  <1>1. Init => AQ!Init
    <2> SUFFICES ASSUME Init PROVE AQ!Init
      OBVIOUS
    <2>1. Span(head, tail) = 0
      BY CapacityPositive DEF Init, Span
    <2>2. Contents = <<>>
      BY <2>1 DEF Contents
    <2>3. QED
      BY <2>2 DEF Init, AQ!Init
  <1>2. TypeInv /\ RingInv /\ [Next]_vars => [AQ!Next]_(AQ!vars)
    <2> SUFFICES ASSUME TypeInv, RingInv, [Next]_vars
                 PROVE  [AQ!Next]_(AQ!vars)
      OBVIOUS
    <2>1. LockInv /\ DataInv
      BY DEF RingInv, LockInv, DataInv
    <2>2. ASSUME NEW p \in Procs, PutPublish(p) PROVE [AQ!Next]_(AQ!vars)
      <3>1. laddr[p] \in Addrs
        BY <2>2 DEF TypeInv, CarriesAddress, PutPublish
      <3>2. QED
        BY <2>1, <2>2, <3>1, PublishOffers DEF AQ!Next
    <2>3. ASSUME NEW c \in Procs, GetCommit(c) PROVE [AQ!Next]_(AQ!vars)
      BY <2>1, <2>3, CommitTakes DEF AQ!Next
    <2>4. ASSUME NEW p \in Procs, PutStore(p) PROVE [AQ!Next]_(AQ!vars)
      <3>1. p \in Producers
        BY <2>1, <2>4 DEF PutStore, LockInv, StepsOfRole, PutPoints
      <3>2. /\ UNCHANGED <<head, tail, delivered>>
            /\ \A i \in Slots : i # tail => data'[i] = data[i]
        BY <2>1, <2>4, <3>1
           DEF PutStore, locals, history, DataInv, ProducerView, TypeInv, TypeOK
      <3>3. head \in Slots /\ tail \in Slots
        BY DEF TypeInv, TypeOK
      <3>4. UNCHANGED Contents
        BY <3>2, <3>3, RingSeqStore DEF Contents, RingSeq
      <3>5. QED
        BY <3>2, <3>4 DEF AQ!vars
    <2>5. ASSUME UNCHANGED <<head, tail, data, delivered>>
          PROVE  [AQ!Next]_(AQ!vars)
      BY <2>5 DEF AQ!vars, Contents, Span, SlotAt
    <2>6. QED
      BY <2>2, <2>3, <2>4, <2>5
         DEF Next, Step, Enter, PutEnter, GetEnter, Acquire, Attach, Close, Unlink,
             Crash, PutCall, GetCall, PutReadTail, GetReadTail, GetFetch, Leave,
             shared, history, vars
  <1>3. QED
    BY <1>1, <1>2, RingInvariant, TypeInvariant, PTL DEF Spec, AQ!Spec
=============================================================================
