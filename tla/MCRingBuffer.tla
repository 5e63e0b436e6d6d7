---------------------------- MODULE MCRingBuffer ----------------------------
(* Wirings of RingBuffer for TLC.                                          *)
EXTENDS RingBuffer

(* Each handle makes its own lock, as in the scanner: coordinator.py:68-71 *)
(* and worker.py:70-75 pass none.                                          *)
PrivateLocks == [p \in Procs |-> p]

MCProducer == {"coordinator"}
MCWorker   == {"w1"}
MCWorkers  == {"w1", "w2"}
MCAll      == MCProducer \cup MCWorker
MCAll2     == MCProducer \cup MCWorkers
=============================================================================
