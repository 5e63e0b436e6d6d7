------------------------------ MODULE MCScanner ------------------------------
(* Instances of Scanner for TLC.  Addresses are distinct numbers, windows   *)
(* at 1 and 2 hold candidates, the one at 3 holds none.                     *)
EXTENDS Scanner

TwoProcs  == <<"w1", "w2">>
FourProcs == <<"w1", "w2", "w3", "w4">>
MCHits    == [a \in Addrs |-> IF a = 3 THEN 0 ELSE a]
FirstWorker == {"w1"}
FirstThree  == {"w1", "w2", "w3"}
=============================================================================
