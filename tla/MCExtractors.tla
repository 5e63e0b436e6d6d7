----------------------------- MODULE MCExtractors -----------------------------
(* Instances of LinuxLists for TLC: all the extractors, on files of two     *)
(* chunks and of two and a half.                                            *)
EXTENDS LinuxLists

(* The text "two" becomes "one" when it is cut off, "one" becomes useless.  *)
(* In a chunk of 4 the text of a may be cut off, pattern b itself may; c    *)
(* never is.                                                                *)
Length == [a |-> 1, b |-> 3, c |-> 1]
Reach == [a |-> 2, b |-> 3, c |-> 1]
Occurrence(at, pattern, value) ==
  [at |-> at, pattern |-> pattern, length |-> Length[pattern], reach |-> Reach[pattern],
   value |-> value, cut |-> IF value = "two" THEN "one" ELSE Junk]

Holding(ats, kinds) ==
  {{Occurrence(at, f[at][1], f[at][2]) : at \in ats} : f \in [ats -> kinds]}

Values == {"one", "two", Junk}
Placed == {{}, {3}, {0, 2}, {1, 3}, {2, 5}, {0, 4}, {4, 6}, {0, 2, 4}, {0, 4, 8}}
MCFiles ==
  [size : {8, 10},
   occurrences : UNION {Holding(ats, {"a", "b", "c"} \X Values) : ats \in Placed}
                   \cup Holding({0, 2, 4, 6}, {"a", "b"} \X Values)]

(* Objects at 3 and 7 end with their chunk.                                 *)
MCLinuxFiles ==
  [size : {8}, occurrences : UNION {Holding(ats, {"a"} \X {"one", "three"}) :
                                      ats \in {{0, 5}, {3, 4}, {1, 7}}}]

MCAddresses == 1 .. 4
MCMemories ==
  {[v \in MCAddresses |-> [key |-> keys[v], plausible |-> v \notin torn, next |-> next[v]]] :
     keys \in {<<"one", "two", "three", "four">>, <<"zero", "one", "two", "two">>,
               <<"two", "three", "two", "one">>},
     torn \in {{}, {2}}, next \in [MCAddresses -> 0 .. 4]}
=============================================================================
