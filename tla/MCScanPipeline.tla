--------------------------- MODULE MCScanPipeline ---------------------------
(* An instance of ScanPipeline for TLC: every graph over three extractors.  *)
EXTENDS ScanPipeline

Three == <<"a", "b", "c">>
AllGraphs == [{"a", "b", "c"} -> BoundedSeq({"a", "b", "c"}, 2)]
AllPlatforms == SUBSET {"a", "b", "c"}
OneKey == [e \in {"a", "b", "c"} |-> IF e = "a" THEN {"k"} ELSE {}]
AllCommands == {"scan", "verify"}

=============================================================================
