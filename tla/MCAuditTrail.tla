----------------------------- MODULE MCAuditTrail ----------------------------
(* Instances of AuditTrail for TLC: two scans, one after the other.         *)
EXTENDS AuditTrail

Two == {"scan1", "scan2"}
Nobody == {}
=============================================================================
