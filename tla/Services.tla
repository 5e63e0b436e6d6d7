------------------------------ MODULE Services ------------------------------
(***************************************************************************)
(* The services of the engine's core that share no state with each other:  *)
(* a behaviour is one of the database (ScanState) or of an event bus       *)
(* (Events), while the other rests.                                        *)
(***************************************************************************)
EXTENDS ScanState, Events

VARIABLE service

serviceVars == <<service, dbVars, eventVars>>

ServicesInit ==
  /\ DbInit /\ EventsInit
  /\ service \in {"database", "events"}
  /\ service = "database" => bus = "hooks" /\ clock = 0

ServicesNext ==
  /\ UNCHANGED service
  /\ \/ service = "database" /\ DbNext /\ UNCHANGED eventVars
     \/ service = "events" /\ EventsNext /\ UNCHANGED dbVars

ServicesSpec == ServicesInit /\ [][ServicesNext]_serviceVars
=============================================================================
