----------------------------- MODULE MCPlatform -----------------------------
(* The sweep over the sensors runs beside the commands of two clients that *)
(* read the SDR repository; a second part of the instance, for invariants  *)
(* only, has the commands for the event filters.                           *)
EXTENDS SensorScan, SdrRepository, EventFilters

VARIABLE part

MCInit ==
  /\ ScanInit /\ SdrInit /\ FilterInit
  /\ part \in {"records", "filters"}

MCNext ==
  /\ UNCHANGED part
  /\ \/ part = "records" /\ Visit /\ UNCHANGED <<sdrVars, filterVars>>
     \/ part = "records" /\ SdrNext /\ UNCHANGED <<scanVars, filterVars>>
     \/ part = "filters" /\ FilterNext /\ UNCHANGED <<scanVars, sdrVars>>

MCSpec ==
  /\ MCInit /\ [][MCNext]_<<scanVars, sdrVars, filterVars, part>>
  /\ WF_scanVars(Visit) /\ SdrFairness
=============================================================================
