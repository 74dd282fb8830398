---------------------------- MODULE MCSensorScan ----------------------------
(* The sweep with the sensor count and check period of the source.         *)
EXTENDS SensorScan
=============================================================================
