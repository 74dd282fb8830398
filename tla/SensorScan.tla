----------------------------- MODULE SensorScan -----------------------------
(***************************************************************************)
(* Which sensors the sweep of update_sensor_reading (libs/sdr/sdr.cpp)     *)
(* checks against their thresholds.  The sweep reads every sensor, but a   *)
(* counter that lives across sweeps lets only one visit in CheckGap + 2    *)
(* reach check_event_occured.  The caller's loop is a thread of the main   *)
(* program, which visits one sensor after the other without end.           *)
(***************************************************************************)
EXTENDS Integers

CONSTANTS
  SensorCount, \* entries of sdr_rec: PEB_SENSOR_COUNT + PDPB_SENSOR_COUNT
  CheckGap     \* the 60 in "t_count++ > 60"

ASSUME SensorCountAssumption == SensorCount \in Nat /\ SensorCount >= 1
ASSUME CheckGapAssumption == CheckGap \in Nat

Sensor == 0 .. SensorCount - 1      \* indices into sdr_rec
Period == CheckGap + 2              \* visits from one check to the next
FirstTick == CheckGap + 40          \* t_count = 100 at start-up

VARIABLES
  pos,    \* the sensor the sweep visits next
  ticks   \* t_count

scanVars == <<pos, ticks>>

ScanInit == pos = 0 /\ ticks = FirstTick

(* Definitions named ...Mutant are plausible mistakes in the one that      *)
(* follows them.                                                           *)
CheckDueMutant == ticks >= CheckGap
(* The test of t_count that lets this visit check the sensor. *)
CheckDue == ticks > CheckGap

VisitNoWrapMutant ==
  /\ pos' = IF pos = SensorCount THEN 0 ELSE pos + 1
  /\ ticks' = IF CheckDue THEN 0 ELSE ticks + 1
VisitFreshMutant ==
  /\ pos' = IF pos = SensorCount - 1 THEN 0 ELSE pos + 1
  /\ ticks' = IF CheckDue \/ pos = SensorCount - 1 THEN 0 ELSE ticks + 1
(* One iteration of the loop over sdr_rec; after the last entry the next   *)
(* sweep begins at the first.                                              *)
Visit ==
  /\ pos' = IF pos = SensorCount - 1 THEN 0 ELSE pos + 1
  /\ ticks' = IF CheckDue THEN 0 ELSE ticks + 1

ScanSpec == ScanInit /\ [][Visit]_scanVars /\ WF_scanVars(Visit)
----------------------------------------------------------------------------
Divides(d, n) == \E q \in 0 .. n : n = d * q

CommonDivisors ==
  {d \in 1 .. SensorCount : Divides(d, SensorCount) /\ Divides(d, Period)}

(* The sensors whose index every common divisor of the number of sensors   *)
(* and the check period divides.                                           *)
Reached == {s \in Sensor : \A d \in CommonDivisors : Divides(d, s)}

(* A check falls on none but the sensors of Reached, although the counter  *)
(* starts out of step and sweeps and checks overlap differently each time. *)
ChecksAreReached == CheckDue => pos \in Reached

(* The thresholds of each of them are looked at again and again.           *)
ReachedAreChecked == \A s \in Reached : []<>(CheckDue /\ pos = s)

----------------------------------------------------------------------------
(* What the source means the sweep to do.                                  *)

(* Every sensor of the tables has its threshold events enabled             *)
(* (SENSOR_EVENT_ASSERTION_LS and _MS), so each is checked again and again.*)
EverySensorChecked == \A s \in Sensor : []<>(CheckDue /\ pos = s)
=============================================================================
