------------------------------ MODULE Sensors ------------------------------
(***************************************************************************)
(* The sensor monitor of libs/sdr/sdr.cpp, its thresholds and the events   *)
(* it writes into the System Event Log of SelLog.                          *)
(*                                                                         *)
(* Abstractions.  A reading is used in the visit that takes it, so the     *)
(* cached nominal value is not kept.  Raw values are compared: the tables  *)
(* have m > 0 and b = 0, so conversion keeps their order.  On the upper    *)
(* side the code adds three rounded products, and whether a reading right  *)
(* at the limit counts depends on the rounding: both outcomes are allowed. *)
(* The non-recoverable thresholds take part in no check and are left out,  *)
(* as are the mail and the Redfish log entry sent with each event.         *)
(***************************************************************************)
EXTENDS SelLog, SensorScan

CONSTANTS
  Readings,    \* raw values a sensor may return
  Limits,      \* raw values a threshold may be set to
  SetNames,    \* the thresholds Set Sensor Threshold is sent for
  Profiles,    \* sets of thresholds the web page may send
  NotAvailable,\* THRESH_NOT_AVAILABLE
  NegHyst,     \* neg_hyst of the tables
  Defaults,    \* the thresholds compiled into the sensor tables
  Scale        \* how much one step of a raw value is worth, the same unit for all

Kinds == {"UC", "UNC", "LC", "LNC"}
Names == {"uc", "unc", "lc", "lnc"}
Thresholds == [Names -> Nat]

ASSUME ReadingsAssumption ==
  Readings \subseteq Nat /\ Limits \subseteq Nat /\ NotAvailable \in Nat /\ NegHyst \in Nat
ASSUME ProfilesAssumption ==
  SetNames \subseteq Names /\ Profiles \subseteq [Names -> Nat]
ASSUME DefaultsAssumption == Defaults \in [Sensor -> Thresholds]
ASSUME ScaleAssumption == Scale \in [Sensor -> Nat \ {0}]
ASSUME SensorEventsAssumption == Events = Sensor \X Kinds

VARIABLES
  thresh,   \* the thresholds in sdr_rec
  alarm,    \* host_state[].state
  filled,   \* whether sdr_rec holds the sensors
  saved     \* the thresholds in the Redfish file of each sensor that has one

sensorVars == <<pos, ticks, thresh, alarm, filled, saved>>
allVars == <<vars, sensorVars>>

SensorsInit ==
  /\ Init /\ ScanInit
  /\ thresh = Defaults
  /\ alarm = [s \in Sensor |-> "none"]
  /\ filled = TRUE
  /\ saved = [s \in {} |-> Defaults[s]]
----------------------------------------------------------------------------
(* d_nominal >= d_thresh + d_neg_hyst + d_neg_plus *)
High(t, r, edge) ==
  t # NotAvailable /\ (r > t + NegHyst + 1 \/ (edge /\ r = t + NegHyst + 1))
Low(t, r) == t # NotAvailable /\ r <= t

(* The chain of tests of check_event_occured; a reading of 0 is none.      *)
AlarmOf(t, r, edge) ==
  CASE r = 0                -> "none"
    [] High(t.uc, r, edge)  -> "UC"
    [] High(t.unc, r, edge) -> "UNC"
    [] Low(t.lc, r)         -> "LC"
    [] Low(t.lnc, r)        -> "LNC"
    [] OTHER                -> "none"

(* Definitions named ...Mutant are plausible mistakes in CheckEvent.       *)
CheckEventFirstMutant(s, r, edge) ==
  LET kind == AlarmOf(thresh[s], r, edge)
  IN  /\ alarm' = [alarm EXCEPT ![s] = kind]
      /\ IF kind # "none" /\ alarm[s] = "none" THEN InternalEvent(<<s, kind>>)
                                               ELSE UNCHANGED vars
CheckEventRefusedMutant(s, r, edge) ==
  LET kind == AlarmOf(thresh[s], r, edge)
  IN  IF kind # "none" /\ alarm[s] # kind
      THEN /\ InternalEvent(<<s, kind>>)
           /\ alarm' = IF IsFull(log) THEN alarm ELSE [alarm EXCEPT ![s] = kind]
      ELSE alarm' = [alarm EXCEPT ![s] = kind] /\ UNCHANGED vars
(* check_event_occured: only a change into an alarm is reported, and the   *)
(* change is noted whether or not the log took the event.                  *)
CheckEvent(s, r, edge) ==
  LET kind == AlarmOf(thresh[s], r, edge)
  IN  /\ alarm' = [alarm EXCEPT ![s] = kind]
      /\ IF kind # "none" /\ alarm[s] # kind THEN InternalEvent(<<s, kind>>)
                                             ELSE UNCHANGED vars

(* Every visit ends with redfish_seonsor_sync, which saves the sensor.      *)
VisitSensor(r, edge) ==
  /\ filled
  /\ Visit
  /\ IF CheckDue THEN CheckEvent(pos, r, edge) ELSE UNCHANGED <<alarm, vars>>
  /\ saved' = [s \in DOMAIN saved \cup {pos} |->
                 IF s = pos THEN thresh[pos] ELSE saved[s]]
  /\ UNCHANGED <<thresh, filled>>

(***************************************************************************)
(* sensor_set_threshold.  The loop compares the number with the first      *)
(* sensor of each inner map, which is always sensor 0; for any other one   *)
(* nothing is written and the completion code stays success.               *)
(***************************************************************************)
SensorSetThreshold(s, name, v) ==
  /\ filled
  /\ thresh' = IF s = 0 THEN [thresh EXCEPT ![s][name] = v] ELSE thresh
  /\ cc' = "success"
  /\ UNCHANGED <<log, file, rsvId, enabled, pos, ticks, alarm, filled, saved>>

(* The REST handler writes all thresholds of a sensor but those that are   *)
(* not available.                                                          *)
RestSetThresholds(s, t) ==
  /\ filled
  /\ thresh' = [thresh EXCEPT ![s] =
                  [n \in Names |-> IF @[n] = NotAvailable THEN @[n] ELSE t[n]]]
  /\ UNCHANGED <<vars, pos, ticks, alarm, filled, saved>>

(***************************************************************************)
(* storage_clear_sdr_repository.  Bound: it comes between two sweeps.  In  *)
(* the middle of one it leaves the sweep with a dangling iterator, and     *)
(* reading a sensor afterwards fills sdr_rec with an entry without a       *)
(* sensor; neither is followed further.                                    *)
(***************************************************************************)
ClearSdrRepository ==
  /\ filled /\ pos = 0
  /\ filled' = FALSE
  /\ cc' = "success"
  /\ UNCHANGED <<log, file, rsvId, enabled, pos, ticks, thresh, alarm, saved>>

(* Bound: of the clients of the log, the one that clears it; the others    *)
(* are in SelLog's own runs.                                               *)
ClearSel ==
  /\ \E rsv \in RsvMin .. RsvMax : StorageClrSel(rsv)
  /\ UNCHANGED sensorVars

(* A raw value of s, saved as what it is worth, read back as one of sensor *)
(* 0: sdr_convert_sensor_value_to_raw rounds half up and keeps a byte.     *)
ToFirst(s, v) == ((2 * v * Scale[s] + Scale[0]) \div (2 * Scale[0])) % 256

(***************************************************************************)
(* The thresholds record_load_json reads back, last from the file of s.    *)
(* The names in sdr_rec begin with "__", the ids in the files do not, so   *)
(* plat_find_sdr_name finds none and each file is loaded into sensor 0.    *)
(* A threshold that is not available, by the table or by a value that an   *)
(* earlier file brought, takes no other value.                             *)
(***************************************************************************)
ReadBack(s) ==
  [n \in Names |->
     IF Defaults[0][n] = NotAvailable
        \/ \E q \in DOMAIN saved : ToFirst(q, saved[q][n]) = NotAvailable
     THEN NotAvailable ELSE ToFirst(s, saved[s][n])]

(* Everything but sel.bin and the Redfish files starts anew.               *)
(* plat_ipmi_init fills sdr_rec from the tables, then record_load_json     *)
(* goes through the files in the order of a hash table.  (That it comes    *)
(* second is the main program's, which is not in the repository; coming    *)
(* first it would read an entry of the empty sdr_rec.)                     *)
SensorsRestart ==
  /\ Restart
  /\ pos' = 0 /\ ticks' = FirstTick
  /\ IF DOMAIN saved = {}
     THEN thresh' = Defaults
     ELSE \E s \in DOMAIN saved : thresh' = [Defaults EXCEPT ![0] = ReadBack(s)]
  /\ saved' = saved
  /\ alarm' = [s \in Sensor |-> "none"]
  /\ filled' = TRUE

SensorsNext ==
  \/ \E r \in Readings, edge \in BOOLEAN : VisitSensor(r, edge)
  \/ \E s \in Sensor, n \in SetNames, v \in Limits : SensorSetThreshold(s, n, v)
  \/ \E s \in Sensor, t \in Profiles : RestSetThresholds(s, t)
  \/ ClearSdrRepository
  \/ ClearSel
  \/ SensorsRestart

(* The monitor thread never stops; nothing else is promised to happen.     *)
SensorsSpec ==
  /\ SensorsInit /\ [][SensorsNext]_allVars
  /\ WF_allVars(\E r \in Readings, edge \in BOOLEAN : VisitSensor(r, edge))
----------------------------------------------------------------------------
(* Type correctness. *)
SensorsTypeOK ==
  /\ TypeOK
  /\ pos \in Sensor /\ ticks \in 0 .. FirstTick
  /\ thresh \in [Sensor -> Thresholds]
  /\ alarm \in [Sensor -> Kinds \cup {"none"}]
  /\ filled \in BOOLEAN
  /\ DOMAIN saved \subseteq Sensor
  /\ \A s \in DOMAIN saved : saved[s] \in Thresholds

(* Only sensors the sweep reaches are ever in alarm.                       *)
AlarmsAreReached == \A s \in Sensor : alarm[s] # "none" => s \in Reached

(* A change into an alarm that finds room in the log is the record written *)
(* next, of the kind the sensor is in now, also when the marker of a       *)
(* filling log follows it in the same step.                                *)
ChangeIsLogged ==
  [][\A s \in Sensor :
       /\ alarm'[s] \notin {alarm[s], "none"}
       /\ ~IsFull(log)
       => log'.data[log.end].event = <<s, alarm'[s]>>]_allVars

(* A reading above the limits of every sensor. *)
Excess(r) == \A s \in Sensor, e \in BOOLEAN : AlarmOf(thresh[s], r, e) = "UC"
StaysExcessive ==
  \/ \E r \in Readings, e \in BOOLEAN : Excess(r) /\ VisitSensor(r, e)
  \/ ClearSel

(* Sensors that read too high from some time on, their thresholds left     *)
(* alone, end up in the upper critical alarm and stay there, whatever      *)
(* alarm they were in before and whatever happens to the log.              *)
StandingAlarmIsNoted ==
  <>[]filled /\ <>[][StaysExcessive]_allVars =>
    \A s \in Reached : <>[](alarm[s] = "UC")

=============================================================================
