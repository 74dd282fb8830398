---------------------------- MODULE SensorsProofs ----------------------------
(***************************************************************************)
(* Proofs about SensorScan and Sensors: which sensors a sweep can check at *)
(* all, for any number of sensors and any check period, alone and with the *)
(* log, its clients and restarts around it.                                *)
(***************************************************************************)
EXTENDS Sensors, SelLogProofs

(* A multiple of d that is not negative is a multiple in the sense of      *)
(* Divides.                                                                *)
LEMMA MultipleDivides ==
  ASSUME NEW d \in Nat, d >= 1, NEW k \in Int, NEW x \in Nat, x = d * k
  PROVE  Divides(d, x)
<1>1. k >= 0
  <2>1. ASSUME k < 0 PROVE FALSE
    <3>1. d * k <= 1 * k
      BY <2>1
    <3>. QED BY <2>1, <3>1
  <2>. QED BY <2>1
<1>2. 1 * k <= d * k
  BY <1>1
<1>. QED BY <1>1, <1>2 DEF Divides

(* The inductive invariant: apart from the first visit after a start, the  *)
(* sweep is ahead of the counter by one, modulo every common divisor.      *)
ScanInv ==
  /\ pos \in Sensor
  /\ \/ pos = 0 /\ ticks = FirstTick
     \/ /\ ticks \in 0 .. CheckGap + 1
        /\ \A d \in CommonDivisors : \E q \in Int : pos = ticks + 1 + d * q

LEMMA CommonDivisorFacts ==
  ASSUME NEW d \in CommonDivisors
  PROVE  /\ d \in Nat /\ d >= 1
         /\ \E k \in Int : SensorCount = d * k
         /\ \E p \in Int : Period = d * p
<1>1. d \in 1 .. SensorCount /\ Divides(d, SensorCount) /\ Divides(d, Period)
  BY DEF CommonDivisors
<1>2. PICK k \in 0 .. SensorCount : SensorCount = d * k
  BY <1>1 DEF Divides
<1>3. PICK p \in 0 .. Period : Period = d * p
  BY <1>1 DEF Divides
<1>4. k \in Int /\ p \in Int
  BY <1>2, <1>3, SensorCountAssumption, CheckGapAssumption DEF Period
<1>5. d \in Nat /\ d >= 1
  BY <1>1, SensorCountAssumption
<1>. QED BY <1>2, <1>3, <1>4, <1>5

LEMMA ScanInvInit == ScanInit => ScanInv
BY SensorCountAssumption DEF ScanInit, ScanInv, Sensor

LEMMA ScanInvReaches == ScanInv => ChecksAreReached
<1>. SUFFICES ASSUME ScanInv, CheckDue, NEW d \in CommonDivisors PROVE Divides(d, pos)
  BY DEF ChecksAreReached, Reached, ScanInv
<1>1. pos \in Nat /\ d \in Nat /\ d >= 1
  BY SensorCountAssumption, CommonDivisorFacts DEF ScanInv, Sensor
<1>2. CASE pos = 0
  BY <1>1, <1>2 DEF Divides
<1>3. CASE pos # 0
  <2>1. ticks = CheckGap + 1
    BY <1>3, CheckGapAssumption DEF ScanInv, CheckDue
  <2>2. PICK q \in Int : pos = ticks + 1 + d * q
    BY <1>3 DEF ScanInv
  <2>3. PICK p \in Int : Period = d * p
    BY CommonDivisorFacts
  <2>4. pos = d * p + d * q
    BY <2>1, <2>2, <2>3, CheckGapAssumption DEF Period
  <2>5. pos = d * (p + q)
    BY <1>1, <2>4
  <2>. QED BY <1>1, <2>5, MultipleDivides
<1>. QED BY <1>2, <1>3

LEMMA ScanInvVisit == ScanInv /\ Visit => ScanInv'
<1>. SUFFICES ASSUME ScanInv, Visit PROVE ScanInv'
  OBVIOUS
<1>1. pos \in 0 .. SensorCount - 1 /\ pos' \in Sensor
  BY SensorCountAssumption DEF ScanInv, Visit, Sensor
<1>2. ticks' \in 0 .. CheckGap + 1
  BY CheckGapAssumption DEF ScanInv, Visit, CheckDue, FirstTick
<1>3. ASSUME NEW d \in CommonDivisors
      PROVE  \E q \in Int : pos' = ticks' + 1 + d * q
  <2>1. d \in Nat /\ d >= 1
    BY CommonDivisorFacts
  <2>2. PICK k \in Int : SensorCount = d * k
    BY CommonDivisorFacts
  <2>3. PICK p \in Int : Period = d * p
    BY CommonDivisorFacts
  (* Without the wrap of the sweep. *)
  <2>4. \E q \in Int : pos + 1 = ticks' + 1 + d * q
    <3>1. CASE pos = 0 /\ ticks = FirstTick
      <4>1. ticks' = 0
        BY <3>1, CheckGapAssumption DEF Visit, CheckDue, FirstTick
      <4>2. pos + 1 = ticks' + 1 + d * 0
        BY <2>1, <3>1, <4>1
      <4>. QED BY <4>2
    <3>2. CASE ticks \in 0 .. CheckGap + 1 /\ \E q \in Int : pos = ticks + 1 + d * q
      <4>1. PICK q \in Int : pos = ticks + 1 + d * q
        BY <3>2
      <4>2. CASE CheckDue
        <5>1. ticks = CheckGap + 1 /\ ticks' = 0
          BY <3>2, <4>2, CheckGapAssumption DEF Visit, CheckDue
        <5>2. pos = d * p + d * q
          BY <4>1, <5>1, <2>3, CheckGapAssumption DEF Period
        <5>3. d * p + d * q = d * (p + q)
          BY <2>1
        <5>4. pos + 1 = ticks' + 1 + d * (p + q)
          BY <5>1, <5>2, <5>3
        <5>. QED BY <5>4
      <4>3. CASE ~CheckDue
        <5>1. ticks' = ticks + 1
          BY <4>3 DEF Visit
        <5>2. d * q \in Int
          BY <2>1
        <5>3. pos + 1 = ticks' + 1 + d * q
          BY <3>2, <4>1, <5>1, <5>2
        <5>. QED BY <5>3
      <4>. QED BY <4>2, <4>3
    <3>. QED BY <3>1, <3>2 DEF ScanInv
  <2>5. PICK q \in Int : pos + 1 = ticks' + 1 + d * q
    BY <2>4
  <2>6. CASE pos = SensorCount - 1
    <3>1. pos' = 0
      BY <2>6 DEF Visit
    <3>2. d * q \in Int /\ d * k \in Int /\ d * (q - k) = d * q - d * k
      BY <2>1
    <3>3. d * k = ticks' + 1 + d * q
      BY <2>2, <2>5, <2>6, SensorCountAssumption
    <3>4. 0 = ticks' + 1 + d * (q - k)
      BY <1>2, <3>2, <3>3
    <3>. QED BY <3>1, <3>4
  <2>7. CASE pos # SensorCount - 1
    <3>1. pos' = pos + 1
      BY <2>7 DEF Visit
    <3>. QED BY <2>5, <3>1
  <2>. QED BY <2>6, <2>7
<1>. QED
  <2>1. \A d \in CommonDivisors' : \E q \in Int : pos' = ticks' + 1 + d * q
    BY <1>3 DEF CommonDivisors, Divides, Period
  <2>. QED BY <1>1, <1>2, <2>1 DEF ScanInv, CommonDivisors, Sensor, Period, Divides

(* For any number of sensors and any period: a check falls only on sensors *)
(* whose index every common divisor of the two divides.  With 30 sensors   *)
(* and a period of 62 visits these are the even ones, so half of the       *)
(* sensors never raise an alarm.                                           *)
THEOREM ScanReaches == ScanSpec => []ChecksAreReached
<1>1. ScanInv /\ [Visit]_scanVars => ScanInv'
  <2>1. ScanInv /\ UNCHANGED scanVars => ScanInv'
    BY DEF ScanInv, scanVars, CommonDivisors, Sensor, Period, Divides
  <2>. QED BY <2>1, ScanInvVisit
<1>. QED BY <1>1, ScanInvInit, ScanInvReaches, PTL DEF ScanSpec
----------------------------------------------------------------------------
(* The monitor among its clients, with the log and with restarts.          *)

AlarmStates == Kinds \cup {"none"}

(* The inductive invariant: of the log, from which nothing is deleted      *)
(* here, of the sweep, and of the table of alarms, which needs the sweep's *)
(* to stay within the reached sensors.                                     *)
SInv ==
  /\ IInv
  /\ log.end >= 0 /\ file.end >= 0
  /\ ScanInv
  /\ thresh \in [Sensor -> Thresholds]
  /\ alarm \in [Sensor -> AlarmStates]
  /\ filled \in BOOLEAN
  /\ DOMAIN saved \subseteq Sensor
  /\ \A s \in DOMAIN saved : saved[s] \in Thresholds
  /\ AlarmsAreReached

LEMMA SInvImplies == SInv => SensorsTypeOK
<1>. SUFFICES ASSUME SInv PROVE SensorsTypeOK
  OBVIOUS
<1>1. TypeOK
  BY InvImplies DEF SInv
<1>2. pos \in Sensor /\ ticks \in 0 .. FirstTick
  BY CheckGapAssumption DEF SInv, ScanInv, FirstTick
<1>. QED BY <1>1, <1>2 DEF SInv, SensorsTypeOK, AlarmStates

LEMMA SInvInit == SensorsInit => SInv
<1>. SUFFICES ASSUME SensorsInit PROVE SInv
  OBVIOUS
<1>1. IInv /\ ScanInv
  BY InitInv, ScanInvInit DEF SensorsInit
<1>2. AlarmsAreReached
  BY DEF SensorsInit, AlarmsAreReached
<1>3. log.end >= 0 /\ file.end >= 0
  BY DEF SensorsInit, Init, BlankLog, SelIndexMin
<1>4. DOMAIN saved = {}
  BY DEF SensorsInit
<1>. QED BY <1>1, <1>2, <1>3, <1>4, DefaultsAssumption DEF SensorsInit, SInv, AlarmStates

LEMMA AlarmOfType ==
  ASSUME NEW t, NEW r, NEW edge
  PROVE  AlarmOf(t, r, edge) \in AlarmStates
BY DEF AlarmOf, AlarmStates, Kinds

LEMMA LogUntouched ==
  ASSUME IInv, log.end >= 0, file.end >= 0, UNCHANGED vars
  PROVE  IInv' /\ log'.end >= 0 /\ file'.end >= 0
BY DEF IInv, vars

(* What happens to the log here: events and clears.                        *)
LEMMA AddKeepsEnd ==
  ASSUME IInv, log.end >= 0, file.end >= 0, NEW ev \in Events, InternalEvent(ev)
  PROVE  IInv' /\ log'.end >= 0 /\ file'.end >= 0
<1>1. IInv'
  BY NextInv DEF Next
<1>2. PICK o \in AddEntry(log, file, ev) : log' = o.log /\ file' = o.file
  BY DEF InternalEvent
<1>3. Extends(log, file, o)
  BY <1>2, AddEntryKeeps DEF IInv, Payloads
<1>4. log.end \in Int /\ file.end \in Int /\ log'.end \in Int /\ file'.end \in Int
  BY <1>1, RecordsMaxAssumption, MaxBelowAssumption DEF IInv, BoundedLogs
<1>. QED BY <1>1, <1>2, <1>3, <1>4 DEF Extends

LEMMA ClearKeepsEnd ==
  ASSUME IInv, log.end >= 0, file.end >= 0, NEW rsv \in 0 .. RsvMax, StorageClrSel(rsv)
  PROVE  IInv' /\ log'.end >= 0 /\ file'.end >= 0
<1>1. IInv'
  BY NextInv DEF Next
<1>2. log \in BoundedLogs /\ file \in BoundedLogs
  BY DEF IInv
<1>3. log.end \in Int /\ file.end \in Int /\ log'.end \in Int /\ file'.end \in Int
  BY <1>1, RecordsMaxAssumption, MaxBelowAssumption DEF IInv, BoundedLogs
<1>4. ASSUME NEW o \in EraseAll(log, file), log' = o.log, file' = o.file
      PROVE  log'.end >= 0 /\ file'.end >= 0
  <2>1. Emptied(log) \in BoundedLogs /\ Emptied(log).end = 0
    BY <1>2, EmptiedType
  <2>2. CASE o = [log |-> Emptied(log), file |-> file, ok |-> FALSE, kept |-> FALSE]
    BY <1>4, <2>1, <2>2
  <2>3. ASSUME NEW h \in {file, HdrWritten(file, Emptied(log))} \cap BoundedLogs,
               NEW p \in AddEntry(Emptied(log), h, ClearMark), o = [p EXCEPT !.ok = TRUE]
        PROVE  log'.end >= 0 /\ file'.end >= 0
    <3>1. Extends(Emptied(log), h, p)
      BY <2>1, <2>3, AddEntryKeeps DEF Payloads
    <3>2. h.end >= 0
      BY <1>2, <2>1, <2>3 DEF HdrWritten, BoundedLogs
    <3>3. p \in Added
      BY <2>1, <2>3, AddEntryType DEF Payloads
    <3>4. o.log = p.log /\ o.file = p.file
      BY <2>3, <3>3 DEF Added
    <3>5. p.log.end >= 0 /\ (p.file.end = h.end \/ p.file.end > 0)
      BY <2>1, <3>1 DEF Extends
    <3>. QED BY <1>3, <1>4, <3>2, <3>4, <3>5
  <2>. QED BY <1>2, <2>2, <2>3, EraseAllCases
<1>. QED BY <1>1, <1>4 DEF StorageClrSel

LEMMA CheckEventInv ==
  ASSUME SInv, NEW r, NEW edge, CheckDue, CheckEvent(pos, r, edge)
  PROVE  /\ IInv' /\ log'.end >= 0 /\ file'.end >= 0
         /\ alarm' \in [Sensor -> AlarmStates]
         /\ AlarmsAreReached'
<1> DEFINE kind == AlarmOf(thresh[pos], r, edge)
<1>1. kind \in AlarmStates
  BY AlarmOfType
<1>2. pos \in Sensor /\ pos \in Reached
  BY ScanInvReaches DEF SInv, ScanInv, ChecksAreReached
<1>3. alarm' = [alarm EXCEPT ![pos] = kind]
  BY DEF CheckEvent
<1>4. IInv' /\ log'.end >= 0 /\ file'.end >= 0
  <2>1. CASE kind # "none" /\ alarm[pos] # kind
    <3>1. <<pos, kind>> \in Events
      BY <1>1, <1>2, <2>1, SensorEventsAssumption DEF AlarmStates
    <3>2. InternalEvent(<<pos, kind>>)
      BY <2>1 DEF CheckEvent
    <3>. QED BY <3>1, <3>2, AddKeepsEnd DEF SInv
  <2>2. CASE ~(kind # "none" /\ alarm[pos] # kind)
    BY <2>2, LogUntouched DEF CheckEvent, SInv
  <2>. QED BY <2>1, <2>2
<1>. HIDE DEF kind
<1>5. alarm' \in [Sensor -> AlarmStates]
  BY <1>1, <1>3 DEF SInv
<1>6. \A s \in Sensor : alarm'[s] # "none" => s \in Reached
  BY <1>2, <1>3 DEF SInv, AlarmsAreReached
<1>7. AlarmsAreReached'
  BY <1>6 DEF AlarmsAreReached, Reached, CommonDivisors, Sensor, Period, Divides
<1>. QED BY <1>4, <1>5, <1>7

(* A step that leaves the sweep and the alarms alone. *)
LEMMA SweepUntouched ==
  ASSUME SInv, UNCHANGED <<pos, ticks, alarm>>
  PROVE  ScanInv' /\ AlarmsAreReached' /\ alarm' \in [Sensor -> AlarmStates]
BY DEF SInv, ScanInv, AlarmsAreReached, Reached, CommonDivisors, Sensor, Period, Divides

(* What the restart reads back is a table of thresholds. *)
LEMMA ReadBackType ==
  ASSUME NEW s \in Sensor, DOMAIN saved \subseteq Sensor, s \in DOMAIN saved,
         \A q \in DOMAIN saved : saved[q] \in Thresholds
  PROVE  ReadBack(s) \in Thresholds
<1>1. 0 \in Sensor /\ Scale[0] \in Nat \ {0} /\ Scale[s] \in Nat
  BY SensorCountAssumption, ScaleAssumption DEF Sensor
<1>2. ASSUME NEW v \in Nat PROVE ToFirst(s, v) \in Nat
  <2> DEFINE num == 2 * v * Scale[s] + Scale[0]
             den == 2 * Scale[0]
  <2>1. num \in Nat /\ den \in Nat /\ den > 0
    BY <1>1
  <2>. HIDE DEF num, den
  <2>2. num \div den \in Int
    BY <2>1
  <2>3. (num \div den) % 256 \in Nat
    BY <2>2
  <2>. QED BY <2>3 DEF ToFirst, num, den
<1>3. \A n \in Names : saved[s][n] \in Nat
  BY DEF Thresholds
<1>4. \A n \in Names : ReadBack(s)[n] \in Nat
  BY <1>2, <1>3, ReadingsAssumption DEF ReadBack
<1>. QED BY <1>4 DEF ReadBack, Thresholds

LEMMA SInvNext == SInv /\ [SensorsNext]_allVars => SInv'
<1>. SUFFICES ASSUME SInv, [SensorsNext]_allVars PROVE SInv'
  OBVIOUS
<1>1. ASSUME NEW r \in Readings, NEW edge \in BOOLEAN, VisitSensor(r, edge)
      PROVE  SInv'
  <2>1. ScanInv'
    BY <1>1, ScanInvVisit DEF VisitSensor, SInv
  <2>2. DOMAIN saved' \subseteq Sensor /\ \A s \in DOMAIN saved' : saved'[s] \in Thresholds
    <3>1. saved' = [s \in DOMAIN saved \cup {pos} |->
                      IF s = pos THEN thresh[pos] ELSE saved[s]]
      BY <1>1 DEF VisitSensor
    <3>2. pos \in Sensor /\ thresh[pos] \in Thresholds
      BY DEF SInv, ScanInv
    <3>. QED BY <3>1, <3>2 DEF SInv
  <2>3. CASE CheckDue
    <3>1. /\ IInv' /\ log'.end >= 0 /\ file'.end >= 0
          /\ alarm' \in [Sensor -> AlarmStates] /\ AlarmsAreReached'
      BY <1>1, <2>3, CheckEventInv DEF VisitSensor
    <3>. QED BY <1>1, <2>1, <2>2, <3>1 DEF VisitSensor, SInv
  <2>4. CASE ~CheckDue
    <3>1. UNCHANGED vars /\ alarm' = alarm
      BY <1>1, <2>4 DEF VisitSensor
    <3>2. IInv' /\ log'.end >= 0 /\ file'.end >= 0
      BY <3>1, LogUntouched DEF SInv
    <3>3. AlarmsAreReached'
      BY <3>1 DEF SInv, AlarmsAreReached, Reached, CommonDivisors, Sensor, Period, Divides
    <3>. QED BY <1>1, <2>1, <2>2, <3>1, <3>2, <3>3 DEF VisitSensor, SInv
  <2>. QED BY <2>3, <2>4
<1>2. ASSUME NEW s \in Sensor, NEW n \in SetNames, NEW v \in Limits,
             SensorSetThreshold(s, n, v)
      PROVE  SInv'
  <2>1. n \in Names /\ v \in Nat
    BY ReadingsAssumption, ProfilesAssumption
  <2>2. thresh' \in [Sensor -> Thresholds]
    BY <1>2, <2>1 DEF SensorSetThreshold, SInv, Thresholds
  <2>3. IInv' /\ log' = log /\ file' = file
    BY <1>2 DEF SensorSetThreshold, SInv, IInv
  <2>. QED BY <1>2, <2>2, <2>3, SweepUntouched DEF SensorSetThreshold, SInv
<1>3. ASSUME NEW s \in Sensor, NEW t \in Profiles, RestSetThresholds(s, t)
      PROVE  SInv'
  <2>1. thresh[s] \in [Names -> Nat] /\ t \in [Names -> Nat]
    BY ProfilesAssumption DEF SInv, Thresholds
  <2>2. [n \in Names |-> IF thresh[s][n] = NotAvailable THEN thresh[s][n] ELSE t[n]]
          \in Thresholds
    BY <2>1 DEF Thresholds
  <2>3. thresh' \in [Sensor -> Thresholds]
    BY <1>3, <2>2 DEF RestSetThresholds, SInv
  <2>4. IInv' /\ log'.end >= 0 /\ file'.end >= 0
    BY <1>3, LogUntouched DEF RestSetThresholds, SInv
  <2>. QED BY <1>3, <2>3, <2>4, SweepUntouched DEF RestSetThresholds, SInv
<1>4. CASE ClearSdrRepository
  <2>1. IInv' /\ log' = log /\ file' = file
    BY <1>4 DEF ClearSdrRepository, SInv, IInv
  <2>. QED BY <1>4, <2>1, SweepUntouched DEF ClearSdrRepository, SInv
<1>5. CASE ClearSel
  <2>1. IInv' /\ log'.end >= 0 /\ file'.end >= 0
    <3>1. PICK rsv \in RsvMin .. RsvMax : StorageClrSel(rsv)
      BY <1>5 DEF ClearSel
    <3>2. rsv \in 0 .. RsvMax
      BY RsvMaxAssumption DEF RsvMin
    <3>. QED BY <3>1, <3>2, ClearKeepsEnd DEF SInv
  <2>2. UNCHANGED <<pos, ticks, alarm>> /\ UNCHANGED <<thresh, filled, saved>>
    BY <1>5 DEF ClearSel, sensorVars
  <2>. QED BY <2>1, <2>2, SweepUntouched DEF SInv
<1>6. CASE SensorsRestart
  <2>1. IInv' /\ log' = file /\ file' = file
    BY <1>6, NextInv DEF SensorsRestart, SInv, Next, Restart
  <2>2. ScanInv'
    BY <1>6, SensorCountAssumption
    DEF SensorsRestart, ScanInv, Sensor, FirstTick
  <2>3. AlarmsAreReached'
    BY <1>6 DEF SensorsRestart, AlarmsAreReached, Sensor
  <2>4. thresh' \in [Sensor -> Thresholds]
    <3>1. CASE thresh' = Defaults
      BY <3>1, DefaultsAssumption
    <3>2. ASSUME NEW s \in DOMAIN saved, thresh' = [Defaults EXCEPT ![0] = ReadBack(s)]
          PROVE  thresh' \in [Sensor -> Thresholds]
      BY <3>2, DefaultsAssumption, ReadBackType DEF SInv
    <3>. QED BY <1>6, <3>1, <3>2 DEF SensorsRestart
  <2>. QED
    BY <1>6, <2>1, <2>2, <2>3, <2>4 DEF SensorsRestart, SInv, AlarmStates
<1>7. CASE UNCHANGED allVars
  <2>1. UNCHANGED vars /\ UNCHANGED sensorVars
    BY <1>7 DEF allVars
  <2>2. IInv' /\ log'.end >= 0 /\ file'.end >= 0
    BY <2>1, LogUntouched DEF SInv
  <2>. QED BY <2>1, <2>2, SweepUntouched DEF sensorVars, SInv
<1>. QED BY <1>1, <1>2, <1>3, <1>4, <1>5, <1>6, <1>7 DEF SensorsNext

(* The log, the sweep, the thresholds and the alarms stay within their     *)
(* types, whatever is read, set, cleared and restarted.                    *)
THEOREM SensorsTypeCorrect == SensorsSpec => []SensorsTypeOK
BY SInvInit, SInvNext, SInvImplies, PTL DEF SensorsSpec

(* No sensor outside the reached ones is ever in alarm, whatever it reads, *)
(* for any number of sensors and any check period.                         *)
THEOREM OnlyReachedAlarm == SensorsSpec => []AlarmsAreReached
<1>1. SInv => AlarmsAreReached
  BY DEF SInv
<1>. QED BY <1>1, SInvInit, SInvNext, PTL DEF SensorsSpec

LEMMA StepLogsChange ==
  ASSUME SInv, [SensorsNext]_allVars, NEW s \in Sensor,
         alarm'[s] \notin {alarm[s], "none"}, ~IsFull(log)
  PROVE  log'.data[log.end].event = <<s, alarm'[s]>>
<1>1. ASSUME NEW r \in Readings, NEW edge \in BOOLEAN, VisitSensor(r, edge)
      PROVE  log'.data[log.end].event = <<s, alarm'[s]>>
  <2> DEFINE kind == AlarmOf(thresh[pos], r, edge)
  <2>1. CheckEvent(pos, r, edge) /\ CheckDue
    BY <1>1 DEF VisitSensor
  <2>2. pos \in Reached /\ kind \in AlarmStates
    BY <2>1, ScanInvReaches, AlarmOfType DEF SInv, ChecksAreReached
  <2>3. alarm' = [alarm EXCEPT ![pos] = kind]
    BY <2>1 DEF CheckEvent
  <2>4. /\ kind # "none" /\ alarm[pos] # kind => InternalEvent(<<pos, kind>>)
        /\ pos \in Sensor
    BY <2>1 DEF CheckEvent, SInv, ScanInv
  <2>. HIDE DEF kind
  <2>5. s = pos /\ alarm'[s] = kind /\ kind # "none" /\ alarm[pos] # kind
    BY <2>3, <2>4 DEF SInv
  <2>6. <<pos, kind>> \in Events
    BY <2>2, <2>4, <2>5, SensorEventsAssumption DEF AlarmStates
  <2>7. PICK o \in AddEntry(log, file, <<pos, kind>>) : log' = o.log
    BY <2>4, <2>5 DEF InternalEvent
  <2>8. Written(log, <<pos, kind>>, o)
    BY <2>6, <2>7, AddEntryWrites DEF SInv, IInv, Payloads
  <2>. QED BY <2>5, <2>7, <2>8 DEF Written
<1>2. CASE SensorsRestart
  BY <1>2 DEF SensorsRestart
<1>3. CASE alarm' = alarm
  BY <1>3
<1>. QED
  BY <1>1, <1>2, <1>3
  DEF SensorsNext, SensorSetThreshold, RestSetThresholds, ClearSdrRepository,
      ClearSel, allVars, sensorVars

(* A change into an alarm that finds room is the record written next, for  *)
(* any sensors, thresholds and readings, also where the store of it fails  *)
(* and where the marker of a full log follows it.                          *)
THEOREM ChangesAreLogged == SensorsSpec => ChangeIsLogged
<1>1. SInv /\ [SensorsNext]_allVars =>
        [\A s \in Sensor :
           /\ alarm'[s] \notin {alarm[s], "none"}
           /\ ~IsFull(log)
           => log'.data[log.end].event = <<s, alarm'[s]>>]_allVars
  BY StepLogsChange
<1>. QED BY <1>1, SInvInit, SInvNext, PTL DEF SensorsSpec, ChangeIsLogged
=============================================================================
