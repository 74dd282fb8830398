SPECIFICATION SensorsSpec
CONSTANTS
  RecordsMax = 3
  Events <- MCEvents
  FullMark = full
  ClearMark = cleared
  Blank = blank
  RsvMax = 1
  MaxBelow = 0
  StoreMayFail = FALSE
  SensorCount = 2
  CheckGap = 1
  Readings = {0, 1, 6}
  Limits = {5}
  SetNames = {"uc", "lnc"}
  Profiles <- MCProfiles
  NotAvailable = 9
  NegHyst = 0
  Defaults <- MCDefaults
  Scale <- MCScale
INVARIANT SensorsTypeOK
PROPERTIES ChangeIsLogged StandingAlarmIsNoted
