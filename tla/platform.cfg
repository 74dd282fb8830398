SPECIFICATION MCSpec
CONSTANTS
  SensorCount = 4
  CheckGap = 4
  Clients = {c1, c2}
  Records = 2
  RsvMax = 5
  Byte = 4
  FilterMax = 3
  Configs = {"on", "off"}
  Rests = {"r", "s"}
  Controls = {"b"}
INVARIANTS ChecksAreReached SdrWalkComplete FiltersReadBack
PROPERTIES ReachedAreChecked SdrWalkEnds
