SPECIFICATION MCSpec
CONSTANTS
  RecordsMax = 3
  Events = {e1, e2}
  FullMark = full
  ClearMark = cleared
  Blank = blank
  RsvMax = 1
  MaxBelow = 2
  MaxHandled = 6
  MaxCalls = 4
  StoreMayFail = TRUE
  Threads = {t1}
  Ops = {"add", "delete", "erase"}
SYMMETRY Interchangeable
INVARIANTS AckedDurable InterruptedAsOneStep
PROPERTIES ReturnsAsOneStep
