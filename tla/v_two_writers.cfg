SPECIFICATION StepsSpec
CONSTANTS
  RecordsMax = 3
  Events = {e1}
  FullMark = full
  ClearMark = cleared
  Blank = blank
  RsvMax = 1
  MaxBelow = 0
  StoreMayFail = FALSE
  Threads = {t1, t2}
  Ops = {"add"}
INVARIANT NeverPastCapacity
