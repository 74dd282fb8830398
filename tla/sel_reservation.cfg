SPECIFICATION ResSpec
CONSTANTS
  RecordsMax = 3
  Events = {e1}
  FullMark = full
  ClearMark = cleared
  Blank = blank
  RsvMax = 3
  MaxBelow = 0
  StoreMayFail = FALSE
  Clients = {c1, c2, c3}
SYMMETRY Interchangeable
INVARIANTS HoldersDiffer LatestCanClear
PROPERTIES OnlyLatestClears
