SPECIFICATION ReadersSpec
CONSTANTS
  RecordsMax = 3
  Events = {e1}
  FullMark = full
  ClearMark = cleared
  Blank = blank
  RsvMax = 1
  MaxBelow = 2
  StoreMayFail = FALSE
  Readers = {r1}
  ListFits = 2
PROPERTIES WalkComplete ListPrefix WalksEnd
