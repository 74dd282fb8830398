SPECIFICATION Spec
CONSTANTS
  RecordsMax = 4
  Events = {e1, e2}
  FullMark = full
  ClearMark = cleared
  Blank = blank
  RsvMax = 2
  MaxBelow = 3
  StoreMayFail = FALSE
INVARIANTS TypeOK CapacityKept FileMirrorsLog
PROPERTIES IdsStable DeleteRenumbers FullMarkOnFilling NegativeUntilCleared ImplementsEventLog DeleteRemovesGiven
