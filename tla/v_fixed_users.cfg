SPECIFICATION MCSpec
CONSTANTS
  NumMax = 2
  MaxUser = 4
  Names = {"root", "admin", "ann", "bob"}
  NoName = ""
  Privs = {4}
  Threads = {w1, w2}
  MaxRequests = 3
  MaxStops = 1
SYMMETRY MCSymmetry
INVARIANT FixedUsersStay
