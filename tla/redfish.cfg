SPECIFICATION MCSpec
CONSTANTS
  Parts = {"sessions", "media", "log", "file", "threads"}
  MaxSessions = 2
  NumMax = 2
  Timeout = 2
  Width = 3
  MaxRecords = 1
  Leftover = {2}
  Channels = {1, 6}
  Eth1 = 1
  Nics = {1, 6}
  Addresses = {"a"}
  Masks = {"mask"}
  Zero = "0.0.0.0"
  Broadcast = "255.255.255.255"
  Contiguous <- MCContiguous
  Requests <- MCRequests
  FilePresent = TRUE
INVARIANTS OpenSessions MediaNumbered CountFollowsEntries FileIsRecent
PROPERTIES EverySessionEnds OnlyCutRemovalsReturn SaveMatchesRegistry NextSettingWakes
