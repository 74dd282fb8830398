SPECIFICATION MCSpec
CONSTANTS
  Parts = {"sessions"}
  MaxSessions = 3
  NumMax = 2
  Timeout = 1
  Width = 2
  MaxRecords = 1
  Leftover = {2}
  Channels = {1, 6}
  Eth1 = 1
  Nics = {1, 6}
  Addresses = {"a"}
  Masks = {"mask"}
  Zero = "0.0.0.0"
  Broadcast = "255.255.255.255"
  Contiguous <- MCContiguous
  Requests <- MCRequests
  FilePresent = TRUE
PROPERTY EndsOnlyWhenDue
