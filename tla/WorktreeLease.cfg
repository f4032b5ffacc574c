SPECIFICATION FairSpec
CONSTANTS
  Process = {p1, p2, p3}
  NoRecord = NoRecord
  MaxDepth = 4
  MaxFaults = 2
  MaxLeases = 2
INVARIANTS
  HolderIsOwner
  ActiveWorktreeStays
  LeftoversAreOwned
  MovedWorkIsKept
PROPERTIES
  DeadLeasesAreRecovered
CHECK_DEADLOCK FALSE
