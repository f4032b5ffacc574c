SPECIFICATION FairSpec
CONSTANTS
  Procs = {p1, p2}
  MaxFence = 3
  MaxLives = 3
INVARIANTS
  ExclusiveUnlessStolen
PROPERTIES
  ImplementsLease
  DeadOwnerCleared
CHECK_DEADLOCK FALSE
