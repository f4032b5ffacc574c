CONSTANTS
  Procs = {p1, p2}
  MaxFence = 3
  MaxLives = 2
SPECIFICATION Spec
INVARIANTS
  MutualExclusion
CHECK_DEADLOCK FALSE
