SPECIFICATION Spec
CONSTANTS
  Calls = {c1, c2}
  QueueIds = {}
  MaxQueued = 4
  MaxSequence = 0
  MaxSteps = 2
  MaxParallel = 2
  MaxFaults = 0
INVARIANTS
  ClosedTurnHasNoCalls
