SPECIFICATION Spec
CONSTANTS
  Calls = {c1}
  QueueIds = {}
  MaxQueued = 4
  MaxSequence = 2
  MaxFaults = 1
INVARIANTS
  StartupSucceeds
