SPECIFICATION FairSpec
CONSTANTS
  Calls = {c1, c2, c3}
  QueueIds = {}
  MaxQueued = 4
  MaxSequence = 0
  MaxSteps = 2
  MaxParallel = 2
  MaxFaults = 2
INVARIANTS
  RequestsAreComplete
  EffectsArePending
  RunsCloseTheirTurn
  StartupSucceeds
PROPERTIES
  RunsEnd
  StartedTurnIsRecovered
