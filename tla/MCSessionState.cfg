SPECIFICATION StateSpec
CONSTANTS
  Calls = {c1, c2}
  QueueIds = {q1, q2, q3}
  MaxQueued = 2
  MaxSequence = 3
SYMMETRY Symmetry
INVARIANTS
  PendingOnlyInTurn
  UncertainFollowsPrior
PROPERTIES
  CommittedTipSurvives
