SPECIFICATION FairSpec
CONSTANTS
  Calls = {c1, c2}
  QueueIds = {}
  MaxQueued = 4
  MaxSequence = 3
  MaxFaults = 3
INVARIANTS
  StoreFollowsLog
  CommittedOnlyDurably
  CompletionCanClose
  RunsCloseTheirTurn
PROPERTIES
  CompletionIsDelivered
