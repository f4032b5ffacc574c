SPECIFICATION FairQueueSpec
CONSTANTS
  Ids = {i1, i2, i3, i4}
  MaxPending = 2
  MaxUpsets = 1
INVARIANTS
  AnswersAreTrue
  FirstComeFirstServed
PROPERTIES
  AdmissionsSettle
