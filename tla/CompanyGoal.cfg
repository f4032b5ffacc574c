SPECIFICATION FairSpec
CONSTANTS
  scout = scout
  lead = lead
  worker = worker
  build = build
  review = review
  NoParent = NoParent
  Assignments = {scout, lead, worker, build, review}
  Implementers = {build}
  Reviewers = {review}
  DependsOn <- MCDependsOn
  ParentOf <- MCParentOf
  MaxStarts = 5
  MaxConcurrent = 2
  MaxUpsets = 2
INVARIANTS
  WorkStartsOnce
  OutcomesAreTrue
  BudgetCoversWork
PROPERTY GoalsAreResolved
CHECK_DEADLOCK FALSE
