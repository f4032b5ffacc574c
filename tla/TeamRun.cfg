SPECIFICATION FairSpec
CONSTANTS
  Tasks = 2
  InitialReviewers = 2
  FirstReviewers = 2
  MaxReviewers = 3
  MaxRepairs = 1
  MaxChildren = 10
  MaxClaims = 2
  MaxCrashes = 2
  MaxFaults = 1
INVARIANTS
  ApprovedIsExact
  CandidateWasReviewed
  ApprovalIsUnanimous
  CancelledNeverApplies
  ReadyCandidateKept
  NeverStarved
PROPERTIES
  RunsComeToRest
