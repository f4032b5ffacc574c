SPECIFICATION FairSpec
CONSTANTS
  Procs = {p1, p2}
  MaxLines = 2
  MaxFaults = 2
INVARIANTS
  AlwaysReadable
  AcknowledgedSurvive
  NoLostUpdate
PROPERTIES
  TornTailRepaired
