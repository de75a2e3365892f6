CONSTANTS
  MaxRetries = 2
  MaxUses = 1
  MaxFaults = 1
  Configured = TRUE
SPECIFICATION FairRouteSpec
INVARIANTS
  RecordsPointAtEvidence
  OnlyAnswersArePreserved
PROPERTIES
  EveryGetAnswered
CHECK_DEADLOCK FALSE
