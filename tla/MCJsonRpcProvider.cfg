CONSTANTS
  MaxRetries = 2
  MaxUses = 5
SPECIFICATION FairSpec
INVARIANTS
  TypeOK
  AcquireAnswersAsExpected
  DegradedMeansNoReceipt
  NothingFromAnotherChain
  CircuitTakesThreeUses
PROPERTIES
  EveryUseEnds
CHECK_DEADLOCK FALSE
