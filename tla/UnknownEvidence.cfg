CONSTANTS
  MaxRetries = 0
  MaxUses = 1
SPECIFICATION Spec
INVARIANT UnknownMeansAbsent
CHECK_DEADLOCK FALSE
