CONSTANTS
  Cases = {c1, c2}
  MaxFaults = 0
  MaxCrashes = 0
SPECIFICATION Spec
INVARIANT AcquisitionNeverRaises
CHECK_DEADLOCK FALSE
