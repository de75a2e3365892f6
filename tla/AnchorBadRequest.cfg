CONSTANTS
  r1 = r1
  r2 = r2
  a = a
  b = b
  Requests = {r1, r2}
  Cases = {a, b}
  Zero = zero
  MaxLag = 0
  MaxOutages = 0
  MaxDrops = 0
  MaxFaults = 0
  MaxCrashes = 0
SPECIFICATION Spec
INVARIANT
  BadRequestIsARevert
CHECK_DEADLOCK FALSE
