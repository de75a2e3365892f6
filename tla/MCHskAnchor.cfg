CONSTANTS
  r1 = r1
  r2 = r2
  a = a
  b = b
  Requests = {r1, r2}
  Cases = {a, b}
  Zero = zero
  MaxLag = 1
  MaxOutages = 1
  MaxDrops = 1
  MaxFaults = 1
  MaxCrashes = 1
SPECIFICATION FairSpec
INVARIANTS
  TypeOK
  FirstAnswerAnchoredTheRoot
PROPERTIES
  KeepsAnchorPromise
  EveryPostAnswered
CHECK_DEADLOCK FALSE
