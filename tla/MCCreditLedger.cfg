CONSTANTS
  t1 = t1
  t2 = t2
  p = p
  q = q
  w = w
  v = v
  Threads = {t1, t2}
  Wallets = {w, v}
  Payments = {p, q}
  Packs = {2}
  NoThread = nobody
  MaxOps = 4
SPECIFICATION FairSpec
INVARIANTS
  TypeOK
  CreditsConserved
  SnapshotsConsistent
PROPERTIES
  LockIsReleased
  KeepsAtomicLedger
CHECK_DEADLOCK FALSE
