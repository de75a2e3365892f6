CONSTANTS
  t1 = t1
  t2 = t2
  w = w
  v = v
  n1 = n1
  n2 = n2
  k1 = k1
  k2 = k2
  Threads = {t1, t2}
  Wallets = {w, v}
  Forged = nobody
  Nonces = {n1, n2}
  Tokens = {k1, k2}
  ChallengeTTL = 1
  SessionTTL = 2
  MaxTime = 3
  MaxCalls = 4
SYMMETRY Symmetry
SPECIFICATION Spec
INVARIANTS
  TypeOK
  ChallengeSingleUse
  SessionsBelongToSigners
  NothingExpiredAccepted
  NothingUnexpiredLost
CHECK_DEADLOCK FALSE
