CONSTANTS
  t1 = t1  t2 = t2  t3 = t3
  kA = kA  kB = kB  wA = wA  wB = wB
  NoKey = NoKey  NoWrap = NoWrap  NoThread = NoThread
  Threads <- TwoThreads
  Keys <- TwoKeys
  Wraps <- TwoWraps
  KeyOf <- TwoKeysOf
  Scopes <- ForeignScope
  MaxRenewals = 1
  MaxEpoch = 2
  MaxGen = 2
SPECIFICATION ScopedSpec
CHECK_DEADLOCK FALSE
INVARIANT RestoreKeyFits
