CONSTANTS
  t1 = t1  t2 = t2  t3 = t3
  kA = kA  kB = kB  wA = wA  wB = wB
  NoKey = NoKey  NoWrap = NoWrap  NoThread = NoThread
  Threads <- ThreeThreads
  Keys <- TwoKeys
  Wraps <- TwoWraps
  KeyOf <- TwoKeysOf
  Scopes <- CallScopes
  MaxRenewals = 1
  MaxEpoch = 2
  MaxGen = 2
SPECIFICATION ScopedSpec
SYMMETRY ThreadSymmetry
CHECK_DEADLOCK FALSE
INVARIANTS TypeOK GuardHeld RestoreIsCurrent LockedStaysEmpty UnlockedStaysUsable RestoredKeyFits
PROPERTIES OnlyWipeDrops HardLockStaysWiped KeepsPromise
