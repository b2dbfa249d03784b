CONSTANTS
  c1 = c1  c2 = c2  Dog = Dog  None = None
  Clients <- OneClient
  Scopes <- LockScope
  IdleMax = 0
  SessionMax = 1
  MaxStrikes = 3
  MaxSuspends = 0
SPECIFICATION ScopedFairSpec
PROPERTY CeilingHolds
