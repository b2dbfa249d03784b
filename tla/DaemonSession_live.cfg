CONSTANTS
  c1 = c1  c2 = c2  Dog = Dog  None = None
  Clients <- OneClient
  Scopes <- LiveScopes
  IdleMax = 0
  SessionMax = 1
  MaxStrikes = 2
  MaxSuspends = 1
SPECIFICATION ScopedFairSpec
PROPERTIES CeilingHoldsUnlocked SuspendWipes ReasonsLock
