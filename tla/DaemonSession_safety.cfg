CONSTANTS
  c1 = c1  c2 = c2  Dog = Dog  None = None
  Clients <- TwoClients
  Scopes <- SafetyScopes
  IdleMax = 0
  SessionMax = 0
  MaxStrikes = 3
  MaxSuspends = 1
SPECIFICATION ScopedSpec
SYMMETRY ClientSymmetry
INVARIANTS TypeOK OnePrompt ThreeStrikes
