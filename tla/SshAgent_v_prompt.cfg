CONSTANTS
  c1 = c1  c2 = c2  git = git  k1 = k1
  Nobody = Nobody  None = None
  Conns <- TwoConns
  Peers <- OnePeer
  Keys <- OneKey
  MaxPrompts = 2
  MaxLocks = 1
  Scopes <- WaitScope
SPECIFICATION ScopedSpec
SYMMETRY ConnSymmetry
INVARIANT OneUnlockPrompt
