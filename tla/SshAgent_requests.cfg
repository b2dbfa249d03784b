CONSTANTS
  c1 = c1  c2 = c2  git = git  k1 = k1
  Nobody = Nobody  None = None
  Conns <- TwoConns
  Peers <- OnePeer
  Keys <- OneKey
  MaxPrompts = 2
  MaxLocks = 1
  Scopes <- AgentScopes
SPECIFICATION ScopedSpec
SYMMETRY ConnSymmetry
INVARIANTS TypeOK SignedWithConsent FreshKey PromptsMatchRequests UnlockPromptOwned NotifiedOnce
