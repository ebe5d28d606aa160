SPECIFICATION Spec
CONSTANTS
  Sids = {1, 2}
  Requests = {r1, r2}
  Lifetime = 1
  Limit = 1
  MaxTime = 1
  NoSession = NoSession
  NoBackup = NoBackup
  Idle = Idle
SYMMETRY RequestSymmetry
INVARIANTS TypeOK LiveSessionsKept RestoredEmpty
PROPERTY ImplementsSessionsAbstract
