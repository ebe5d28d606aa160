SPECIFICATION Spec
CONSTANTS
  Logins = {l1}
  Callbacks = {c1}
  Lifetime = 1
  MaxTime = 1
  MaxRestores = 0
  NoTransaction = NoTransaction
  NoBackup = NoBackup
  Idle = Idle
PROPERTY ConsumedReachesExchange
