SPECIFICATION FairSpec
CONSTANTS
  Logins = {l1}
  Callbacks = {c1, c2}
  Lifetime = 1
  MaxTime = 2
  MaxRestores = 1
  NoTransaction = NoTransaction
  NoBackup = NoBackup
  Idle = Idle
INVARIANTS TypeOK SingleUse FreshOnly
PROPERTY CallbacksAnswered
