SPECIFICATION FairSpec
CONSTANTS
  Users = {u1}
  Accounts = {a1}
  Contents = {c1, c2}
  Oversized = {}
  BatchIds = {b1, b2}
  Previewers = {p1}
  Confirmers = {r1, r2}
  Editors = {e1}
  Ttl = 1
  MaxTime = 0
  NoRow = NoRow
  NoBatch = NoBatch
  Idle = Idle
INVARIANTS RowsOnlyFromConsumedBatches NothingLost
PROPERTIES ConfirmationIsAtomic ImplementsImportAbstract ConfirmationsEnd
