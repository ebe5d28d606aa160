SPECIFICATION Spec
CONSTANTS
  Users = {u1, u2}
  Accounts = {a1, a2}
  Contents = {c1, c2}
  Oversized = {c2}
  BatchIds = {b1, b2}
  Previewers = {p1}
  Confirmers = {r1, r2}
  Editors = {e1}
  Ttl = 1
  MaxTime = 1
  NoRow = NoRow
  NoBatch = NoBatch
  Idle = Idle
SYMMETRY RequestSymmetry
INVARIANTS TypeOK UniqueImportIdentity
PROPERTY ConsumedRightfully
