SPECIFICATION Spec
CONSTANTS
  Users = {u1}
  Accounts = {a1, a2}
  Contents = {c1}
  Oversized = {}
  BatchIds = {b1, b2}
  Previewers = {p1}
  Confirmers = {r1}
  Editors = {e1}
  Ttl = 1
  MaxTime = 0
  NoRow = NoRow
  NoBatch = NoBatch
  Idle = Idle
INVARIANT CanonicalAtMostOnce
