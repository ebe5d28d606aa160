SPECIFICATION Spec
CONSTANTS
  a1 = a1
  home = home
  other = other
  s1 = s1
  h1 = h1
  Accounts = {a1}
  Categories = {home, other}
  Fallback = other
  Searches = {s1}
  RuleIds = {1, 2}
  AnyAccount = AnyAccount
  NoRule = NoRule
  NoCategory = NoCategory
  Ids = {1}
  Hashes = {h1}
  RowForms <- McRowForms
  RuleForms <- McRuleForms
  Lines <- McLines
  Seeded = {other}
  MigratedRows <- McMigrated
  Editors = {e1}
  Previewers = {p1}
  Reappliers = {r1}
  NoHash = NoHash
  NoTx = NoTx
  Idle = Idle
INVARIANTS TypeOK OriginTruthful IdentityKept
PROPERTIES PreviewAgrees ReapplicationExact
