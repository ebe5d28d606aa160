SPECIFICATION Spec
CONSTANTS
  a1 = a1
  home = home
  other = other
  s1 = s1
  h1 = h1
  Accounts = {a1}
  Categories = {home, other}
  Fallback = other
  Searches = {s1}
  RuleIds = {1}
  AnyAccount = AnyAccount
  NoRule = NoRule
  NoCategory = NoCategory
  Ids = {1}
  Hashes = {h1}
  RowForms <- McRowForms
  RuleForms <- McRuleForms
  Lines <- McLines
  Seeded = {home, other}
  MigratedRows <- McMigrated
  Editors = {e1}
  Previewers = {}
  Reappliers = {r1}
  NoHash = NoHash
  NoTx = NoTx
  Idle = Idle
PROPERTY ReapplicationPreserves
