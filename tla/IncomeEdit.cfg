SPECIFICATION Spec
CONSTANTS
  o1 = o1
  o2 = o2
  a1 = a1
  a2 = a2
  c1 = c1
  c2 = c2
  t1 = t1
  t2 = t2
  p1 = p1
  v1 = v1
  v2 = v2
  Owners = {o1, o2}
  PlanIds = {p1}
  OverrideIds = {v1, v2}
  PlanForms <- MCPlanForms
  OverrideForms <- MCOverrideForms
  s1 = s1
  s2 = s2
  Savers = {s1, s2}
  MaxColumn = 500
  NoEnd = NoEnd
  NoRow = NoRow
  Idle = Idle
  MaxSafe = 1000
  Accounts = {a1, a2}
  Categories = {c1, c2}
  TxIds = {t1, t2}
  TxForms <- MCTxForms
  Pages = {g1}
  Filters <- MCFilters
  Queries <- MCQueries
  Headers <- MCHeaders
  Today <- MCToday
  StartDatabases <- MCStartDatabases
  MaxWrites = 2
  NoFilter = NoFilter
  Unread = Unread
PROPERTY EditRoundTrips
