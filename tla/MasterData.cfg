SPECIFICATION Spec
CONSTANTS
  a1 = a1
  a2 = a2
  c1 = c1
  c2 = c2
  o1 = o1
  de = de
  en = en
  nX = nX
  nY = nY
  nB = nB
  tA = tA
  lA = lA
  lB = lB
  Labels = {lA, lB}
  Titles = {tA}
  Owners = {o1}
  Accounts = {a1, a2}
  Categories = {c1, c2}
  Names = {nX, nY, nB}
  Key <- MCKey
  Locales = {de, en}
  Seeds <- MCSeeds
  SeedName <- MCSeedName
  Migrations = 2
  IndexedBy = 2
  Requests = {r1, r2}
  MaxCrashes = 1
  NoRow = NoRow
  Idle = Idle
INVARIANTS TypeOK CategoryNamesUnique MigrationsOnce ServingIsSeeded StartupNeverRefused
PROPERTIES StartupKeepsRows StartupServes
