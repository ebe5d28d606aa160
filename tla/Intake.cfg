SPECIFICATION Spec
CONSTANTS
  Symbols <- MCSymbols
  Quote = Quote
  Space = Space
  Tab = Tab
  Lf = Lf
  Cr = Cr
  Control = Control
  BadByte = BadByte
  DateWord = DateWord
  NotGregorian = NotGregorian
  Negative = Negative
  Zero = Zero
  Positive = Positive
  Unsafe = Unsafe
  NoColumn = NoColumn
  Bar = Bar
  Comma = Comma
  Semicolon = Semicolon
  DefaultColumns <- MCDefaultColumns
  ProfileIds = {p1, p2}
  NoProfile = NoProfile
  AsShown = AsShown
  Forms <- MCForms
  StoredForms <- MCStoredForms
  p1 = p1
  p2 = p2
  settings = settings
  date = date
  amount = amount
  text = text
  payee = payee
  purpose = purpose
  a = a
  A = A
  f = f
  scraps = scraps
  statements = statements
  Words <- MCWords
  MaxBytes = 50
  MaxRows = 3
  Lower <- MCLower
  Fold <- MCFold
  Scenarios = {scraps, statements, settings}
  Files <- MCFiles
  Legacy <- MCLegacy
  MaxChanges = 1
  Purposes <- MCPurposes
INVARIANTS TypeOK ParsesQuotedText InvalidRowsAreTold DuplicatesExact ReimportAddsNothing ProfilesReload
