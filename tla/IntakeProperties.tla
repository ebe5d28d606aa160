------------------------- MODULE IntakeProperties -------------------------
(***************************************************************************)
(* What parsing and the recognition of imported rows promise, stated over  *)
(* whole texts and fields, next to Intake.                                 *)
(***************************************************************************)
EXTENDS Intake

-----------------------------------------------------------------------------
(* The records of a text, by the parity of the quotes before a position.   *)

Even(S) == Cardinality(S) % 2 = 0
Quotes(s) == {i \in DOMAIN s : s[i] = Quote}
Outside(s) == {i \in DOMAIN s : Even({j \in Quotes(s) : j < i})}

\* A line feed after a carriage return belongs to it.
Breaks(s) ==
  {i \in Outside(s) : /\ s[i] \in {Lf, Cr}
                      /\ ~(s[i] = Lf /\ i > 1 /\ s[i - 1] = Cr)}
Separators(s, delimiter) == Breaks(s) \cup {i \in Outside(s) : s[i] = delimiter}

\* Where the cell, or the record, that ends before position e begins.
After(s, cuts, e) ==
  LET before == {i \in cuts : i < e} IN
  IF before = {} THEN 1
  ELSE LET cut == Max(before) IN
       IF cut < Len(s) /\ s[cut] = Cr /\ s[cut + 1] = Lf THEN cut + 2 ELSE cut + 1

\* Where cells end, or records: a text that does not end with a line end goes on.
Ends(s, cuts, breaks) ==
  cuts \cup (IF After(s, breaks, Len(s) + 1) <= Len(s) THEN {Len(s) + 1} ELSE {})

CellAt(s, cuts, e) == SubSeq(s, After(s, cuts, e), e - 1)

\* Between the quotes around a cell, every quote is doubled.
Paired(inner) ==
  /\ Even(Quotes(inner))
  /\ \A i \in Quotes(inner) : i \in Outside(inner) => i + 1 \in Quotes(inner)

Unquoted(inner) ==
  Mapping(InOrder({i \in DOMAIN inner : i \notin Quotes(inner) \/ i \in Outside(inner)}), inner)

Inner(segment) == SubSeq(segment, 2, Len(segment) - 1)

\* A cell has no quote, or is enclosed in quotes.
WellFormed(segment) ==
  \/ Quotes(segment) = {}
  \/ /\ Len(segment) > 1 /\ segment[1] = Quote /\ segment[Len(segment)] = Quote
     /\ Paired(Inner(segment))

ValueOf(segment) ==
  IF Quotes(segment) = {} THEN segment ELSE Unquoted(Inner(segment))

\* The value of every cell of a text, by where the cell ends.
ValuesOf(s, delimiter) ==
  LET separators == Separators(s, delimiter) IN
  [e \in Ends(s, separators, Breaks(s)) |-> ValueOf(CellAt(s, separators, e))]

\* The record of every line of a text, by where the line ends.
LinesOf(s, delimiter) ==
  LET breaks == Breaks(s)
      values == ValuesOf(s, delimiter) IN
  [e \in Ends(s, breaks, breaks) |->
     Mapping(InOrder(DOMAIN values \cap (After(s, breaks, e)..e)), values)]

RecordsOf(s, delimiter) ==
  LET lines == LinesOf(s, delimiter) IN Mapping(InOrder(DOMAIN lines), lines)

\* A file is refused as malformed exactly when some cell of it is neither plain nor
\* properly quoted; otherwise its records are those that the line ends and delimiters
\* outside quotes make (parseDelimitedRecords).
ParsesQuotedText ==
  LET separators == Separators(content, profile.delimiter)
      wellFormed == \A e \in Ends(content, separators, Breaks(content)) :
                      WellFormed(CellAt(content, separators, e)) IN
  /\ phase = "malformed" => ~wellFormed
  /\ phase = "parsed" =>
       wellFormed /\ scan.records = RecordsOf(content, profile.delimiter)

-----------------------------------------------------------------------------
(* Outcomes.                                                               *)

Wrong(row) ==
  {reason \in {"invalid-date", "invalid-amount", "missing-description"} :
     \/ reason = "invalid-date" /\ row.date # <<DateWord>>
     \/ reason = "invalid-amount" /\ row.amount \notin {<<Negative>>, <<Zero>>, <<Positive>>}
     \/ reason = "missing-description" /\ row.description = <<>>}

\* A row with anything wrong is invalid, for something that is wrong with it, and is
\* never passed over as an income: one invalid row keeps a file from being confirmed
\* (normalizeImportRow, FF-CSV-004).
InvalidRowsAreTold ==
  phase = "preview" => \A k \in DOMAIN rows :
    IF Wrong(rows[k]) # {} THEN outcomes[k] \in {Invalid(reason) : reason \in Wrong(rows[k])}
    ELSE outcomes[k] \in (IF rows[k].amount = <<Negative>>
                          THEN {Importable, DuplicateRow} ELSE {Ignored})

SameBut(row, other) ==
  /\ row.date = other.date /\ row.amount = other.amount
  /\ ImportText(row.description) = ImportText(other.description)
  /\ ImportText(row.payee) = ImportText(other.payee)

Same(row, other) == SameBut(row, other) /\ ImportText(row.purpose) = ImportText(other.purpose)

\* v1 knew no NFKC, and did not keep description and payee apart.
SameLegacy(row, other) ==
  /\ row.date = other.date /\ row.amount = other.amount
  /\ LegacyText(row.description \o <<Bar>> \o row.payee) =
       LegacyText(other.description \o <<Bar>> \o other.payee)

Explains(identity, row) ==
  /\ CASE identity.hash.version = "v3" -> Same(row, identity.row)
       [] identity.hash.version = "v2" -> SameBut(row, identity.row)
       [] identity.hash.version = "v1" -> SameLegacy(row, identity.row)
       [] identity.hash.version = "none" -> FALSE
  /\ identity.hash.version = "v3" \/ ImportText(identity.purpose) = ImportText(row.purpose)

\* A row is a duplicate exactly when the account or an earlier row of the file has it:
\* the same six fields, for rows of earlier releases the fields their version hashed
\* and the purpose they have now (detectDuplicateImportRows, FF-CSV-012).
DuplicatesExact ==
  phase = "preview" => \A k \in DOMAIN rows :
    outcomes[k] \in {Importable, DuplicateRow} =>
      (outcomes[k] = DuplicateRow <=>
         \/ \E identity \in ledger : Explains(identity, rows[k])
         \/ \E j \in 1..(k - 1) : /\ outcomes[j] \in {Importable, DuplicateRow}
                                  /\ Same(rows[j], rows[k]))

\* A file that was confirmed has nothing to import when it is uploaded again, also after
\* purposes of its rows were edited, as long as no row was deleted and no row of an
\* earlier release, whose hash leaves the purpose out, was edited
\* (matchesPersistedIdentity).
ReimportAddsNothing ==
  /\ phase = "preview"
  /\ [content |-> content, profile |-> profile] \in confirmed
  => Accepted = {}

\* A stored profile, shown by the upload page and submitted as shown, is accepted,
\* unless its delimiter is the tab, and is never read as another profile than the
\* one stored, optional columns included, whether it is to be saved or to read a file
\* with (FF-CSV-001-AC01).  That the tab should be accepted as well is not asserted:
\* readDelimiter takes it for missing.
ProfilesReload ==
  \A p \in ProfileIds : profiles[p] # NoProfile =>
    LET form == FormOf(profiles[p]) IN
      /\ profiles[p].options.delimiter # Tab => ~FormRefused(form)
      /\ ~FormRefused(form) => Profile(form) = profiles[p]

-----------------------------------------------------------------------------
(* The inductive invariants.                                               *)

\* A row as a form that was not refused leaves it: its texts are trimmed, and the form
\* that shows it has all required columns.
Kept(row) ==
  /\ Readable(row)
  /\ FormTexts(FormOf(row))
  /\ Profile(FormOf(row)) = row
  /\ \A f \in Required : Inked(FormOf(row).columns[f]) # {}

ProfilesInv ==
  /\ scenario \in Scenarios
  /\ FormTexts(shown.form)
  /\ \A p \in ProfileIds : profiles[p] # NoProfile => Kept(profiles[p])

\* The position and the texts of the automaton.
ScanInv ==
  /\ content \in Seq(Characters)
  /\ scan \in [state : {"plain", "quoted", "after-quote"}, next : 1..(Len(content) + 1),
               cell : Seq(Characters), record : Seq(Seq(Characters)),
               records : Seq(Seq(Seq(Characters)))]

\* As long as a preview is shown, nothing it was made of changes.
PreviewInv ==
  IF phase = "preview"
  THEN /\ Structured(scan.records) /\ rows = RowsOf(profile.columns, scan.records)
       /\ outcomes = [k \in DOMAIN rows |-> Outcome(rows, k)]
  ELSE rows = <<>> /\ outcomes = <<>>

\* The page shows a form, and as many changes were made as may be.
PageInv ==
  /\ phase \in {"idle", "refused", "scanning", "malformed", "parsed", "preview"}
  /\ shown.id \in ProfileIds \cup {NoProfile} /\ DOMAIN shown.form = DOMAIN BlankForm
  /\ changes \in 0..MaxChanges

\* What the table has of a row does not change, and no two rows have the same hash.
LedgerInv == Unique(ledger) /\ \A identity \in ledger : Entered(identity)

\* The rows that may be imported, whatever the formats of the profile.
Sound(parsed) ==
  {k \in DOMAIN parsed : Wrong(parsed[k]) = {} /\ parsed[k].amount = <<Negative>>}

\* What was importable in a confirmed file is a duplicate when it is read again.
ConfirmedInv ==
  \A upload \in confirmed :
    LET parsed == RowsOf(upload.profile.columns,
                         RecordsOf(upload.content, upload.profile.delimiter)) IN
    \A k \in Sound(parsed) : Duplicate(parsed, Sound(parsed), k)

\* What the automaton, in the state `at`, has of the cell at its position in s.
InCell(s, delimiter, at) ==
  LET p == at.next
      cell == After(s, Separators(s, delimiter), p)
      inner(end) == SubSeq(s, cell + 1, end) IN
  /\ at.state = "quoted" <=> ~Even({i \in Quotes(s) : i < p})
  /\ at.state = "plain" => at.cell = SubSeq(s, cell, p - 1) /\ Quotes(at.cell) = {}
  /\ at.state = "quoted" =>
       /\ cell < p /\ s[cell] = Quote
       /\ Paired(inner(p - 1)) /\ at.cell = Unquoted(inner(p - 1))
  /\ at.state = "after-quote" =>
       /\ cell + 1 < p /\ s[cell] = Quote /\ s[p - 1] = Quote
       /\ Paired(inner(p - 2)) /\ at.cell = Unquoted(inner(p - 2))
       /\ p <= Len(s) => s[p] # Quote

\* What it has of the record of that cell, and of the records before.
InFile(s, delimiter, at) ==
  LET p == at.next
      separators == Separators(s, delimiter)
      cell == After(s, separators, p)
      record == After(s, Breaks(s), p) IN
  /\ record <= cell /\ cell <= p
  /\ at.record = Mapping(InOrder(separators \cap (record..(p - 1))), ValuesOf(s, delimiter))
  /\ at.record = <<>> => record = cell
  /\ \A e \in separators : e < p => WellFormed(CellAt(s, separators, e))
  /\ at.records = Mapping(InOrder({e \in Breaks(s) : e < p}), LinesOf(s, delimiter))

GrammarInv ==
  phase = "scanning" =>
    /\ profile.delimiter \in Delimiters
    /\ InCell(content, profile.delimiter, scan) /\ InFile(content, profile.delimiter, scan)

\* The records stay as long as the preview is made of them.
ParsedInv ==
  phase \in {"parsed", "preview"} => scan.records = RecordsOf(content, profile.delimiter)
=============================================================================
