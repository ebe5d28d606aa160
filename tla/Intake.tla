------------------------------- MODULE Intake -------------------------------
(***************************************************************************)
(* From an uploaded file to imported rows, for one account and one request *)
(* at a time: parsing, the duplicates of a preview, its confirmation, and  *)
(* later changes of the imported rows.  Import models what happens between *)
(* the statements of such requests when several run at once.               *)
(*                                                                         *)
(* A hash is its version and the text that was hashed.  v3 and v2 frame    *)
(* their fields, so the text is the tuple of them; v1 joins them.          *)
(***************************************************************************)
EXTENDS CsvParser

CONSTANTS
  Bar,          \* the character "|"
  Lower, Fold,  \* words in lower case; folded by NFKC and in lower case
  Scenarios,    \* situations of an account
  Files,        \* the files at hand in each, with the form to upload them with
  AsShown,      \* the form of the page in the browser
  Forms,        \* the forms a profile may be saved with in each
  StoredForms,  \* the forms that profiles of earlier releases were saved with in each
  Legacy,       \* the rows of the account in each, of earlier releases
  Purposes,     \* purposes a row may be edited to
  MaxChanges    \* bound on the edits and deletions of a behaviour

ASSUME FoldAssumption == \A w \in Words : Lower[w] \in Words /\ Fold[w] \in Words
ASSUME BarAssumption == Bar \in Words \ White /\ Lower[Bar] = Bar
ASSUME FilesAssumption == \A s \in Scenarios : \A file \in Files[s] : file.content \in Seq(Characters)
ASSUME FormsAssumption == \A s \in Scenarios : \A form \in Forms[s] : FormTexts(form)
\* Migration 12 stops at a profile that could not be read.
ASSUME StoredFormsAssumption ==
  \A s \in Scenarios, p \in ProfileIds : StoredForms[s][p] # NoProfile =>
    FormTexts(StoredForms[s][p]) /\ Readable(Profile(StoredForms[s][p]))
ASSUME MaxChangesAssumption == MaxChanges \in Nat

VARIABLES
  scenario,   \* the situation
  ledger,     \* rows of the account: hash, purpose, and history: the row as imported
  rows,       \* data rows of the parsed file
  outcomes,   \* outcomes of the preview
  confirmed,  \* history: uploads confirmed since the last deletion, and the last edit
              \* of a row of an earlier release
  changes     \* how many edits and deletions there were

vars == <<parserVars, profileVars, scenario, ledger, rows, outcomes, confirmed, changes>>

-----------------------------------------------------------------------------
(* Identity: core/imports/csv-import.ts.                                   *)

Mapping(s, f) == [i \in DOMAIN s |-> f[s[i]]]
LegacyText(s) == Mapping(Display(s), Lower)
ImportText(s) == Mapping(Display(s), Fold)

Historical(row) ==
  <<row.date, row.amount, ImportText(row.description), ImportText(row.payee)>>

\* Fault: the six fields are joined and not framed.
ImportHash_Joined(row) ==
  [version |-> "v3",
   text |-> <<row.date, row.amount, ImportText(row.description) \o <<Bar>> \o
              ImportText(row.payee) \o <<Bar>> \o ImportText(row.purpose)>>]

ImportHash(row) ==
  [version |-> "v3", text |-> <<row.date, row.amount, ImportText(row.description),
                                ImportText(row.payee), ImportText(row.purpose)>>]

SecondHash(row) == [version |-> "v2", text |-> Historical(row)]

LegacyHash(row) ==
  [version |-> "v1",
   text |-> <<row.date, row.amount,
              LegacyText(row.description) \o <<Bar>> \o LegacyText(row.payee)>>]

\* A row that was entered by hand has none.
NoHash == [version |-> "none", text |-> <<>>]

Candidates(row) == {ImportHash(row), SecondHash(row), LegacyHash(row)}

\* A row of the ledger that was entered, or imported by some release: the texts of an
\* imported row are displayed texts, and its hash is that of the row as imported.
Entered(identity) ==
  /\ identity = [hash |-> identity.hash, purpose |-> identity.purpose, row |-> identity.row]
  /\ identity.hash \in {NoHash} \cup Candidates(identity.row)
  /\ \A t \in {identity.row.description, identity.row.payee} :
       t \in Seq(Characters) /\ Display(t) = t

\* The table has a unique index on the hash.
Unique(identities) ==
  \A r, s \in identities : r.hash = s.hash /\ r.hash # NoHash => r = s

ASSUME LegacyAssumption ==
  \A s \in Scenarios : Unique(Legacy[s]) /\ \A identity \in Legacy[s] : Entered(identity)

\* Fault: the purpose is compared whatever the version of the hash.
MatchesPersisted_Purpose(row, identity) ==
  /\ identity.hash \in Candidates(row)
  /\ ImportText(identity.purpose) = ImportText(row.purpose)

\* Older hashes leave the purpose out: the persisted purpose, which an edit may have
\* changed, decides.
MatchesPersisted(row, identity) ==
  /\ identity.hash \in Candidates(row)
  /\ identity.hash.version = "v3" \/ ImportText(identity.purpose) = ImportText(row.purpose)

\* detectDuplicateImportRows, for the k-th row of a file and those that may be imported.
Duplicate(parsed, candidates, k) ==
  \/ \E identity \in ledger : MatchesPersisted(parsed[k], identity)
  \/ \E j \in candidates : j < k /\ ImportHash(parsed[j]) = ImportHash(parsed[k])

-----------------------------------------------------------------------------
DuplicateRow == [outcome |-> "duplicate", reason |-> "already-imported"]

\* The outcomes of a stored batch that a confirmation can read back (parseOutcome).
Readables ==
  [outcome : {"duplicate"}, reason : {"already-imported"}]
    \cup [outcome : {"ignored"}, reason : {"amount-not-negative"}]
    \cup [outcome : {"invalid"},
           reason : {"invalid-date", "invalid-amount", "missing-description"}]
    \cup [outcome : {"importable"}, reason : {"none"}]

\* The row of an importable outcome that it can read back (parseImportTransaction).
ReadableRow(row) ==
  /\ row.date # <<>> /\ row.description # <<>>
  /\ row.amount \in {<<Negative>>, <<Zero>>, <<Positive>>}

Accepted == {k \in DOMAIN outcomes : outcomes[k] = Importable}

TypeOK ==
  /\ phase \in {"idle", "refused", "scanning", "malformed", "parsed", "preview"}
  /\ scan.state \in {"plain", "quoted", "after-quote"}
  /\ scan.next \in 1..(Len(content) + 1)
  /\ \A p \in ProfileIds : profiles[p] # NoProfile => Readable(profiles[p])
  /\ shown.id \in ProfileIds \cup {NoProfile} /\ DOMAIN shown.form = DOMAIN BlankForm
  /\ changes \in 0..MaxChanges
  /\ Len(rows) = Len(outcomes)
  /\ \A k \in DOMAIN outcomes : outcomes[k] \in Readables
  /\ \A k \in Accepted : ReadableRow(rows[k])
  /\ Unique(ledger)

Init ==
  /\ scenario \in Scenarios /\ ledger = Legacy[scenario]
  /\ profiles = [p \in ProfileIds |-> IF StoredForms[scenario][p] = NoProfile THEN NoProfile
                                     ELSE Profile(StoredForms[scenario][p])]
  /\ shown \in {BlankPage} \cup {[id |-> p, form |-> BlankForm] :
                                  p \in {q \in ProfileIds : profiles[q] = NoProfile}}
  /\ content = <<>> /\ profile = <<>> /\ phase = "idle" /\ scan = Start
  /\ rows = <<>> /\ outcomes = <<>>
  /\ confirmed = {} /\ changes = 0

\* The page that answers an upload shows a blank form.
Upload ==
  /\ phase = "idle"
  /\ \E file \in Files[scenario] :
       Read(file.content, IF file.form = AsShown THEN shown.form ELSE file.form)
  /\ shown' = BlankPage
  /\ UNCHANGED <<profiles, scenario, ledger, rows, outcomes, confirmed, changes>>

others == <<profileVars, scenario, ledger, confirmed, changes>>

ScanStep == Scan /\ UNCHANGED <<others, rows, outcomes>>

Outcome(parsed, k) ==
  LET candidates == {j \in DOMAIN parsed : RowOutcome(parsed[j]) = Importable} IN
  IF k \in candidates /\ Duplicate(parsed, candidates, k) THEN DuplicateRow
  ELSE RowOutcome(parsed[k])

\* validateStructure, normalizeImportRow for every row, and prepareOutcomes.
Preview ==
  /\ phase = "parsed"
  /\ Structured(scan.records)
  /\ phase' = "preview"
  /\ LET parsed == RowsOf(profile.columns, scan.records) IN
       /\ rows' = parsed
       /\ outcomes' = [k \in DOMAIN parsed |-> Outcome(parsed, k)]
  /\ UNCHANGED <<others, content, profile, scan>>

StructureRefused ==
  /\ phase = "parsed"
  /\ ~Structured(scan.records)
  /\ phase' = "refused"
  /\ UNCHANGED <<others, content, profile, scan, rows, outcomes>>

Imported(row) == [hash |-> ImportHash(row), purpose |-> row.purpose, row |-> row]

\* The rows that this release imported.
Recent == {identity \in ledger : identity.hash.version = "v3"}

Leave ==
  /\ phase' = "idle" /\ content' = <<>> /\ profile' = <<>> /\ scan' = Start
  /\ rows' = <<>> /\ outcomes' = <<>>

\* A preview with an invalid row is not confirmed.
Confirm ==
  /\ phase = "preview"
  /\ \A k \in DOMAIN outcomes : outcomes[k] \in Readables /\ outcomes[k].outcome # "invalid"
  /\ \A k \in Accepted : ReadableRow(rows[k])
  /\ ledger' = ledger \cup {Imported(rows[k]) : k \in Accepted}
  /\ confirmed' = confirmed \cup {[content |-> content, profile |-> profile]}
  /\ Leave
  /\ UNCHANGED <<profileVars, scenario, changes>>

\* An error was shown, or a preview is left unconfirmed.
Abandon ==
  /\ phase \in {"refused", "malformed", "preview"}
  /\ Leave
  /\ UNCHANGED others

\* Bound: MaxChanges of them in a behaviour.
Change == phase = "idle" /\ changes < MaxChanges /\ changes' = changes + 1

\* The edit form changes the purpose and keeps the hash.
EditPurpose ==
  /\ Change
  /\ \E identity \in ledger, purpose \in Purposes :
       /\ ledger' = (ledger \ {identity}) \cup {[identity EXCEPT !.purpose = purpose]}
       /\ confirmed' = IF identity \in Recent THEN confirmed ELSE {}
  /\ UNCHANGED <<parserVars, profileVars, scenario, rows, outcomes>>

DeleteRow ==
  /\ Change
  /\ \E identity \in ledger : ledger' = ledger \ {identity}
  /\ confirmed' = {}
  /\ UNCHANGED <<parserVars, profileVars, scenario, rows, outcomes>>

\* Between uploads, profiles are shown and saved.
Profiles ==
  /\ phase = "idle"
  /\ ShowPage \/ SaveProfile(Forms[scenario]) \/ SaveProfileRefused(Forms[scenario])
  /\ UNCHANGED <<parserVars, scenario, ledger, rows, outcomes, confirmed, changes>>

Next ==
  \/ Profiles
  \/ Upload \/ ScanStep \/ Preview \/ StructureRefused \/ Confirm \/ Abandon
  \/ EditPurpose \/ DeleteRow

Spec == Init /\ [][Next]_vars
=============================================================================
