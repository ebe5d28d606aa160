--------------------------- MODULE ImportProfiles ---------------------------
(***************************************************************************)
(* Import profiles: how a file is to be read.  A page shows a form, blank  *)
(* or filled from a stored profile; the form is submitted to store a       *)
(* profile, or with a file to read.                                        *)
(*                                                                         *)
(* A text is a sequence of symbols.                                        *)
(***************************************************************************)
EXTENDS Integers, SequencesExt, FiniteSetsExt

CONSTANTS
  Symbols,        \* what the names of profiles and columns are made of
  Space, Tab, Lf, Cr, Comma, Semicolon,  \* characters
  DefaultColumns, \* the names of columns in a blank form
  ProfileIds,     \* ids of profiles
  NoProfile,      \* a table has no row of that id, a page shows no profile
  NoColumn        \* an optional column that is not mapped

White == {Space, Tab, Lf, Cr}
Text == Seq(Symbols)

Required == {"date", "amount", "description"}
Fields == Required \cup {"payee", "purpose", "category"}

Delimiters == {Comma, Semicolon, Tab}
Encodings == {"utf8", "latin1"}
DateFormats == {"DD.MM.YY", "DD.MM.YYYY", "YYYY-MM-DD"}
DecimalFormats == {"comma-decimal", "dot-decimal"}

ASSUME CharactersAssumption ==
  Comma \notin White /\ Semicolon \notin White /\ Lf # Cr /\ Tab \notin {Lf, Cr}
ASSUME DefaultColumnsAssumption == DefaultColumns \in [Fields -> Text]
ASSUME NoColumnAssumption == NoColumn \notin Text

VARIABLES
  profiles,   \* import_profiles
  shown       \* the page in the browser: its form, and the id it carries

profileVars == <<profiles, shown>>

Inked(s) == {i \in DOMAIN s : s[i] \notin White}

\* What s is without white space around it.
Trimmed(s) ==
  IF Inked(s) = {} THEN <<>> ELSE SubSeq(s, Min(Inked(s)), Max(Inked(s)))

Column(text) == IF Inked(text) = {} THEN NoColumn ELSE Trimmed(text)

\* Every option of a form is a required text, so one that trims to nothing is missing.
DelimiterMissing(delimiter) == delimiter \in White

\* The texts of a form.
FormTexts(form) == form.name \in Text /\ form.columns \in [Fields -> Text]

FormRefused(form) ==
  \/ DelimiterMissing(form.delimiter) \/ form.delimiter \notin Delimiters
  \/ form.encoding \notin Encodings
  \/ form.dateFormat \notin DateFormats
  \/ form.decimalFormat \notin DecimalFormats
  \/ \E f \in Required : Inked(form.columns[f]) = {}

\* createProfile, for a form that is not refused.
Options(form) ==
  [delimiter |-> form.delimiter, encoding |-> form.encoding,
   dateFormat |-> form.dateFormat, decimalFormat |-> form.decimalFormat,
   columns |-> [f \in Fields |-> Column(form.columns[f])]]

Profile(form) == [name |-> Trimmed(form.name), options |-> Options(form)]

\* A row for which createImportProfile does not throw: a row that it rejects fails every
\* page that lists the profiles.
Readable(row) ==
  /\ row.name # <<>>
  /\ row.options.delimiter \in Delimiters
  /\ row.options.encoding \in Encodings
  /\ row.options.dateFormat \in DateFormats
  /\ row.options.decimalFormat \in DecimalFormats
  /\ \A f \in Required : row.options.columns[f] # NoColumn

BlankForm ==
  [name |-> <<>>, delimiter |-> Semicolon, encoding |-> "utf8",
   dateFormat |-> "DD.MM.YYYY", decimalFormat |-> "comma-decimal",
   columns |-> DefaultColumns]

BlankPage == [id |-> NoProfile, form |-> BlankForm]

Filled(row, columns) ==
  [name |-> row.name, delimiter |-> row.options.delimiter,
   encoding |-> row.options.encoding, dateFormat |-> row.options.dateFormat,
   decimalFormat |-> row.options.decimalFormat, columns |-> columns]

\* Fault: an optional column that is not mapped shows the default of a blank form.
FormOf_Default(row) ==
  Filled(row, [f \in Fields |-> IF row.options.columns[f] = NoColumn THEN DefaultColumns[f]
                                ELSE row.options.columns[f]])

FormOf(row) ==
  Filled(row, [f \in Fields |-> IF row.options.columns[f] = NoColumn THEN <<>>
                                ELSE row.options.columns[f]])

PageOf(p) == [id |-> p, form |-> FormOf(profiles[p])]

\* GET /imports/csv, without a profile or with one of the list.
ShowPage ==
  /\ shown' \in {BlankPage} \cup {PageOf(p) : p \in {q \in ProfileIds : profiles[q] # NoProfile}}
  /\ UNCHANGED profiles

\* The id a saved form is stored under: that of its page, or a new one.
Target(p) ==
  IF shown.id = NoProfile THEN profiles[p] = NoProfile ELSE p = shown.id

\* POST /imports/csv/profiles, and the page it redirects to.
SaveProfile(forms) ==
  /\ \E form \in forms \cup {shown.form}, p \in ProfileIds :
       /\ Target(p)
       /\ ~FormRefused(form) /\ Inked(form.name) # {}
       /\ shown.id # NoProfile => profiles[p] # NoProfile
       /\ profiles' = [profiles EXCEPT ![p] = Profile(form)]
       /\ shown' = [id |-> p, form |-> FormOf(Profile(form))]

\* The error page shows a blank form; so does one for a profile that is gone.
SaveProfileRefused(forms) ==
  /\ \/ \E form \in forms \cup {shown.form} : FormRefused(form) \/ Inked(form.name) = {}
     \/ shown.id # NoProfile /\ profiles[shown.id] = NoProfile
  /\ shown' = BlankPage
  /\ UNCHANGED profiles
=============================================================================
