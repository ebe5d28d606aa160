----------------------------- MODULE CsvParser -----------------------------
(***************************************************************************)
(* Reading a CSV file for a profile: what an upload is refused for, the    *)
(* automaton that splits the text into records one character at a time,    *)
(* the structure a file must have, and the outcome of each data row.       *)
(*                                                                         *)
(* The symbols of a text are the characters the automaton tells apart, and *)
(* the words a cell is made of (a date or an amount in the format of the   *)
(* profile is one word).                                                   *)
(***************************************************************************)
EXTENDS ImportProfiles

CONSTANTS
  Quote,                       \* the character '"'
  Control,                     \* a binary control character
  BadByte,                     \* a byte that is no UTF-8
  DateWord, NotGregorian,      \* a date of the format; one that does not exist
  Negative, Zero, Positive, Unsafe,  \* amounts of the format; beyond the safe integers
  Words,                       \* other words
  MaxBytes, MaxRows            \* limits on a file, 5 MiB and 10,000

\* What a file is made of.
Characters ==
  Words \cup White \cup {Quote, Comma, Semicolon, Control, BadByte, DateWord, NotGregorian,
                        Negative, Zero, Positive, Unsafe}

ASSUME QuoteAssumption == Quote \notin White \cup Delimiters
ASSUME AmountsAssumption == Unsafe \notin {Negative, Zero, Positive}
ASSUME LimitsAssumption == MaxBytes \in Nat /\ MaxRows \in Nat

VARIABLES
  content,   \* the text of the file
  profile,   \* the options of the upload
  phase,     \* how far the upload has come
  scan       \* the state of the automaton

parserVars == <<content, profile, phase, scan>>

Start == [state |-> "plain", next |-> 1, cell |-> <<>>, record |-> <<>>, records |-> <<>>]

-----------------------------------------------------------------------------
(* The upload: createPreviewImportProfile, readRequiredFile, decodeCsvFile.*)

\* The numbers of a finite set, from the smallest to the largest.
InOrder(S) ==
  [k \in 1..Cardinality(S) |-> CHOOSE x \in S : Cardinality({y \in S : y <= x}) = k]

\* normalizeDisplayText: white space inside becomes one space.
Display(s) ==
  LET t == Trimmed(s)
      kept == InOrder({i \in DOMAIN t : i \in Inked(t) \/ i - 1 \in Inked(t)}) IN
  [k \in DOMAIN kept |-> IF t[kept[k]] \in White THEN Space ELSE t[kept[k]]]

NotUtf8(file, encoding) == encoding = "utf8" /\ Contains(file, BadByte)

Binary(file) == Contains(file, Control)

Refused(file, form) ==
  \/ FormRefused(form)
  \/ Len(file) = 0 \/ Len(file) > MaxBytes
  \/ NotUtf8(file, form.encoding)
  \/ Binary(file)

Read(file, form) ==
  /\ content' = file
  /\ profile' = Options(form)
  /\ phase' = IF Refused(file, form) THEN "refused" ELSE "scanning"
  /\ scan' = Start

-----------------------------------------------------------------------------
(* The automaton: parseDelimitedRecords.                                   *)

Scanning == phase = "scanning" /\ scan.next <= Len(content)
Current == content[scan.next]
Follows(symbol) == scan.next < Len(content) /\ content[scan.next + 1] = symbol

Keep(symbol) == [scan EXCEPT !.cell = Append(@, symbol), !.next = @ + 1]

EscapedQuote ==
  /\ Scanning
  /\ scan.state = "quoted" /\ Current = Quote /\ Follows(Quote)
  /\ scan' = [Keep(Quote) EXCEPT !.next = @ + 1]
  /\ UNCHANGED <<content, profile, phase>>

CloseQuote ==
  /\ Scanning
  /\ scan.state = "quoted" /\ Current = Quote /\ ~Follows(Quote)
  /\ scan' = [scan EXCEPT !.state = "after-quote", !.next = @ + 1]
  /\ UNCHANGED <<content, profile, phase>>

QuotedCharacter ==
  /\ Scanning
  /\ scan.state = "quoted" /\ Current # Quote
  /\ scan' = Keep(Current)
  /\ UNCHANGED <<content, profile, phase>>

OpenQuote ==
  /\ Scanning
  /\ scan.state = "plain" /\ Current = Quote /\ scan.cell = <<>>
  /\ scan' = [scan EXCEPT !.state = "quoted", !.next = @ + 1]
  /\ UNCHANGED <<content, profile, phase>>

AtDelimiter == Current = profile.delimiter
AtLineEnd == Current \in {Lf, Cr}

MalformedQuote ==
  /\ Scanning
  /\ \/ scan.state = "plain" /\ Current = Quote /\ scan.cell # <<>>
     \/ scan.state = "after-quote" /\ ~AtDelimiter /\ ~AtLineEnd
  /\ phase' = "malformed"
  /\ UNCHANGED <<content, profile, scan>>

EndCell ==
  /\ Scanning
  /\ scan.state # "quoted" /\ AtDelimiter
  /\ scan' = [scan EXCEPT !.record = Append(@, scan.cell), !.cell = <<>>,
                          !.state = "plain", !.next = @ + 1]
  /\ UNCHANGED <<content, profile, phase>>

\* Fault: a carriage return is taken to have a line feed after it.
LineEndLength_Pair == IF Current = Cr THEN 2 ELSE 1

\* Fault: a carriage return and a line feed are two line ends.
LineEndLength_Two == 1

LineEndLength == IF Current = Cr /\ Follows(Lf) THEN 2 ELSE 1

EndRecord ==
  /\ Scanning
  /\ scan.state # "quoted" /\ AtLineEnd
  /\ scan' = [Start EXCEPT !.next = scan.next + LineEndLength,
                           !.records = Append(scan.records, Append(scan.record, scan.cell))]
  /\ UNCHANGED <<content, profile, phase>>

PlainCharacter ==
  /\ Scanning
  /\ scan.state = "plain" /\ Current # Quote /\ ~AtDelimiter /\ ~AtLineEnd
  /\ scan' = Keep(Current)
  /\ UNCHANGED <<content, profile, phase>>

\* The last record may end without a line end.
EndOfFile ==
  /\ phase = "scanning" /\ scan.next > Len(content)
  /\ IF scan.state = "quoted" THEN phase' = "malformed" /\ UNCHANGED scan
     ELSE /\ phase' = "parsed"
          /\ scan' = IF scan.cell = <<>> /\ scan.record = <<>> /\ scan.state = "plain"
                     THEN scan
                     ELSE [scan EXCEPT !.records = Append(@, Append(scan.record, scan.cell))]
  /\ UNCHANGED <<content, profile>>

Scan ==
  \/ EscapedQuote \/ CloseQuote \/ QuotedCharacter \/ OpenQuote \/ MalformedQuote
  \/ EndCell \/ EndRecord \/ PlainCharacter \/ EndOfFile

-----------------------------------------------------------------------------
(* The structure of a file, and its data rows.                             *)

Positions(headers, name) == {i \in DOMAIN headers : Trimmed(headers[i]) = name}

Mapped(columns) == {f \in DOMAIN columns : columns[f] # NoColumn}

Structured(records) ==
  /\ records # <<>>
  /\ \E i \in DOMAIN records[1] : Trimmed(records[1][i]) # <<>>
  /\ Len(records) - 1 <= MaxRows
  /\ \A k \in DOMAIN records : Len(records[k]) = Len(records[1])
  /\ \A f \in Mapped(profile.columns) : Positions(records[1], profile.columns[f]) # {}

\* The cell of a field in a row; the first column of a name counts.
CellOf(columns, headers, row, f) ==
  IF f \notin Mapped(columns) THEN <<>> ELSE row[Min(Positions(headers, columns[f]))]

NormalizedRow(columns, headers, row) ==
  [date |-> Trimmed(CellOf(columns, headers, row, "date")),
   amount |-> Trimmed(CellOf(columns, headers, row, "amount")),
   description |-> Display(CellOf(columns, headers, row, "description")),
   payee |-> Display(CellOf(columns, headers, row, "payee")),
   purpose |-> Display(CellOf(columns, headers, row, "purpose"))]

\* The data rows of a file: its records after the headers.
RowsOf(columns, records) ==
  [k \in 1..(Len(records) - 1) |-> NormalizedRow(columns, records[1], records[k + 1])]

\* A date of the format YYYY-MM-DD is looked at after the description.
DateFormatFails(row) ==
  profile.dateFormat # "YYYY-MM-DD" /\ row.date \notin {<<DateWord>>, <<NotGregorian>>}
AmountFormatFails(row) ==
  row.amount \notin {<<Negative>>, <<Zero>>, <<Positive>>, <<Unsafe>>}

DateInvalid(row) == row.date # <<DateWord>>
AmountUnsafe(row) == row.amount = <<Unsafe>>

Invalid(reason) == [outcome |-> "invalid", reason |-> reason]
Ignored == [outcome |-> "ignored", reason |-> "amount-not-negative"]
Importable == [outcome |-> "importable", reason |-> "none"]

\* Fault: the amount is read before the date and the description.
RowOutcome_AmountFirst(row) ==
  IF AmountFormatFails(row) \/ AmountUnsafe(row) THEN Invalid("invalid-amount")
  ELSE IF row.amount # <<Negative>> THEN Ignored
  ELSE IF DateInvalid(row) THEN Invalid("invalid-date")
  ELSE IF row.description = <<>> THEN Invalid("missing-description")
  ELSE Importable

\* normalizeImportRow: the first check that fails names the reason.
RowOutcome(row) ==
  IF DateFormatFails(row) THEN Invalid("invalid-date")
  ELSE IF AmountFormatFails(row) THEN Invalid("invalid-amount")
  ELSE IF row.description = <<>> THEN Invalid("missing-description")
  ELSE IF DateInvalid(row) THEN Invalid("invalid-date")
  ELSE IF AmountUnsafe(row) THEN Invalid("invalid-amount")
  ELSE IF row.amount # <<Negative>> THEN Ignored
  ELSE Importable
=============================================================================
