----------------------------- MODULE MCIntake -----------------------------
(* An instance of the intake model for TLC: every short text, and bank      *)
(* statements with an account whose rows have hashes of every version.     *)
EXTENDS IntakeProperties, TLC

CONSTANTS date, amount, text, payee, purpose, a, A, f, p1, p2, scraps, statements, settings

MCWords == {Comma, Semicolon, Bar, date, amount, text, payee, purpose, a, A, f}

MCSymbols == MCWords \cup White

\* A is the capital of a, and NFKC folds f to a.
MCLower == [w \in MCWords \cup White |-> IF w = A THEN a ELSE w]
MCFold == [w \in MCWords \cup White |-> IF w \in {A, f} THEN a ELSE w]

Columns == [date |-> <<date>>, amount |-> <<amount>>, description |-> <<text>>,
            payee |-> <<payee>>, purpose |-> <<purpose>>, category |-> <<>>]
Form(delimiter, encoding, dateFormat) ==
  [name |-> <<a>>, delimiter |-> delimiter, encoding |-> encoding,
   dateFormat |-> dateFormat, decimalFormat |-> "comma-decimal", columns |-> Columns]
Usual == Form(Comma, "utf8", "DD.MM.YYYY")
Iso == Form(Comma, "latin1", "YYYY-MM-DD")
Narrow == [Usual EXCEPT !.columns.payee = <<>>, !.columns.purpose = <<Space>>]
Spaced == [Iso EXCEPT !.name = <<Space, A, a>>, !.columns.date = <<date, Tab>>,
                      !.columns.category = <<Space, a, Space, A>>]

\* With something missing or unknown in each.
Wrongs == { [Usual EXCEPT !.name = <<Space>>], [Usual EXCEPT !.columns.date = <<Tab>>],
            [Usual EXCEPT !.encoding = "other"], [Usual EXCEPT !.delimiter = a],
            Form(Tab, "utf8", "DD.MM.YYYY") }

MCForms == (settings :> {Usual, Narrow, Spaced} \cup Wrongs @@ scraps :> {} @@ statements :> {})
None == [p \in ProfileIds |-> NoProfile]

\* A profile with a tab, stored before the form refused it.
Old == [None EXCEPT ![p2] = Form(Tab, "utf8", "DD.MM.YYYY")]
MCStoredForms == (settings :> Old @@ scraps :> None @@ statements :> None)
MCDefaultColumns == [Columns EXCEPT !.purpose = <<>>]

Texts == UNION {[1..n -> {Quote, Comma, Lf, Cr, a}] : n \in 0..5}

Header == <<date, Comma, amount, Comma, text, Comma, payee, Comma, Space, purpose, Lf>>
Line(d, n, t, p, u) ==
  <<d, Comma, n, Comma>> \o t \o <<Comma>> \o p \o <<Comma>> \o u \o <<Lf>>
Good(t, p, u) == Line(DateWord, Negative, t, p, u)

Statements ==
  { \* purposes apart, and one line twice
    Header \o Good(<<a>>, <<>>, <<a>>) \o Good(<<A>>, <<>>, <<>>) \o Good(<<f>>, <<>>, <<a>>),
    \* bars that shift text between fields
    Header \o Good(<<a, Bar, a>>, <<>>, <<>>) \o Good(<<a>>, <<a, Bar>>, <<>>)
           \o Good(<<a>>, <<a>>, <<Bar>>),
    \* incomes, and a quoted text over two lines
    Header \o Line(DateWord, Positive, <<a>>, <<>>, <<>>)
           \o Line(DateWord, Zero, <<Quote, a, Lf, Space, a, Quote>>, <<>>, <<>>)
           \o Good(<<Quote, a, Lf, Space, a, Quote>>, <<>>, <<>>) }
\* Something is wrong with every line.
Faulty ==
  {
    Header \o Line(NotGregorian, Zero, <<a>>, <<>>, <<>>) \o Line(a, Positive, <<Space>>, <<>>, <<>>),
    Header \o Line(DateWord, a, <<Space>>, <<>>, <<>>) \o Line(DateWord, Unsafe, <<a>>, <<>>, <<>>) }

MCFiles ==
  (settings :> {[content |-> s, form |-> AsShown] : s \in {CHOOSE s \in Statements : TRUE}} @@
   scraps :> {[content |-> s, form |-> Usual] : s \in Texts} @@
   statements :>
     {[content |-> s, form |-> Usual] : s \in Statements \cup Faulty}
     \cup {[content |-> s, form |-> Iso] : s \in Faulty}
     \cup {[content |-> CHOOSE s \in Statements : TRUE, form |-> form] :
             form \in {Narrow, Form(Tab, "utf8", "DD.MM.YYYY")}}
     \cup {[content |-> s, form |-> Usual] :
             s \in {<<BadByte>>, <<a, Control>>, <<date, Lf>>,
                    Header \o <<a, Lf>>, [i \in 1..(MaxBytes + 1) |-> a],
                    Header \o Good(<<a>>, <<>>, <<>>) \o Good(<<a>>, <<>>, <<>>)
                           \o Good(<<a>>, <<>>, <<>>) \o Good(<<a>>, <<>>, <<>>)}})

Past(t, p, u) == [date |-> <<DateWord>>, amount |-> <<Negative>>, description |-> t,
                  payee |-> p, purpose |-> u]
Entry(hash, row) == [hash |-> hash, purpose |-> row.purpose, row |-> row]

MCLegacy ==
  (scraps :> {} @@ settings :> {} @@
   statements :> { Entry(LegacyHash(Past(<<a, Bar, a>>, <<>>, <<>>)),
                         Past(<<a, Bar, a>>, <<>>, <<>>)),
                   Entry(SecondHash(Past(<<f>>, <<>>, <<a>>)), Past(<<f>>, <<>>, <<a>>)),
                   Entry(NoHash, Past(<<a>>, <<a>>, <<>>)) })
MCPurposes == {<<>>, <<A>>}
=============================================================================
