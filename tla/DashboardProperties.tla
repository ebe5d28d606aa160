------------------------ MODULE DashboardProperties ------------------------
(***************************************************************************)
(* What the income plans keep and what a page answers, stated over the     *)
(* tables as they were and with exact arithmetic, next to Dashboard.       *)
(***************************************************************************)
EXTENDS Dashboard

\* The terms of a plan are those its last form gave, whatever activations ran beside
\* it, unless one had read the plan before that form was saved
\* (handleActivation writes a whole row back).
EditsKept ==
  \A p \in PlanIds \ overlapped : plans[p] # NoRow => Terms(plans[p]) = entered[p]

\* A form as the edit page of a plan shows it, submitted unchanged, leaves the plan as
\* it is (FF-INC-001-AC01, "Create and edit round-trip every field").
EditRoundTrips ==
  [][\A s \in Savers, p \in PlanIds, form \in PlanForms :
       /\ plans[p] # NoRow
       /\ form = Terms(plans[p])
       /\ EditPlan(s, p, form, IF plans[p].active THEN "on" ELSE "absent")
       => saves'[s].next = plans[p]]_vars

-----------------------------------------------------------------------------
(* References, over the tables of a database.                              *)

\* What was spent in a month in the accounts and categories that a filter leaves.
ExpenseAt(db, filters, month, booked, fixed) ==
  LET owned == {a \in Accounts : filters.owner \in {NoFilter, db.accounts[a]}}
      rows == [account : IF filters.account = NoFilter THEN owned ELSE owned \cap {filters.account},
               category : IF filters.category = NoFilter THEN Categories ELSE {filters.category},
               month : {month}, cents : {form.cents : form \in TxForms},
               booked : booked, fixed : fixed, transfer : {FALSE}] IN
  - SumFunction([t \in {u \in TxIds : db.transactions[u] \in rows} |-> db.transactions[t].cents])

\* The incomes of a month: a plan counts from its start to its end month, with its
\* amount, or that of any override entered for the month.
IncomesAt(db, filters, month) ==
  LET counting == {p \in PlanIds :
        /\ db.plans[p] # NoRow /\ db.plans[p].active
        /\ filters.owner # NoFilter => filters.owner = db.plans[p].owner
        /\ month \in db.plans[p].start..
             (IF db.plans[p].end = NoEnd THEN month ELSE db.plans[p].end)}
      entries(p) == {db.overrides[v].amount : v \in Candidates(db, p, month)}
      amounts(p) == IF entries(p) = {} THEN {db.plans[p].amount} ELSE entries(p) IN
  {SumFunction(f) :
     f \in {g \in [counting -> UNION {amounts(p) : p \in counting}] :
              \A p \in counting : g[p] \in amounts(p)}}

-----------------------------------------------------------------------------
(* What a page answers.                                                    *)

Answer(p) == pages'[p].answer
Answered(p, kind) == PageAnswer(p) /\ pages[p].kind = kind /\ Answer(p) # Failed

\* The totals by category, and those by account, add up to the filtered expense,
\* unless a category or an account was created between the statements of the page
\* (FF-DASH-002-AC01, calculateDashboard).
GroupsReconcile ==
  [][\A p \in Pages :
       Answered(p, "dashboard") =>
         \A group \in {Answer(p).byCategory, Answer(p).byAccount} :
           \/ SumFunction(group) = Answer(p).expense
           \/ pages[p].created # {}]_vars

\* The rows of a table that a query of the list names.
ListedAt(db, filters) ==
  LET asked(value, all) == IF value = NoFilter THEN all ELSE {value}
      owned == {a \in Accounts : db.accounts[a] \in asked(filters.owner, Owners)}
      wanted == [account : owned \cap asked(filters.account, Accounts),
                 category : asked(filters.category, Categories),
                 month : asked(filters.month, Nat), cents : {form.cents : form \in TxForms},
                 booked : asked(filters.booked, BOOLEAN),
                 fixed : asked(filters.fixed, BOOLEAN),
                 transfer : asked(filters.transfer, BOOLEAN)] IN
  {t \in TxIds : db.transactions[t] \in wanted}

\* The months for which the code finds the month after (nextMonth).
MonthAfterFound(month) == YearOf(month) > 99 /\ YearOf(month + 1) <= 9999

\* With at most one write beside it, a page shows the income, the expense and the
\* balance of a moment: of when it began, or of when it ended; and the list shows its
\* rows with the names of their categories, except those that were inactive at one of
\* the two.  The rows themselves are always those of the end, for months whose
\* month after the code finds (handleListTransactions, nextMonth).
PageIsSomeMoment ==
  [][\A p \in Pages : pages[p] # Idle =>
       LET filters == pages[p].filters IN
       /\ Answered(p, "income") /\ pages[p].writes < 2 =>
            \E db \in {pages[p].began, Database} :
              Answer(p).income \in IncomesAt(db, filters, filters.month)
       /\ Answered(p, "dashboard") /\ pages[p].writes < 2 =>
            \E db \in {pages[p].began, Database} :
              /\ Answer(p).income \in IncomesAt(db, filters, filters.month)
              /\ Answer(p).expense =
                   ExpenseAt(db, filters, filters.month, {TRUE}, BOOLEAN)
              /\ Answer(p).balance = Answer(p).income - Answer(p).expense
       /\ ListAnswer(p) =>
            /\ filters.month = NoFilter \/ MonthAfterFound(filters.month) =>
                 Answer(p).rows = ListedAt(Database, filters)
            /\ \A t \in Answer(p).rows \ Answer(p).named :
                 LET c == transactions[t].category IN
                 \/ pages[p].writes > 1
                 \/ "inactive" \in {pages[p].began.categories[c], categories[c]}]_vars

\* The exact forecast of a page, over the tables it read.
ForecastOf(page) ==
  LET spent(booked, fixed) == ExpenseAt(page.read, page.filters, page.filters.month,
                                        {booked}, {fixed}) IN
  spent(TRUE, TRUE) + spent(FALSE, TRUE)
    + Rounded(spent(TRUE, FALSE) * DaysInMonth(page.today.month), page.today.day)

WindowOf(page, window) ==
  SumFunction([i \in 1..window |->
    ExpenseAt(page.read, page.filters, page.filters.month - i, {TRUE}, BOOLEAN)])

AveragesExact(page, answer) ==
  \A w \in {3, 6, 12} : answer.averages[w] = Rounded(WindowOf(page, w), w)

\* The largest amounts that a page computes.
Shown(page) ==
  {WindowOf(page, 12), ExpenseAt(page.read, page.filters, page.filters.month, {TRUE}, BOOLEAN)}
    \cup (IF page.filters.month = page.today.month THEN {ForecastOf(page)} ELSE {})

FailureExact(page, answer) ==
  IF answer = Failed
  THEN \E n \in Shown(page) \cup IncomesAt(page.read, page.filters, page.filters.month) :
         n > MaxSafe
  ELSE \A n \in Shown(page) \cup {answer.income} : n <= MaxSafe

\* The forecast of the current month is the exact value, rounded once, although the
\* code multiplies and rounds it in parts (multiplyAndRoundHalfUp).  The averages of 3,
\* 6 and 12 months are over the months before the selected one, months without expenses
\* included, and rounded half up; and the page fails exactly when some amount it shows
\* is no safe integer: both for the years in which the code writes the months of a
\* window as a date has them (FF-DASH-004, calculateHistoricalAverage).
FiguresExact ==
  [][\A p \in Pages : PageAnswer(p) /\ pages[p].kind = "dashboard" =>
       /\ Answer(p) # Failed /\ pages[p].filters.month = pages[p].today.month =>
            Answer(p).forecast = ForecastOf(pages[p])
       /\ YearOf(pages[p].filters.month) > 1000 =>
            /\ FailureExact(pages[p], Answer(p))
            /\ Answer(p) # Failed => AveragesExact(pages[p], Answer(p))]_vars

-----------------------------------------------------------------------------
(* The locale of a request.                                                *)

\* What outranks what among the ranges that match a locale (PLAN.md, FF-LOC-005): the
\* locale itself, then its language, which other regions of it count as, then any; and
\* the part of a header that controls the locale.
Level(part, locale) ==
  IF part.range = locale THEN 2 ELSE IF part.range = AnyRange THEN 0 ELSE 1

Controlling(header, locale) ==
  LET parts == Matching(header, locale)
      level == Max({Level(header[i], locale) : i \in parts}) IN
  IF parts = {} THEN {} ELSE {Min({i \in parts : Level(header[i], locale) = level})}

\* The highest quality wins, then the place in the header, then the fallback.
RightChoice(header, default, chosen) ==
  LET place == [l \in Locales |-> Max(Controlling(header, l))]
      quality == [l \in Locales |-> IF Controlling(header, l) = {} THEN -1
                                    ELSE Quality(header[place[l]])]
      wanted == {l \in Locales : quality[l] > 0}
      best == {l \in wanted : \A k \in wanted : quality[k] <= quality[l]}
      first == {l \in best : \A k \in best : place[k] >= place[l]} IN
  IF wanted = {}
  THEN chosen = default <=> (quality[default] = -1 \/ \A l \in Locales : quality[l] = 0)
  ELSE chosen \in first /\ (default \in first => chosen = default)

\* A header names another region of a locale that is a language alone, and only later
\* the locale itself: the code takes the two for as specific.
RegionFirst(header) ==
  \E l \in Locales : Len(l) = 1 /\
    LET exact == {j \in Matching(header, l) : Level(header[j], l) = 2} IN
      /\ exact # {}
      /\ \E i \in Matching(header, l) :
           Level(header[i], l) = 1 /\ \A j \in exact : i < j

\* The fallbacks with which every other header gets the right locale.
Sound == {default \in Locales : \A header \in Headers :
  RegionFirst(header) \/ RightChoice(header, default, Negotiate(header, default))}

\* The most specific range, of several the first, controls the quality of a locale, and
\* a quality of 0 excludes it.  Among the locales that a header accepts the highest
\* quality wins, then the place in the header, then the fallback.  When it accepts
\* none, the fallback answers unless it alone is excluded (FF-LOC-005,
\* resolveRequestLocale).  Nothing is said of a header that names en-gb before en, as
\* "en-gb;q=0, en" does: by FF-LOC-005 the exact en controls, in the code the first.
LocaleNegotiated == fallback \in Sound

-----------------------------------------------------------------------------
(* The inductive invariant.                                                *)

\* A plan update holds a plan that exists; an edit holds terms of a form, and an
\* activation those of the plan, unless a form was saved since it read them.
SavesInv ==
  \A s \in Savers : saves[s] # Idle =>
    LET p == saves[s].id IN
    /\ plans[p] # NoRow
    /\ saves[s].of = "edit" => Terms(saves[s].next) \in PlanForms
    /\ saves[s].of = "activation" /\ p \notin overlapped =>
         Terms(saves[s].next) = Terms(plans[p])

WritesInv == \A p \in Pages : Reading(p) => pages[p].writes <= written

\* A table of a page is not read yet, or as it was when the page began.
AsBegan(page, t) == page.read[t] \in {Unread, page.began[t]}

\* A page beside which nothing was written has read the database it began with and that
\* is still there.  One write changes one table, which the page may have read after it.
SeesMoment(page) ==
  /\ TablesOK(page.began)
  /\ page.writes = 0 => \A t \in Tables : page.began[t] = Database[t] /\ AsBegan(page, t)
  /\ page.writes = 1 => \E w \in Tables :
       /\ page.read[w] \in {Unread, page.began[w], Database[w]}
       /\ \A t \in Tables \ {w} : page.began[t] = Database[t] /\ AsBegan(page, t)

MomentInv == \A p \in Pages : Reading(p) => SeesMoment(pages[p])

\* What a page has read of a table is a table.  A transaction it has read has its account
\* and its category in the database, and so in what it has read of those, unless they
\* were created beside it.
HasRead(read, created) ==
  /\ read.accounts # Unread =>
       /\ read.accounts \in [Accounts -> Owners \cup {NoRow}]
       /\ \A a \in Accounts \ created : accounts[a] # NoRow => read.accounts[a] # NoRow
  /\ read.categories # Unread =>
       /\ read.categories \in [Categories -> CategoryState]
       /\ \A c \in Categories \ created : categories[c] # NoRow => read.categories[c] # NoRow
  /\ read.transactions # Unread =>
       /\ read.transactions \in [TxIds -> TxForms \cup {NoRow}]
       /\ \A t \in TxIds : read.transactions[t] # NoRow =>
            /\ accounts[read.transactions[t].account] # NoRow
            /\ categories[read.transactions[t].category] # NoRow
  /\ read.plans # Unread => read.plans \in [PlanIds -> Plan \cup {NoRow}]
  /\ read.overrides # Unread => read.overrides \in [OverrideIds -> Override \cup {NoRow}]

ReadInv == \A p \in Pages : Reading(p) => HasRead(pages[p].read, pages[p].created)

IInv ==
  /\ TypeOK
  /\ EditsKept
  /\ SavesInv
  /\ WritesInv
  /\ TablesOK(Database)
  /\ MomentInv
  /\ ReadInv
=============================================================================
