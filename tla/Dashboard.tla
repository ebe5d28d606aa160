----------------------------- MODULE Dashboard -----------------------------
(***************************************************************************)
(* The dashboard, the income page and the ledger's list, whose statements  *)
(* see no common snapshot, next to the requests that write their tables.   *)
(* Owner labels and the choices of forms, only shown, are left out.        *)
(***************************************************************************)
EXTENDS Income, Forecast, Localization, FiniteSetsExt

CONSTANTS
  Accounts,      \* account ids
  Categories,    \* category ids
  TxIds,         \* transaction ids
  TxForms,       \* rows a transaction may be saved with
  Pages,         \* slots for page requests in flight
  Filters,       \* what the query of a dashboard or income page may say
  Queries,       \* what the query of the ledger's list may say
  Today,         \* the days the clock may show, as month and day
  StartDatabases,\* contents of the tables, and the configured locale, when observation begins
  MaxWrites,     \* bound on the writes of a behaviour
  NoFilter,           \* no filter
  Unread         \* a table that a page has not read yet

Tx == [account : Accounts, category : Categories, month : Nat, cents : Int,
       booked : BOOLEAN, fixed : BOOLEAN, transfer : BOOLEAN]
Filter == [month : Nat, owner : Owners \cup {NoFilter}, account : Accounts \cup {NoFilter},
           category : Categories \cup {NoFilter}]

\* A query of the ledger's list, and what is read from it.
ListFilter == [month : Nat \cup {NoFilter}, owner : Owners \cup {NoFilter},
               account : Accounts \cup {NoFilter}, category : Categories \cup {NoFilter},
               booked : BOOLEAN \cup {NoFilter}, fixed : BOOLEAN \cup {NoFilter},
               transfer : BOOLEAN \cup {NoFilter}]

ASSUME TxFormsAssumption ==
  TxForms \subseteq Tx /\ \A form \in TxForms : form.cents < 0
ASSUME FiltersAssumption == Filters \subseteq Filter
ASSUME QueriesAssumption ==
  \A query \in Queries : query.filters \in ListFilter /\ query.style \in Styles
ASSUME TodayAssumption ==
  \A t \in Today : t.month \in Nat /\ t.day \in 1..DaysInMonth(t.month)
ASSUME MaxWritesAssumption == MaxWrites \in Nat
\* The ids that the rows of a behaviour have.
ASSUME IdsAssumption ==
  IsFiniteSet(Accounts) /\ IsFiniteSet(Categories) /\ IsFiniteSet(TxIds) /\ IsFiniteSet(PlanIds)

\* A category that is deactivated stays on the rows that have it.
CategoryState == {"active", "inactive", NoRow}

ASSUME NoRowAssumption == NoRow \notin Tx \cup Owners \cup {"active", "inactive"}

\* The tables of a database; a transaction has foreign keys, and accounts and
\* categories are never deleted.
TablesOK(db) ==
  /\ db.accounts \in [Accounts -> Owners \cup {NoRow}]
  /\ db.categories \in [Categories -> CategoryState]
  /\ db.transactions \in [TxIds -> TxForms \cup {NoRow}]
  /\ db.plans \in [PlanIds -> Plan \cup {NoRow}]
  /\ db.overrides \in [OverrideIds -> Override \cup {NoRow}]
  /\ \A t \in TxIds : db.transactions[t] # NoRow =>
       /\ db.accounts[db.transactions[t].account] # NoRow
       /\ db.categories[db.transactions[t].category] # NoRow

ASSUME StartDatabasesAssumption ==
  \A db \in StartDatabases :
    /\ TablesOK(db)
    /\ \A p \in PlanIds : db.plans[p] # NoRow => Terms(db.plans[p]) \in PlanForms
    /\ db.fallback \in Locales

Tables == {"accounts", "categories", "transactions", "plans", "overrides"}

\* The tables a page reads in parallel; the ledger's list then reads its rows.
Needed == [dashboard |-> Tables, income |-> {"plans", "overrides"}, ledger |-> {"categories"}]

VARIABLES
  accounts,      \* owners of the accounts
  categories,    \* states of the categories
  transactions,  \* transactions
  fallback,      \* the locale the process is configured with
  pages,         \* page requests in flight
  written        \* how many writes there were

dashboardVars == <<accounts, categories, transactions, fallback, pages, written>>
vars == <<incomeVars, dashboardVars>>

Database == [accounts |-> accounts, categories |-> categories,
             transactions |-> transactions, plans |-> plans, overrides |-> overrides]

NothingRead == [t \in Tables |-> Unread]

Reading(p) == pages[p] # Idle /\ "read" \in DOMAIN pages[p]

\* Besides what it has read, a page slot has history: the database when the page
\* began, how many writes there were since, and what they created.
PageOK(page) ==
  /\ DOMAIN page = {"kind", "filters", "today", "read", "began", "writes", "created"}
  /\ page.kind \in DOMAIN Needed
  /\ page.filters \in (IF page.kind = "ledger" THEN ListFilter ELSE Filters)
  /\ page.kind # "ledger" => page.today \in Today
  /\ DOMAIN page.read = Tables /\ DOMAIN page.began = Tables
  /\ page.writes \in 0..MaxWrites
  /\ page.created \subseteq Accounts \cup Categories

TypeOK ==
  /\ IncomeTypeOK
  /\ accounts \in [Accounts -> Owners \cup {NoRow}]
  /\ categories \in [Categories -> CategoryState]
  /\ transactions \in [TxIds -> TxForms \cup {NoRow}]
  /\ fallback \in Locales
  /\ DOMAIN pages = Pages
  /\ \A p \in Pages : Reading(p) => PageOK(pages[p])
  /\ written \in 0..MaxWrites

Init ==
  /\ \E db \in StartDatabases :
       /\ IncomeInit(db.plans, db.overrides)
       /\ accounts = db.accounts
       /\ categories = db.categories
       /\ transactions = db.transactions
       /\ fallback = db.fallback
  /\ pages = [p \in Pages |-> Idle]
  /\ written = 0

-----------------------------------------------------------------------------
(* The writes of other requests, each one statement.                       *)

\* Bound: a behaviour has MaxWrites writes.
Noted(created) ==
  /\ written < MaxWrites
  /\ written' = written + 1
  /\ pages' = [p \in Pages |->
       IF ~Reading(p) THEN pages[p]
       ELSE [pages[p] EXCEPT !.writes = @ + 1, !.created = @ \cup created]]

\* An account is created, or given to another owner.
SaveAccount ==
  /\ \E a \in Accounts, o \in Owners :
       /\ accounts[a] # o
       /\ accounts' = [accounts EXCEPT ![a] = o]
       /\ Noted(IF accounts[a] = NoRow THEN {a} ELSE {})
  /\ UNCHANGED <<incomeVars, categories, transactions, fallback>>

\* A category is created, deactivated or activated.
SaveCategory ==
  /\ \E c \in Categories, state \in {"active", "inactive"} :
       /\ categories[c] # state
       /\ categories[c] = NoRow => state = "active"
       /\ categories' = [categories EXCEPT ![c] = state]
       /\ Noted(IF categories[c] = NoRow THEN {c} ELSE {})
  /\ UNCHANGED <<incomeVars, accounts, transactions, fallback>>

\* A transaction is created, edited or marked; its account and category exist.
SaveTransaction ==
  /\ \E t \in TxIds, row \in TxForms :
       /\ row # transactions[t]
       /\ accounts[row.account] # NoRow /\ categories[row.category] # NoRow
       /\ transactions' = [transactions EXCEPT ![t] = row]
  /\ Noted({})
  /\ UNCHANGED <<incomeVars, accounts, categories, fallback>>

DeleteTransaction ==
  /\ \E t \in TxIds :
       /\ transactions[t] # NoRow
       /\ transactions' = [transactions EXCEPT ![t] = NoRow]
  /\ Noted({})
  /\ UNCHANGED <<incomeVars, accounts, categories, fallback>>

WriteIncome ==
  /\ IncomeWrites
  /\ Noted({})
  /\ UNCHANGED <<accounts, categories, transactions, fallback>>

\* Bound: no update begins that could not be written any more.
StartUpdate == IncomeReads /\ written < MaxWrites /\ UNCHANGED dashboardVars

-----------------------------------------------------------------------------
(* calculateDashboard, over what the page has read.                        *)

Matches(row, filters, read) ==
  /\ filters.account \in {NoFilter, row.account}
  /\ filters.category \in {NoFilter, row.category}
  /\ filters.owner # NoFilter => read.accounts[row.account] = filters.owner

Filtered(read, filters) ==
  {t \in TxIds : /\ read.transactions[t] # NoRow
                 /\ Matches(read.transactions[t], filters, read)}

\* Booked rows of the months, internal transfers left out.
Spent(read, filters, months) ==
  {t \in Filtered(read, filters) :
     /\ read.transactions[t].booked
     /\ ~read.transactions[t].transfer
     /\ read.transactions[t].month \in months}

Magnitude(read, ids) == SumFunction([t \in ids |-> -read.transactions[t].cents])

\* Fault: planned transactions count as well.
GroupCategories_Planned(read, filters) ==
  [c \in {d \in Categories : read.categories[d] # NoRow} |->
     Magnitude(read, {t \in Filtered(read, filters) :
                        /\ read.transactions[t].month = filters.month
                        /\ ~read.transactions[t].transfer
                        /\ read.transactions[t].category = c})]

GroupCategories(read, filters) ==
  [c \in {d \in Categories : read.categories[d] # NoRow} |->
     Magnitude(read, {t \in Spent(read, filters, {filters.month}) :
                        read.transactions[t].category = c})]

GroupAccounts(read, filters) ==
  [a \in {b \in Accounts : read.accounts[b] # NoRow} |->
     Magnitude(read, {t \in Spent(read, filters, {filters.month}) :
                        read.transactions[t].account = a})]

HistoricalAverage(read, filters, window) ==
  LET months == PrecedingMonths(filters.month, window)
      total == Magnitude(read, Spent(read, filters, months)) IN
  IF Checked(total) = Unsafe THEN Unsafe ELSE RoundHalfUp(total, window)

MonthlyForecast(read, filters, today) ==
  LET eligible == {t \in Filtered(read, filters) :
                     /\ ~read.transactions[t].transfer
                     /\ read.transactions[t].month = filters.month}
      component(booked, fixed) ==
        Magnitude(read, {t \in eligible : /\ read.transactions[t].booked = booked
                                          /\ read.transactions[t].fixed = fixed})
      extrapolated == MultiplyAndRoundHalfUp(component(TRUE, FALSE),
                                             DaysInMonth(filters.month), today.day) IN
  IF extrapolated = Unsafe THEN Unsafe
  ELSE Checked(component(TRUE, TRUE) + component(FALSE, TRUE) + extrapolated)

MonthlyIncome(read, filters, first) ==
  LET counting == {p \in PlanIds : /\ read.plans[p] # NoRow
                                   /\ ActiveIn(read.plans[p], filters.month)
                                   /\ filters.owner \in {NoFilter, read.plans[p].owner}} IN
  SumFunction([p \in counting |-> IncomeEntry(read, p, filters.month, first)])

\* A page that throws: an amount is no safe integer.
Failed == [error |-> "amount"]

Calculate(read, filters, today, first) ==
  LET expense == Magnitude(read, Spent(read, filters, {filters.month}))
      income == MonthlyIncome(read, filters, first)
      forecast == IF filters.month = today.month
                  THEN MonthlyForecast(read, filters, today) ELSE 0
      averages == [w \in {3, 6, 12} |-> HistoricalAverage(read, filters, w)] IN
  IF Unsafe \in {Checked(expense), Checked(income), forecast} \cup {averages[w] : w \in {3, 6, 12}}
  THEN Failed
  ELSE [income |-> income, expense |-> expense, balance |-> income - expense,
        byCategory |-> GroupCategories(read, filters),
        byAccount |-> GroupAccounts(read, filters),
        averages |-> averages, forecast |-> forecast]

CalculateIncome(read, filters, first) ==
  LET income == MonthlyIncome(read, filters, first) IN
  IF Checked(income) = Unsafe THEN Failed ELSE [income |-> income]

-----------------------------------------------------------------------------
(* The list of the ledger.                                                 *)

\* A month that the locale of the request cannot read is passed over.
ReadFilters(query, locale) ==
  IF query.style = Canonical \/ Parses(query.style, locale) THEN query.filters
  ELSE [query.filters EXCEPT !.month = NoFilter]

\* The month after, from its first day on; that of a year before 100 is after 1900, and
\* a year of five digits is written with a sign, as a text before every date.
NextMonth(month) ==
  LET next == UtcMonth(month) + 1 IN IF YearOf(next) > 9999 THEN 0 ELSE next

\* The rows that every condition of the statement leaves.
Listed(filters) ==
  {t \in TxIds :
     LET row == transactions[t] IN
     /\ row # NoRow
     /\ filters.month # NoFilter =>
          filters.month <= row.month /\ row.month < NextMonth(filters.month)
     /\ filters.owner \in {NoFilter, accounts[row.account]}
     /\ \A f \in {"account", "category", "booked", "fixed", "transfer"} :
          filters[f] \in {NoFilter, row[f]}}

\* Only active categories are read, and others are shown by their id.
Named(t, read) == read.categories[transactions[t].category] = "active"

-----------------------------------------------------------------------------
(* A page request: its query, its statements in any order, its answer.     *)

Opened(kind, filters, today) ==
  [kind |-> kind, filters |-> filters, today |-> today, read |-> NothingRead,
   began |-> Database, writes |-> 0, created |-> {}]

\* The dashboard refuses months after the current one.
PageBegin(p) ==
  /\ pages[p] = Idle
  /\ \E kind \in {"dashboard", "income"}, filters \in Filters, today \in Today :
       /\ kind = "dashboard" => filters.month <= today.month
       /\ pages' = [pages EXCEPT ![p] = Opened(kind, filters, today)]
  /\ UNCHANGED <<incomeVars, accounts, categories, transactions, fallback, written>>

\* The list does not look at the clock.
ListBegin(p) ==
  /\ pages[p] = Idle
  /\ \E query \in Queries, locale \in Negotiated[fallback] :
       pages' = [pages EXCEPT ![p] = Opened("ledger", ReadFilters(query, locale), Unread)]
  /\ UNCHANGED <<incomeVars, accounts, categories, transactions, fallback, written>>

PageRead(p, t) ==
  /\ Reading(p)
  /\ t \in Needed[pages[p].kind] /\ pages[p].read[t] = Unread
  /\ pages' = [pages EXCEPT ![p].read[t] = Database[t]]
  /\ UNCHANGED <<incomeVars, accounts, categories, transactions, fallback, written>>

PageAnswer(p) ==
  /\ Reading(p) /\ pages[p].kind # "ledger"
  /\ \A t \in Needed[pages[p].kind] : pages[p].read[t] # Unread
  /\ \E first \in Firsts(pages[p].read, pages[p].filters.month) :
       pages' = [pages EXCEPT ![p] = [answer |->
         IF pages[p].kind = "dashboard"
         THEN Calculate(pages[p].read, pages[p].filters, pages[p].today, first)
         ELSE CalculateIncome(pages[p].read, pages[p].filters, first)]]
  /\ UNCHANGED <<incomeVars, accounts, categories, transactions, fallback, written>>

\* The last statement of the list reads its rows and their accounts at once.
ListAnswer(p) ==
  /\ Reading(p) /\ pages[p].kind = "ledger"
  /\ pages[p].read.categories # Unread
  /\ pages' = [pages EXCEPT ![p] = [answer |->
       LET rows == Listed(pages[p].filters) IN
       [rows |-> rows, named |-> {t \in rows : Named(t, pages[p].read)}]]]
  /\ UNCHANGED <<incomeVars, accounts, categories, transactions, fallback, written>>

PageDone(p) ==
  /\ pages[p] # Idle /\ ~Reading(p)
  /\ pages' = [pages EXCEPT ![p] = Idle]
  /\ UNCHANGED <<incomeVars, accounts, categories, transactions, fallback, written>>

Next ==
  \/ SaveAccount \/ SaveCategory \/ SaveTransaction \/ DeleteTransaction
  \/ WriteIncome
  \/ StartUpdate
  \/ \E p \in Pages : \/ PageBegin(p) \/ PageAnswer(p) \/ PageDone(p)
                      \/ ListBegin(p) \/ ListAnswer(p)
                      \/ \E t \in Tables : PageRead(p, t)

Spec == Init /\ [][Next]_vars
=============================================================================
