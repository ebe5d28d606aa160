# FamilyFlow, specified

FamilyFlow is a household budget: a Fastify process on Node.js in front of one
PostgreSQL database, used by a family that logs in through an OpenID provider.
This directory models the parts of it that can go wrong in ways tests hardly
reach, checks the models with TLC, and proves theorems about them with TLAPS.
Paths are relative to the repository: the code is under `src/`, the requirements
are in `PLAN.md`, the runbooks in `OPERATIONS.md`.

Contents: [the system](#the-system), [what is hard about it](#what-is-hard-about-it),
[modules](#modules), [runs](#runs), [findings](#findings), [proofs](#proofs),
[limits](#what-is-not-covered), [plan](#plan), [how to run](#how-to-run).

## The system

One process serves all requests from an event loop over a pool of five database
connections. A handler gives up control at each `await`, so requests interleave
at SQL statements and at calls to the provider. PostgreSQL runs READ COMMITTED.
Only three pieces of code open a database transaction: a confirmation, the
session clean-up, and a migration. Every other handler is a sequence of
statements, each atomic, with nothing around them.

| Component | State | Operations | Talks to | Correct if |
| --- | --- | --- | --- | --- |
| CSV import (`core/imports/confirm-csv-import.ts`, `adapters/http/imports.ts`, `adapters/db/drizzle-import-preview-batch-repository.ts`) | `import_preview_batches`; inserts into `transactions` | preview a file into a batch, confirm a batch | ledger, rules, profiles, clock | a batch is imported at most once, all of it or nothing, in time, by its owner, and no canonical row twice |
| CSV row identity (`core/imports/csv-import.ts`) | none | normalise, hash (three versions), mark duplicates | import | the same row is recognised, different rows are not confused |
| CSV parser and profiles (`adapters/csv/simple-csv-parser.ts`, `core/imports/import-profile.ts`) | `import_profiles` | parse, map columns, save a profile | import | every record is one row, mapped by the profile |
| Ledger (`core/transactions/`, `adapters/http/transactions.ts`) | `transactions` | create, edit, mark as internal transfer, delete, list | accounts, categories, rules, import | identity and category origin of a row are never falsified |
| Categorization (`core/categorization/`, `adapters/http/categorization-rules.ts`) | `categorization_rules` | create, edit, delete and match rules, reapply | ledger, categories, import | rules win by priority, manual choices stay, reapplication is idempotent and agrees with the preview |
| Master data (`core/accounts/`, `core/categories/`, `adapters/http/master-data.ts`) | `accounts`, `categories`, `owner_context_labels` | create, edit, deactivate | ledger, rules, import, dashboard | names are unique after normalisation, ids stay |
| Income (`core/income/`, `adapters/http/income.ts`) | `income_plans`, `monthly_income_overrides` | plans, activation, overrides, monthly income | dashboard | a month's income is its active plans', with overrides in place |
| Dashboard and forecast (`core/dashboard/`, `core/forecasting/`) | none | read six tables, total, extrapolate | all tables, clock | totals agree with the rows, cents are exact |
| Sessions (`core/auth/session-service.ts`, `adapters/db/drizzle-session-store.ts`, `app/session-*.ts`) | `sessions` | create, look up, revoke, revoke all, clean up | login, every protected route, operator | an ended session is never admitted, a live one never refused |
| OpenID login (`core/auth/oidc-transaction-service.ts`, `adapters/http/auth.ts`, `adapters/oidc/authentik-oidc.ts`) | `oidc_transactions`, one cached promise of the provider's metadata | start a login, handle the callback, discover, exchange | provider, sessions, clock | a state works once, for ten minutes |
| Start-up (`app/server.ts`, `adapters/db/migrate.ts`, `adapters/db/seeds/`) | `schema_migrations` | migrate, seed, clean up, listen | all tables | each migration once, seeds never overwrite |
| Request lifecycle, logging | none beyond a request | request id, log line | every route | every response carries one id |
| Localisation | none beyond a request | negotiate, format, parse | every route | the negotiated locale decides formats |
| Views, configuration, scripts | none | render, read environment, release | | presentation and tooling |

How they interact. The import reads accounts, categories, rules and the ledger
to prepare a batch, and its confirmation writes to the ledger. Ledger edits can
change what the import identified a row by (its account) while keeping its hash.
Reapplication reads rules and ledger and writes the ledger. The login creates
sessions; each protected request looks one up before its handler runs. The
operator's backup and restore replace all tables at once, and the session
commands and the start-up clean-up repair what a restore brings back.

## What is hard about it

`PROJECT.json` lists each hazard at its line. They come in nine groups.

1. *Two confirmations at once.* Of the same batch (they compete for its row) or
   of overlapping batches (their inserts wait for each other's keys, in
   different orders, until PostgreSQL aborts one). A connection may be lost in
   between, the process may die before or after COMMIT.
2. *Stale reads written back.* Edits, marks, activations and reapplications read
   a row, await something, and upsert **all** columns. An upsert after a
   deletion brings the row back.
3. *Clock readings used later.* Confirmation, callback, logout and clean-up read
   the clock and use the reading in a later statement, which may have waited
   for a lock; a lookup reads a row and compares it with a later clock.
4. *Restores.* A dump returns revoked sessions and used login states. The
   runbook has to remove the first before the application starts.
5. *Something shared and remembered.* The provider's metadata is one promise for
   the life of the process, whether it was fulfilled or rejected.
6. *Arithmetic and text.* Cents are safe integers in the code and 32 bits in the
   table; extrapolation rounds half up; CSV quoting and hash framing must not
   confuse rows.
7. *Starting up.* A start-up may die at any step and is repeated, perhaps under
   another locale, on tables that users have changed since the last one.
8. *Pages without a snapshot.* A dashboard reads six tables in parallel
   statements, the ledger's list its categories before its rows, and other
   requests write in between.
9. *Ranges against each other.* A language header may exclude what another of its
   ranges accepts, and several ranges may be as specific or as good.

Group 1 is the subject of `Import`; group 2 of `Ledger`, `Income` and `MasterData`;
group 3 of `Import`, `Sessions` and `OidcLogin`; group 4 of `Sessions` and
`OidcLogin`; group 5 of `OidcLogin`; group 6 of `Forecast`, `CsvParser` and `Intake`;
group 7 of `MasterData`; group 8 of `Dashboard`; group 9 of `Localization`.

## Modules

The modules of a component follow one pattern: the system (`X`), what it
promises without tables, clocks and requests (`XAbstract`, where there is such a
promise), properties and inductive invariant (`XProperties`), constants and
symmetry for TLC (`MCX`), theorems (`XProofs`). A definition named after another
with a suffix (`Valid_AtExpiry` next to `Valid`) is a *fault*: how that piece of
code could plausibly be wrong. Replacing a definition by its fault must violate
the property listed with it in `PROJECT.json`, which shows that the property
depends on the code.

### CSV import: `Import`, `ImportAbstract`, `ImportProperties`

| Model | Code |
| --- | --- |
| `PreviewRead`, `PreviewSave` | `handleCsvImportPreview`: read the ledger's identities, later the clock, and then save the batch |
| `StartConfirm` | the confirmation handler, which reads the clock |
| `ConsumeBatch`, `ConsumeNothing`, `BatchLocked` | `consumePreviewBatch`: one UPDATE that locks the batch's row, waits for its holder and evaluates its condition again |
| `RejectBatch` | invalid rows, rows the database cannot store |
| `InsertRow`, `WaitsFor`, `PartialConflict` | `saveTransactions`: one INSERT ... ON CONFLICT DO NOTHING, its rows one at a time |
| `Commit`, `Rollback`, `DeadlockAbort`, `ConnectionLost`, `Crash` | how the database transaction ends |
| `EditRead`, `EditSave`, `EditFail`, `DeleteRow` | transaction maintenance of imported rows |

A CSV line is its canonical content. Its hash covers the account, so a hash is
written as a content and a home account. `held` is history: which contents were
ever committed for an account. `ImportAbstract` has batches that are offered and
confirmed and rows that appear with the confirmation, in one step.

### Ledger: `Categorization`, `Ledger`, `LedgerProperties`

`Categorization` holds the pure part of `core/categorization`: which rule wins
(`Match`), what the preview decides (`Decide`) and what a reapplication makes of
a row (`Recategorized`). `Ledger` has the handlers.

| Model | Code |
| --- | --- |
| `CreateTransaction`, `DeleteTransaction`, `SetInternalTransfer` | single-statement handlers of `adapters/http/transactions.ts` |
| `EditRead`, `EditSave`, `EditFail`, `OriginAfterEdit` | `handleUpdateTransaction`, `categoryOriginAfterEdit` |
| `CreateCategory`, `SaveRule`, `DeleteRule` | the rule and category handlers, as far as rows depend on them |
| `PreviewRead`, `PreviewList`, `PreviewDecide`, `PreviewFail`, `ConfirmRow` | categories are read, then the ledger's hashes, then the rules; the decided row is stored and inserted later |
| `ReapplyRules`, `ReapplyList`, `ReapplySave`, `ReapplyDone`, `ReapplyFail` | `reapplyCategorizationRules`: list rules, list rows, save changed rows one by one in id order |

A rule's condition is the set of searches that occur in a row's text. `born`,
`targets` and `touched` are history: a row's first identity, the categories any
rule ever named, and the rows others wrote during a reapplication.

### Sessions: `SessionsAbstract`, `Sessions`, `SessionsProperties`

| Model | Code |
| --- | --- |
| `CreateBegin`, `CreateInsert` | `SessionService.create`: clock, then INSERT |
| `LookupRead`, `LookupCheck`, `LookupDone` | the preHandler: SELECT, then the comparison with a later clock |
| `LogoutBegin`, `LogoutRevoke` | `POST /auth/logout` and `revoke` |
| `InvalidateAll` | `app/session-invalidate.ts` |
| `CleanupBegin`, `CleanupSelect`, `CleanupDelete`, `CleanupFail` | `deleteEligible`: clock, SELECT ... LIMIT, DELETE by id; at start-up and as a command |
| `Stop`, `Backup`, `Restore`, `MayBoot` | container and runbook (OPERATIONS.md, rehearsed by `tests/e2e/backup-restore-smoke.test.ts`) |

A session stands for its random token. `issued` and `ended` are history and
define when a session is live: issued, neither revoked nor older than a restore,
and not at or past its expiry. `SessionsAbstract` knows only sessions that are
unissued, live or ended, and requests that ask and are answered: admitted only if
the session was live when they asked, refused only if it has ended by the time
of the answer.

### OpenID login: `OidcLogin`, `OidcLoginProperties`

| Model | Code |
| --- | --- |
| `LoginBegin`, `LoginInsert`, `LoginAnswer` | `GET /auth/login` |
| `CallbackBegin`, `CallbackRead`, `CallbackConsume`, `CallbackConsumeFails`, `CallbackDiscover`, `CallbackExchange`, `CallbackCreate`, `CallbackReject` | `GET /auth/callback`, one step per await |
| `Requested`, `DiscoverySucceeds`, `DiscoveryFails`, `LogoutAsks` | the promise `oidcProviderMetadata` and who waits for it |
| `Restart`, `Backup`, `Restore` | process and runbook |
| `ProviderFails`, `ProviderRecovers` | external: the provider and the network to it |

Checks of the ID token are one outcome of `CallbackExchange`: it succeeds only
with a code that was issued for the login of the callback's state.

### Master data and start-up: `MasterData`, `MasterDataProperties`

| Model | Code |
| --- | --- |
| `Boot`, `MigrationSkip`, `MigrationExecute`, `MigrationRecord`, `MigrationFails`, `MigrationsDone` | `migrate`: one transaction per file, its statements, then its record |
| `SeedLabel`, `SeedAccount`, `SeedCategory`, `SeedKept`, `SeedsDone` | `seedMasterData`: a row that is missing is saved under the name the configured locale's catalogue gives it |
| `Listen`, `Crash` | the rest of `main`; the process or its connection dies |
| `OperatorRename` | the runbook for names that collide before the index is created (OPERATIONS.md) |
| `LabelSave`, `AccountCreate`, `AccountEdit`, `AccountDeactivate`, `AccountUpsert` | handlers of `adapters/http/master-data.ts`; those that read a row first write it in a later statement |
| `CategoryCreate`, `CategoryEdit`, `CategoryDeactivate`, `CategoryCheck`, `CategoryUpsert` | the same, with the list `assertUniqueCategoryName` reads and the unique index behind it |

Migrations are numbers; one of them adds the index of normalized names. A
database is fresh, or comes from a release before that index, when users could
give two categories one name. `Key` is the normalisation of names.

### Pages: `Income`, `Forecast`, `Localization`, `Dashboard`, `DashboardProperties`

`Income` has plans and overrides and their writes. `Forecast` has the arithmetic
of months and of rounding, `Localization` picks the locale of a request. `Dashboard`
adds the other tables, the dashboard, the income page and the list of the ledger.

| Model | Code |
| --- | --- |
| `CreatePlan`, `CreateOverride` | handlers of `adapters/http/income.ts` that are one statement |
| `EditPlan`, `ActivatePlan`, `SavePlan`, `SaveRefused` | `handleUpdateIncome` and the activation: a SELECT, then an upsert of the whole row that the column may refuse |
| `MonthlyIncome`, `Firsts` | `calculateMonthlyIncome`: the first override of a plan and month counts, and the statement orders them by month only |
| `SaveAccount`, `SaveCategory`, `SaveTransaction`, `DeleteTransaction`, `WriteIncome` | the writes of other requests |
| `PageBegin`, `PageRead`, `PageAnswer`, `PageDone` | `GET /` and the income page: query and clock, one statement per table in any order, the answer |
| `Calculate`, `HistoricalAverage`, `MonthlyForecast`, `GroupCategories`, `GroupAccounts` | `calculateDashboard` and what it calls |
| `ListBegin`, `PageRead`, `ListAnswer`, `Listed`, `Named` | `handleListTransactions`: the active categories, then one statement for the rows that the filters leave, and the names shown with them |
| `ReadFilters`, `NextMonth` | `readTransactionFilters`: a month that the locale of the request cannot read is passed over; the bound of the statement |
| `Ranges`, `Preference`, `Ranks`, `Negotiate` | `resolveRequestLocale` and what it calls |
| `MultiplyAndRoundHalfUp`, `Checked` | multiplication in two parts; an amount that is no safe integer makes the page fail |

Months are counted. `entered` and `overlapped` are history: what the
last form of a plan said, and whether an activation held an older row then. So
are `began`, `writes` and `created` of a page.

### CSV files: `ImportProfiles`, `CsvParser`, `Intake`, `IntakeProperties`

`ImportProfiles` has the form of a profile, what is stored of it and what is
shown of what is stored. `CsvParser` has the upload's checks, the automaton and
the outcome of a row. `Intake` runs them for one account, whose rows
come from this and earlier releases. What several requests do at once is the
subject of `Import`, which takes the outcomes as given.

| Model | Code |
| --- | --- |
| `ShowPage`, `SaveProfile`, `SaveProfileRefused`, `FormOf`, `Profile` | `adapters/http/imports.ts`, `csv-import-view-model.ts`, `import-request.ts` |
| `EscapedQuote`, `CloseQuote`, `QuotedCharacter`, `OpenQuote`, `MalformedQuote`, `EndCell`, `EndRecord`, `PlainCharacter`, `EndOfFile` | `parseDelimitedRecords`, one action per branch of its loop |
| `Structured`, `NormalizedRow`, `RowOutcome` | `validateStructure`, `normalizeImportRow` |
| `ImportHash`, `SecondHash`, `LegacyHash`, `MatchesPersisted`, `Duplicate` | `core/imports/csv-import.ts` |
| `Upload`, `Preview`, `StructureRefused`, `Confirm`, `Abandon` | a request for a preview, and what becomes of it |
| `EditPurpose`, `DeleteRow` | later changes of the imported rows |

A text is a sequence of symbols: the characters the automaton tells apart, and
words. A date or an amount of the profile's format is one word, so locale
formats of numbers are outside. A hash is its version and what was hashed.

## Runs

| Run | Question | Bounds |
| --- | --- | --- |
| `import_concurrent` | Are two confirmations of the same or of overlapping batches atomic and complete beside an edit and deletions, do they implement `ImportAbstract`, and are they all answered, though inserts wait for each other? | 1 user, 1 account, 2 contents, 2 batches, 2 confirmations, 1 edit, clock stands still, fair |
| `import_maintenance` | Do rows stay unique, and are batches consumed by their owner, in time and only if valid, with two confirmations, two users and accounts, an unstorable row, the expiry boundary and edits that move rows? | 2 users, 2 accounts, 2 contents, 2 batches, 2 confirmations, 1 edit, lifetime 1, clock up to 1 |
| `import_canonical` | Is a canonical row imported at most once? **Violated** | 1 content, 2 accounts, 2 batches |
| `ledger_rows` | Do all handlers together keep origins truthful and identities fixed, do preview and reapplication agree, and does a reapplication do what its rules say? | 1 row, 2 rule ids of different priority, 2 categories, one edit, preview and reapplication at a time, previews while a row is left to insert |
| `ledger_lost_update` | Does reapplication preserve manual categories? **Violated** | 1 row, 1 rule |
| `sessions` | Do tables, clocks, clean-ups and restores implement `SessionsAbstract`? | 2 sessions, 2 requests, lifetime 1, clean-up limit 1, clock up to 1 |
| `oidc_logins` | Is a state single-use and fresh, and every callback answered? | 1 login, 2 callbacks, lifetime 1, clock up to 2, 1 restore, fair |
| `oidc_rejected_promise` | Does a fresh state reach the exchange when the provider is up? **Violated** | 1 login, 1 callback |
| `master_data` | Do start-ups that die anywhere end up serving a complete schema and inventory without touching existing rows, and do names of categories stay unique? | 2 migrations, a label, an account and a category to seed, 2 locales, 2 categories with 3 names of which 2 normalize alike, 2 requests, 1 crash, fair |
| `dashboard` | What do the totals, groups, averages, forecast and rows of a page relate to when others write between its statements, what does a plan keep, and which locale does a header get? | 2 accounts, 2 categories, 2 transactions, 1 plan, 2 overrides, 2 updates, 1 page, 2 writes, a leap February |
| `income_edit` | Does an edit form submitted unchanged leave its plan unchanged? **Violated** | as `dashboard` |
| `intake` | Are records, outcomes and duplicates exactly those of independent definitions, and profiles stable? | every text of up to 5 symbols out of quote, comma, line feed, carriage return and a letter; statements of up to 3 rows; 2 profiles; 1 edit or deletion |

*Why the bounds are enough to be interesting.* Each hazard above is about two
actors: two confirmations, a writer and a stale reader, a lookup and whatever
ends its session. Two contents in two batches make same, overlapping and
disjoint batches and a cycle of waits. A lifetime of one tick makes "before",
"at" and "after" expiry reachable. A clean-up limit of one among two sessions
makes a batch that does not take everything. Two rules that disagree in every
respect are the least for which priorities matter. Two migrations, the second of
which can fail on the data, and a crash anywhere make every prefix of a start-up.
Two writes beside a page are the least that can show it a mixture of states, one
of which never existed. Texts of five symbols hold every pair of neighbours of
the automaton in every state, an escaped quote with something around it
included. For the properties that are also theorems (see [proofs](#proofs)) the
bounds leave nothing open.

`PageIsSomeMoment` and `FiguresExact` let TLC compare with references that are
written over tables of a moment with exact arithmetic; a page is compared when at
most one write ran beside it, since with two it may show a state that never was.
The averages in `FiguresExact` are limited to years after 1000, because the code
compares months as texts that it pads only there; what is said of the rows of a list
is limited to months from the year 100 to November 9999 (see [findings](#findings)).

`LocaleNegotiated` is about all headers at once; of the state it depends only on the
fallback, in which the behaviours of the run differ. Headers have up to three ranges,
which is what it takes for one to exclude, one to accept and one to apply to both
locales; the theorem has no such bound.

*Symmetry* is used where no definition names a member of the permuted set, and
never in a liveness run.

*Deadlock* is checked in every run. None stops: a confirmation that waits is freed by
its holder or by the abort of a deadlock, and slots become free again.

*Fairness.* `import_concurrent` assumes that a confirmation which can take a
step takes one (the event loop resumes it and PostgreSQL runs its statement or its
deadlock detector: weak fairness of `Confirm(r)`), and that a statement which waits
for a lock and could run again and again finally runs (PostgreSQL queues the waiters
of a lock and wakes them when it is released: strong fairness of `ConsumeBatch(r)`
and `InsertRow(r, c)`). `oidc_logins` assumes weak fairness
of callbacks, and that `fetch` settles, with an answer or an error. `master_data`
assumes that a process which has been started goes on (weak fairness of `Main`);
`StartupServes` excludes a container that nobody starts again. No run
assumes that a user, the provider or the operator does anything. `sessions`,
`ledger_rows`, `dashboard` and `intake` check safety only and state no fairness.

## Findings

Four statements of the repository are not what the code does.

- `import_canonical`: PLAN.md:481 says confirmation "creates each canonical
  transaction at most once". The conflict target is `(account_id, import_hash)`;
  an edit that moves an imported row to another account keeps its hash, and a
  batch previewed earlier then inserts the row again.
- `ledger_lost_update`: OPERATIONS.md:310 says reapplication "preserves
  categories with `manual`, ... origin". It saves whole rows listed at its
  start and overwrites a category chosen by hand meanwhile.
- `oidc_rejected_promise`: PLAN.md:167 lists what creates a session. After one
  failed discovery the cached rejection answers every later callback, although
  the provider is back, until the process is restarted.
- `income_edit`: PLAN.md:548 and :550 say a plan can be edited with its active
  state and that edits round-trip. A box that is not ticked is not sent, and
  `income.ts:272` takes every value but `"off"` for active, so submitting the form
  of an inactive plan activates it.

Each is paired with what does hold: `UniqueImportIdentity`, `OriginTruthful` and
`ReapplicationExact`, `CallbacksAnswered`, `EditsKept`.

Six more disagreements are not runs of their own, because a property of a
passing run states exactly where they begin:

- `SingleUse` allows one session per login *and restore*: a restore brings used
  login states back, and the runbook cleans only `sessions` (PLAN.md:165 says
  login transactions are single-use).
- `PreviewAgrees` has to except a category that is created between the preview's
  two reads: it reads categories before rules, and falls back to
  `category-other` (PLAN.md:520).
- `ProfilesReload` says nothing of the tab: `readDelimiter` reads the delimiter as
  a required text, and a tab trims to nothing, so the choice that
  `csv-import-view-model.ts:97` offers and PLAN.md:419 promises is always refused
  as missing, and the form of a stored profile with a tab cannot be submitted.
- `PageIsSomeMoment` has to except inactive categories: the list reads active ones
  only, so the categories that "remain on historical transactions" (PLAN.md:360)
  are shown there by their id (`transaction-view-model.ts:34`).
- `PageIsSomeMoment` and `FiguresExact` have to except early years and the last month:
  `Date.UTC` takes the years 0 to 99 for those after 1900, so that the month after one
  of these is 1900 years later (`nextMonth`, `precedingMonths`), and a year before 1000
  is written without its leading zeros; the month after December 9999 is written with a
  sign, before all dates. PLAN.md:388 and :599 speak of every month.
- `LocaleNegotiated` has to except headers that name another region of English
  before English itself: the code ranks the two alike. For `en-gb;q=0, en` the first
  controls English and excludes it, although PLAN.md:745 says an exact locale range
  outranks a language-only one.

## Proofs

The proofs hold for any number of users, accounts, contents, batches, rows,
rules, sessions, logins, migrations, seeds, plans, pages, files and requests, for files
of any length, and any lifetimes and limits, from the named assumptions on constants
only. Every safety property that a run checks is a theorem. Each component has an
inductive invariant (`IInv` in `XProperties`; in `Intake` the parts it names), which
TLC confirmed before it was proved, one lemma per conjunct or group of conjuncts with
one step per action, and theorems that follow from `Invariance`.

`NumberFacts` has what several proofs need of numbers, sets and sums. The library's
induction theorems take an operator and cannot be used with the installed provers, so a
statement about all numbers, lengths or finite sets is proved by its least
counterexample (`Least`, `Shrinking`), and what a fold computes is read off the
recursive function it is defined with (`SumFacts`): a sum does not depend on the order
of its elements (`SumsAnyOrder`), and the sums of the classes of a set are its sum
(`SumSplit`).

| Module | Theorems | Why the properties are not inductive, and what `IInv` adds |
| --- | --- | --- |
| `ImportProofs` | `TypeCorrect`, `ImportIdentityUnique`, `NoOrphanRows`, `NoLostRows`, `ConsumptionRightful`, `AtomicConfirmation`, `Refinement` | Uniqueness of committed rows needs that uncommitted keys are in no committed row and no other transaction (`PendingInv`), that a batch past its UPDATE is locked by one confirmation (`RequestInv`), and that late edits write to rows that were held (`EditInv`). |
| `LedgerProofs` | `TypeCorrect`, `OriginsAreTruthful`, `IdentitiesAreKept`, `ReapplicationIsExact`, `PreviewsAgree` | Rows are written back from stale reads, so everything a request holds must be as good as the table (`EditInv`, `OfferInv`, `ReapplyInv`), measured against history that only grows. Its lemmas show that the winning rule is a function of the rules and that recategorizing twice changes nothing. |
| `SessionsProofs` | `TypeCorrect`, `CleanupsSpareLiveSessions`, `RunbookEmptiesTable`, `Refinement` | A selected row is dead for good (`CleanupInv`); a row tells whether its session is live, except between restore and invalidation (`TableInv`); a row read is good exactly if its session was live then and has not expired since (`HandlerInv`); a repeated command selects something while rows are left (`RecoveryInv`). |
| `OidcLoginProofs` | `TypeCorrect`, `LoginsAreSingleUse`, `LoginsAreFresh` | A login whose row can still be consumed, or that has a callback past the consumption, has a session to spare, and such a callback is alone (`SpareInv`). |
| `MasterDataProofs` | `TypeCorrect`, `NamesStayUnique`, `MigrationsAreAtomic`, `ServesSeeded`, `SeedsFindTheirNames`, `StartupSparesRows` | How far `main` has come tells which migrations are recorded and which rows exist, and an open transaction is the one it is at (`BootInv`). As long as a seed is missing, every category is a seed under a name from some catalogue (`SeedInv`), and `CatalogueAssumption` keeps those apart in all locales at once. |
| `DashboardProofs` | `RoundsOnce`, `LocaleChosen`, `TypeCorrect`, `ActivationsKeepTerms`, `TotalsReconcile`, `ShowsAMoment`, `FiguresAreExact` | An activation holds the terms its plan has, unless a form was saved since it read them (`SavesInv`). Each table a page has read is the one it began with or, when it was written once, the one that is there (`MomentInv`), and what it read of a transaction's account and category exists unless it was created beside the page (`ReadInv`, from the foreign keys in `TablesOK`). The groups are then the classes of the rows that make the expense (`MagnitudesSplit`), the average of a window the sum of its months (`WindowExact`), and by `RoundsOnce` the two-part multiplication is the exact product rounded half up, or fails exactly when that is no safe integer. `LocaleChosen` is about headers of any length: the preference exists because specificities are bounded and places are numbers, and two locales always compare. |
| `IntakeProofs` | `TypeCorrect`, `ProfilesRoundTrip`, `ParsesQuoted`, `InvalidRowsTold`, `DuplicatesTold`, `ReimportsNothing` | A stored row is the profile of the form that shows it (`Kept`, `ProfilesInv`): texts are trimmed once and trimming is idempotent. What the automaton has of a cell, a record and a file is what the grammar, which counts quotes and has no states, says of the text before its position (`ScanInv`, `GrammarInv`), and stays what the preview is made of (`ParsedInv`). A preview's outcomes are those of its rows as long as it is shown (`PreviewInv`), and the first check that fails names something wrong with the row (`OutcomeTold`). What the table has of an imported row does not change and no two rows share a hash (`LedgerInv`), so the texts that are hashed compare as the fields do, and what was importable in a confirmed file is a duplicate in every later reading of it (`ConfirmedInv`). |

`Refinement` of imports and of sessions is step simulation: under `IInv` every
initial state maps to an initial state of the abstract module and every step to a
step or a stutter.

What the proofs assume of the constants is what the database and the handlers
guarantee. The tables at the beginning are well typed with valid foreign keys
(`StartDatabasesAssumption`) and have finitely many ids (`IdsAssumption`); rows of
earlier releases have hashes made of their fields, each once (`LegacyAssumption`); a
file is a sequence of characters (`FilesAssumption`); the quote is no white space and no
delimiter (`QuoteAssumption`), and the bar that joins the fields of a hash is a word
that is its own lower case (`BarAssumption`). TLC evaluates them all for its instances.

Model-checked only: liveness (`ConfirmationsEnd`, `CallbacksAnswered`,
`StartupServes`), which is beyond the prover, and the violations, which are
counterexamples.

## What is not covered

- Characters: Unicode normalisation, upper and lower case are functions on words
  (`Lower`, `Fold`, `Key`); the formats of dates and of amounts are one word each.
  Decoding is whether the bytes are UTF-8.
- Columns that no handler treats differently (date, note and status of a row in
  `Ledger` and `Import`, sort orders, owner labels on pages), and the flag by which a
  rule could be disabled: every form of a rule saves it enabled.
- When a confirmation's UPDATE runs by the clock of the wall: `ConsumedRightfully` is
  about the reading the request took before, as is the condition of the UPDATE.
- Message catalogues, the formats of amounts and dates, and the headers that name
  the locale of an answer.
- The five-connection pool: no handler acquires a connection while it holds
  another, so waiting for one delays a request without blocking the holder.
- Two application processes at once; the deployment runs one.
- The provider beyond up, down and codes bound to logins.
- Which of two concurrent edits of the same master data row survives: the later
  one, and nothing in the repository says which should.
- Request lifecycle, logging, configuration and views keep no
  state beyond one request. The in-memory repositories are test doubles, and the
  scripts are not part of the running system.

## Plan

Built, in this order: `Import`, `Ledger` with `Categorization`, `Sessions`,
`OidcLogin`, `MasterData`, `Income` with `Forecast` and `Dashboard`, and
`ImportProfiles` with `CsvParser` and `Intake`. Next, by importance:

1. `Auth`, composing `Sessions` and `OidcLogin`: one restart, one restore, one
   clock, a callback that creates a session. Theorem: a session exists only for
   a consumed login.
2. A refinement of `Dashboard` by an abstract page that answers from one database,
   for pages with at most one write beside them.
3. `MasterData` under `Import` and `Ledger`: an account or a category that is
   deactivated between a form and its submission.
4. Amounts and dates as the locales write and read them.

## How to run

In this directory, with TLC and TLAPS on the path:

    tlc -workers 2 -config ImportConcurrent.cfg MCImport
    tlapm ImportProofs.tla

The module of each configuration is in `PROJECT.json`. The longest
runs, `import_maintenance`, `dashboard`, `sessions`, `oidc_logins` and `intake`, take
one to three minutes, and the longest proofs, `IntakeProofs` and `DashboardProofs`,
three to five.
