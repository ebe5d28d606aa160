----------------------------- MODULE MasterData -----------------------------
(***************************************************************************)
(* Master data and the start-up that prepares it.  A process runs the      *)
(* migrations that are not recorded yet, seeds the owner labels, accounts  *)
(* and categories that are missing, and only then listens; the             *)
(* maintenance handlers it then serves read a row, and upsert all of its   *)
(* columns in a later statement.                                           *)
(*                                                                         *)
(* Ids are the primary keys; names are the trimmed, non-empty names a form *)
(* or a catalogue carries.  A form that fails validation changes nothing   *)
(* and is left out.  No row is ever deleted.                               *)
(***************************************************************************)
EXTENDS Integers, Sequences, FiniteSets

CONSTANTS
  Owners,        \* owner contexts
  Accounts,      \* account ids
  Categories,    \* category ids
  Labels,        \* labels of owners
  Titles,        \* names of accounts
  Names,         \* names of categories
  Key,           \* normalizeCategoryName: names to normalized names
  Locales,       \* locales the process may be configured with
  Seeds,         \* the inventory, in the order it is seeded
  SeedName,      \* seedName of each locale and seed
  Migrations,    \* how many migration files there are
  IndexedBy,     \* the migration that adds the index of normalized names
  Requests,      \* slots for requests in flight
  MaxCrashes,    \* bound on the crashes of a behaviour
  NoRow,         \* a table has no row of that id
  Idle           \* a slot without a request

Account == [name : Titles, owner : Owners, active : BOOLEAN]
Category == [name : Names, active : BOOLEAN]
AccountTable == [Accounts -> Account \cup {NoRow}]
CategoryTable == [Categories -> Category \cup {NoRow}]
Table == [label |-> Owners, account |-> Accounts, category |-> Categories]
Seed == {s \in [table : DOMAIN Table, id : Owners \cup Accounts \cup Categories,
                owner : Owners] : s.id \in Table[s.table]}

\* A request between two of its statements, with the row it will write.
AccountSave == [of : {"account"}, id : Accounts, next : Account]
CategorySave == [of : {"category"}, id : Categories, next : Category, checked : BOOLEAN]
Save == AccountSave \cup CategorySave

ASSUME KeyAssumption == DOMAIN Key = Names
ASSUME SeedsAssumption == Seeds \in Seq(Seed)
ASSUME SeedNameAssumption == SeedName \in [Locales -> [1..Len(Seeds) -> Labels \cup Titles \cup Names]]
ASSUME SeedKindAssumption ==
  \A l \in Locales, i \in 1..Len(Seeds) :
    SeedName[l][i] \in [label |-> Labels, account |-> Titles,
                         category |-> Names][Seeds[i].table]
\* The catalogues give different categories different names, in all locales at once.
ASSUME CatalogueAssumption ==
  \A l, k \in Locales, i, j \in 1..Len(Seeds) :
    /\ Seeds[i].table = "category" /\ Seeds[j].table = "category"
    /\ Key[SeedName[l][i]] = Key[SeedName[k][j]]
    => Seeds[i].id = Seeds[j].id
ASSUME MigrationsAssumption == Migrations \in Nat /\ IndexedBy \in 1..Migrations
ASSUME BoundsAssumption == MaxCrashes \in Nat
ASSUME NoRowAssumption == NoRow \notin Account \cup Category \cup Labels
ASSUME IdleAssumption == Idle \notin Save

VARIABLES
  app,           \* how far main has come
  at,            \* the migration or seed main is at
  locale,        \* the configured locale
  open,          \* the migration executed in an open transaction, or 0
  applied,       \* migrations whose statements are in the database
  recorded,      \* schema_migrations
  labels,        \* owner_context_labels
  accounts,      \* accounts
  categories,    \* categories; normalized_name is Key of the name
  requests,      \* maintenance requests in flight
  crashes,       \* how many crashes there were
  refused        \* history: a seed found its name taken

tables == <<labels, accounts, categories>>
schema == <<open, applied, recorded>>
vars == <<app, at, locale, schema, tables, requests, crashes, refused>>

TypeOK ==
  /\ app \in {"down", "migrating", "seeding", "cleaning", "serving"}
  /\ at \in 1..(Migrations + Len(Seeds) + 1)
  /\ locale \in Locales
  /\ open \in 0..Migrations
  /\ applied \subseteq 1..Migrations
  /\ recorded \subseteq 1..Migrations
  /\ labels \in [Owners -> Labels \cup {NoRow}]
  /\ accounts \in AccountTable
  /\ categories \in CategoryTable
  /\ requests \in [Requests -> Save \cup {Idle}]
  /\ crashes \in 0..MaxCrashes
  /\ refused \in BOOLEAN

Exists(table, id) == table[id] # NoRow

NewAccount(n, o) == [name |-> n, owner |-> o, active |-> TRUE]

\* Fault: the flag has no default.
NewCategory_Unset(n) == [name |-> n, active |-> NoRow]

NewCategory(n) == [name |-> n, active |-> TRUE]

\* Seed i has its row.
Seeded(i) ==
  CASE Seeds[i].table = "label" -> Exists(labels, Seeds[i].id)
    [] Seeds[i].table = "account" -> Exists(accounts, Seeds[i].id)
    [] Seeds[i].table = "category" -> Exists(categories, Seeds[i].id)

\* Another category of the table has the normalized name of n.
Taken(c, n) ==
  \E d \in Categories \ {c} :
    Exists(categories, d) /\ Key[categories[d].name] = Key[n]

Collision == \E c \in Categories : Exists(categories, c) /\ Taken(c, categories[c].name)

\* A fresh database, or one served by a version from before the index, whose
\* users could give two categories one name.
Init ==
  /\ app = "down"
  /\ at = 1
  /\ locale \in Locales
  /\ open = 0
  /\ requests = [r \in Requests |-> Idle]
  /\ crashes = 0
  /\ refused = FALSE
  /\ \/ /\ applied = {} /\ recorded = {}
        /\ labels = [o \in Owners |-> NoRow]
        /\ accounts = [a \in Accounts |-> NoRow]
        /\ categories = [c \in Categories |-> NoRow]
     \/ /\ applied = 1..(IndexedBy - 1) /\ recorded = applied
        /\ labels \in [Owners -> Labels]
        /\ accounts \in [Accounts -> Account \cup {NoRow}]
        /\ categories \in [Categories -> Category \cup {NoRow}]
        /\ \A i \in 1..Len(Seeds) : Seeded(i)

-----------------------------------------------------------------------------
(* main: migrate, seedMasterData, the session clean-up, listen.            *)

\* An operator starts the container, with the locale the configuration has then.
Boot ==
  /\ app = "down"
  /\ app' = "migrating" /\ at' = 1
  /\ locale' \in Locales
  /\ UNCHANGED <<schema, tables, requests, crashes, refused>>

\* main throws, and the process exits: an open transaction rolls back.
Exit ==
  /\ app' = "down" /\ at' = 1
  /\ open' = 0

MigrationSkip ==
  /\ app = "migrating" /\ open = 0 /\ at \in recorded
  /\ at' = at + 1
  /\ UNCHANGED <<app, locale, schema, tables, requests, crashes, refused>>

\* The statements of a migration fail where they were applied before, and the
\* index where two categories have one normalized name.
StatementFails(m) == m \in applied \/ (m = IndexedBy /\ Collision)

\* Fault: the statements run outside the transaction.
Execute_Autocommit(m) == applied' = applied \cup {m} /\ open' = m

Execute(m) == applied' = applied /\ open' = m

MigrationExecute ==
  /\ app = "migrating" /\ open = 0 /\ at \in 1..Migrations \ recorded
  /\ ~StatementFails(at)
  /\ Execute(at)
  /\ UNCHANGED <<app, at, locale, recorded, tables, requests, crashes, refused>>

MigrationFails ==
  /\ app = "migrating" /\ open = 0 /\ at \in 1..Migrations \ recorded
  /\ StatementFails(at)
  /\ Exit
  /\ UNCHANGED <<locale, applied, recorded, tables, requests, crashes, refused>>

\* The INSERT into schema_migrations, and COMMIT.
MigrationRecord ==
  /\ app = "migrating" /\ open # 0
  /\ applied' = applied \cup {open}
  /\ recorded' = recorded \cup {open}
  /\ open' = 0
  /\ at' = at + 1
  /\ UNCHANGED <<app, locale, tables, requests, crashes, refused>>

MigrationsDone ==
  /\ app = "migrating" /\ open = 0 /\ at = Migrations + 1
  /\ app' = "seeding" /\ at' = 1
  /\ UNCHANGED <<locale, schema, tables, requests, crashes, refused>>

NameOfSeed(i) == SeedName[locale][i]

\* Fault: a seed is saved whether or not its row exists.
Missing_Always(i) == TRUE

Missing(i) == ~Seeded(i)

\* The get and the save of one seed.  Nothing else runs yet, so a crash between
\* the two is one before them.
SeedStep(table) ==
  /\ app = "seeding" /\ at \in 1..Len(Seeds)
  /\ Seeds[at].table = table /\ Missing(at)

SeedLabel ==
  /\ SeedStep("label")
  /\ labels' = [labels EXCEPT ![Seeds[at].id] = NameOfSeed(at)]
  /\ at' = at + 1
  /\ UNCHANGED <<app, locale, schema, accounts, categories, requests, crashes,
                 refused>>

SeedAccount ==
  /\ SeedStep("account")
  /\ accounts' = [accounts EXCEPT ![Seeds[at].id] = NewAccount(NameOfSeed(at), Seeds[at].owner)]
  /\ at' = at + 1
  /\ UNCHANGED <<app, locale, schema, labels, categories, requests, crashes,
                 refused>>

\* Saving a category checks its name, and main exits if another one has it.
SeedCategory ==
  /\ SeedStep("category")
  /\ LET c == Seeds[at].id
         taken == Taken(c, NameOfSeed(at)) IN
       /\ categories' = IF taken THEN categories
                        ELSE [categories EXCEPT ![c] = NewCategory(NameOfSeed(at))]
       /\ refused' = (refused \/ taken)
       /\ app' = IF taken THEN "down" ELSE app
       /\ at' = IF taken THEN 1 ELSE at + 1
  /\ UNCHANGED <<locale, schema, labels, accounts, requests, crashes>>

SeedKept ==
  /\ app = "seeding" /\ at \in 1..Len(Seeds)
  /\ ~Missing(at)
  /\ at' = at + 1
  /\ UNCHANGED <<app, locale, schema, tables, requests, crashes, refused>>

SeedsDone ==
  /\ app = "seeding" /\ at = Len(Seeds) + 1
  /\ app' = "cleaning" /\ at' = 1
  /\ UNCHANGED <<locale, schema, tables, requests, crashes, refused>>

\* The session clean-up is over (module Sessions) and the server listens.
Listen ==
  /\ app = "cleaning"
  /\ app' = "serving"
  /\ UNCHANGED <<at, locale, schema, tables, requests, crashes, refused>>

\* The process or its connection dies: requests in flight are lost, and so is
\* the open transaction.
Crash ==
  /\ app # "down" /\ crashes < MaxCrashes
  /\ crashes' = crashes + 1
  /\ requests' = [r \in Requests |-> Idle]
  /\ Exit
  /\ UNCHANGED <<locale, applied, recorded, tables, refused>>

\* The migration runbook: the operator renames one of two colliding categories.
OperatorRename ==
  /\ app = "down" /\ IndexedBy \notin recorded /\ Collision
  /\ \E c \in Categories, n \in Names :
       /\ Exists(categories, c) /\ Taken(c, categories[c].name) /\ ~Taken(c, n)
       /\ categories' = [categories EXCEPT ![c].name = n]
  /\ UNCHANGED <<app, at, locale, schema, labels, accounts, requests, crashes,
                 refused>>

-----------------------------------------------------------------------------
(* The maintenance handlers.                                               *)

\* Fault: main does not wait for the seeds before it listens.
Serving_Early == app \in {"seeding", "cleaning", "serving"}

Serving == app = "serving"

Begins(r) == Serving /\ requests[r] = Idle

system == <<app, at, locale, schema, crashes, refused>>

Hold(r, save) == requests' = [requests EXCEPT ![r] = save]
Release(r) == requests' = [requests EXCEPT ![r] = Idle]

LabelSave(r) ==
  /\ Begins(r)
  /\ \E o \in Owners, n \in Labels : labels' = [labels EXCEPT ![o] = n]
  /\ UNCHANGED <<system, accounts, categories, requests>>

AccountCreate(r) ==
  /\ Begins(r)
  /\ \E a \in Accounts, n \in Titles, o \in Owners :
       /\ ~Exists(accounts, a)
       /\ accounts' = [accounts EXCEPT ![a] = NewAccount(n, o)]
  /\ UNCHANGED <<system, labels, categories, requests>>

AccountEdit(r) ==
  /\ Begins(r)
  /\ \E a \in Accounts, form \in Account :
       Exists(accounts, a) /\ Hold(r, [of |-> "account", id |-> a, next |-> form])
  /\ UNCHANGED <<system, tables>>

AccountDeactivate(r) ==
  /\ Begins(r)
  /\ \E a \in Accounts :
       /\ Exists(accounts, a)
       /\ Hold(r, [of |-> "account", id |-> a,
                   next |-> [accounts[a] EXCEPT !.active = FALSE]])
  /\ UNCHANGED <<system, tables>>

AccountUpsert(r) ==
  /\ requests[r] # Idle /\ requests[r].of = "account"
  /\ accounts' = [accounts EXCEPT ![requests[r].id] = requests[r].next]
  /\ Release(r)
  /\ UNCHANGED <<system, labels, categories>>

Writing(c, row, checked) ==
  [of |-> "category", id |-> c, next |-> row, checked |-> checked]

\* createCategory, and the list and check its save begins with.
CategoryCreate(r) ==
  /\ Begins(r)
  /\ \E c \in Categories, n \in Names :
       /\ ~Exists(categories, c)
       /\ \A q \in Requests : requests[q] # Idle => requests[q].id # c
       /\ ~Taken(c, n)
       /\ Hold(r, Writing(c, NewCategory(n), TRUE))
  /\ UNCHANGED <<system, tables>>

CategoryEdit(r) ==
  /\ Begins(r)
  /\ \E c \in Categories, form \in Category :
       Exists(categories, c) /\ Hold(r, Writing(c, form, FALSE))
  /\ UNCHANGED <<system, tables>>

CategoryDeactivate(r) ==
  /\ Begins(r)
  /\ \E c \in Categories :
       /\ Exists(categories, c)
       /\ Hold(r, Writing(c, [categories[c] EXCEPT !.active = FALSE], FALSE))
  /\ UNCHANGED <<system, tables>>

\* assertUniqueCategoryName over the list read just before.
CategoryCheck(r) ==
  /\ requests[r] # Idle /\ requests[r].of = "category" /\ ~requests[r].checked
  /\ IF Taken(requests[r].id, requests[r].next.name)
     THEN Release(r)
     ELSE requests' = [requests EXCEPT ![r].checked = TRUE]
  /\ UNCHANGED <<system, tables>>

\* Fault: there is no unique index, as before migration 16.
IndexRefuses_Never(c, n) == FALSE

IndexRefuses(c, n) == Taken(c, n)

\* The upsert: the index refuses what the check, made earlier, let through.
CategoryUpsert(r) ==
  /\ requests[r] # Idle /\ requests[r].of = "category" /\ requests[r].checked
  /\ categories' = IF IndexRefuses(requests[r].id, requests[r].next.name) THEN categories
                   ELSE [categories EXCEPT ![requests[r].id] = requests[r].next]
  /\ Release(r)
  /\ UNCHANGED <<system, labels, accounts>>

-----------------------------------------------------------------------------
Main ==
  \/ MigrationSkip \/ MigrationExecute \/ MigrationFails \/ MigrationRecord
  \/ MigrationsDone \/ SeedLabel \/ SeedAccount \/ SeedCategory \/ SeedKept
  \/ SeedsDone \/ Listen

Handlers(r) ==
  \/ LabelSave(r)
  \/ AccountCreate(r) \/ AccountEdit(r) \/ AccountDeactivate(r) \/ AccountUpsert(r)
  \/ CategoryCreate(r) \/ CategoryEdit(r) \/ CategoryDeactivate(r)
  \/ CategoryCheck(r) \/ CategoryUpsert(r)

Next == Boot \/ Main \/ Crash \/ OperatorRename \/ (\E r \in Requests : Handlers(r))

\* A process that was started goes on: nothing but a crash stops main while it can.
Spec == Init /\ [][Next]_vars /\ WF_vars(Main)
=============================================================================
