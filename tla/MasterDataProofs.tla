-------------------------- MODULE MasterDataProofs --------------------------
(***************************************************************************)
(* The safety properties of MasterDataProperties, for every inventory of   *)
(* seeds, number of migrations, set of locales and number of requests.     *)
(***************************************************************************)
EXTENDS MasterDataProperties, TLAPS

USE MigrationsAssumption, BoundsAssumption

LEMMA SeedsFacts == Len(Seeds) \in Nat /\ \A i \in 1..Len(Seeds) : Seeds[i] \in Seed
BY SeedsAssumption

LEMMA NoRowFacts ==
  /\ \A n \in Labels : n # NoRow
  /\ \A row \in Account \cup Category : row # NoRow
BY NoRowAssumption

SeedSteps == SeedLabel \/ SeedAccount \/ SeedCategory \/ SeedKept
MigrationSteps == MigrationSkip \/ MigrationExecute \/ MigrationFails \/ MigrationRecord

\* A seed has the id and the name of a row of its table.
LEMMA SeedFacts ==
  ASSUME NEW i \in 1..Len(Seeds), NEW l \in Locales
  PROVE  /\ Seeds[i].table \in {"label", "account", "category"}
         /\ Seeds[i].table = "label" => Seeds[i].id \in Owners /\ SeedName[l][i] \in Labels
         /\ Seeds[i].table = "account" => /\ Seeds[i].id \in Accounts
                                          /\ Seeds[i].owner \in Owners
                                          /\ SeedName[l][i] \in Titles
         /\ Seeds[i].table = "category" => Seeds[i].id \in Categories /\ SeedName[l][i] \in Names
<1>1. Seeds[i] \in Seed
  BY SeedsFacts
<1>2. DOMAIN Table = {"label", "account", "category"}
  BY DEF Table
<1>3. Table["label"] = Owners /\ Table["account"] = Accounts /\ Table["category"] = Categories
  BY DEF Table
<1>4. SeedName[l][i] \in [label |-> Labels, account |-> Titles, category |-> Names][Seeds[i].table]
  BY SeedKindAssumption
<1> QED
  BY <1>1, <1>2, <1>3, <1>4 DEF Seed

\* What a request holds is for one of the two tables.
LEMMA SaveFacts ==
  ASSUME NEW s \in Save
  PROVE  /\ s.of = "account" => s.id \in Accounts /\ s.next \in Account
         /\ s.of = "category" => /\ s.id \in Categories /\ s.next \in Category
                                 /\ s.checked \in BOOLEAN
                                 /\ s.next.name \in Names
                                 /\ [s EXCEPT !.checked = TRUE] \in CategorySave
         /\ s # Idle
<1>1. "account" # "category"
  OBVIOUS
<1> QED
  BY <1>1, IdleAssumption DEF Save, AccountSave, CategorySave, Category

LEMMA InitInvariant == Init => IInv
<1> SUFFICES ASSUME Init PROVE IInv
  OBVIOUS
<1>1. TypeOK
  <2>1. app \in {"down", "migrating", "seeding", "cleaning", "serving"} /\ refused \in BOOLEAN
    BY DEF Init
  <2>7. at \in 1..(Migrations + Len(Seeds) + 1)
    BY SeedsFacts DEF Init
  <2>2. locale \in Locales /\ open \in 0..Migrations /\ crashes \in 0..MaxCrashes
    BY DEF Init
  <2>6. requests \in [Requests -> Save \cup {Idle}]
    BY DEF Init
  <2>3. applied \subseteq 1..Migrations /\ recorded \subseteq 1..Migrations
    BY DEF Init
  <2>4. labels \in [Owners -> Labels \cup {NoRow}]
    BY DEF Init
  <2>5. accounts \in AccountTable /\ categories \in CategoryTable
    BY DEF Init, AccountTable, CategoryTable
  <2> QED
    BY <2>1, <2>2, <2>3, <2>4, <2>5, <2>6, <2>7 DEF TypeOK
<1>2. BootInv
  <2>1. MigrationsOnce /\ open = 0 /\ app = "down" /\ requests = [r \in Requests |-> Idle]
    BY DEF Init, MigrationsOnce
  <2> QED
    BY <2>1 DEF BootInv
<1>3. SeedInv
  <2>1. \/ categories = [c \in Categories |-> NoRow]
        \/ \A i \in 1..Len(Seeds) : Seeded(i)
    BY DEF Init
  <2> QED
    BY <2>1 DEF SeedInv, Exists
<1>4. StartupNeverRefused /\ CategoryNamesUnique
  BY DEF Init, StartupNeverRefused, CategoryNamesUnique
<1> QED
  BY <1>1, <1>2, <1>3, <1>4 DEF IInv

-----------------------------------------------------------------------------
(* Types.                                                                  *)

\* The seed at which main is, and the places it may go on at.
LEMMA SeedAt ==
  ASSUME TypeOK, SeedSteps
  PROVE  /\ at \in 1..Len(Seeds) /\ locale \in Locales /\ app = "seeding"
         /\ {at + 1, 1} \subseteq 1..(Migrations + Len(Seeds) + 1)
<1>1. at \in 1..Len(Seeds) /\ app = "seeding"
  BY DEF SeedSteps, SeedLabel, SeedAccount, SeedCategory, SeedKept, SeedStep
<1>2. locale \in Locales
  BY DEF TypeOK
<1> QED
  BY <1>1, <1>2, SeedsFacts

LEMMA SeedTypes == TypeOK /\ SeedSteps => TypeOK'
<1> SUFFICES ASSUME TypeOK, SeedSteps PROVE TypeOK'
  OBVIOUS
<1>1. /\ at \in 1..Len(Seeds) /\ locale \in Locales
      /\ {at + 1, 1} \subseteq 1..(Migrations + Len(Seeds) + 1)
  BY SeedAt
<1>2. CASE SeedLabel
  <2>1. NameOfSeed(at) \in Labels
    BY <1>1, <1>2, SeedFacts DEF SeedLabel, SeedStep, NameOfSeed
  <2>2. labels' \in [Owners -> Labels \cup {NoRow}]
    BY <1>2, <2>1 DEF TypeOK, SeedLabel
  <2> QED
    BY <1>1, <1>2, <2>2 DEF TypeOK, SeedLabel, schema
<1>3. CASE SeedAccount
  <2>1. NewAccount(NameOfSeed(at), Seeds[at].owner) \in Account
    BY <1>1, <1>3, SeedFacts DEF SeedAccount, SeedStep, NameOfSeed, NewAccount, Account
  <2>2. accounts' \in AccountTable
    BY <1>3, <2>1 DEF TypeOK, SeedAccount, AccountTable
  <2> QED
    BY <1>1, <1>3, <2>2 DEF TypeOK, SeedAccount, schema
<1>4. CASE SeedCategory
  <2>1. NewCategory(NameOfSeed(at)) \in Category
    BY <1>1, <1>4, SeedFacts DEF SeedCategory, SeedStep, NameOfSeed, NewCategory, Category
  <2>2. categories' \in CategoryTable
    BY <1>4, <2>1 DEF TypeOK, SeedCategory, CategoryTable
  <2>3. refused' \in BOOLEAN
    BY <1>4 DEF TypeOK, SeedCategory, Taken
  <2>4. app' \in {"down", "migrating", "seeding", "cleaning", "serving"} /\ at' \in {at + 1, 1}
    BY <1>4 DEF TypeOK, SeedCategory
  <2> QED
    BY <1>1, <1>4, <2>2, <2>3, <2>4 DEF TypeOK, SeedCategory, schema
<1>5. CASE SeedKept
  BY <1>1, <1>5 DEF TypeOK, SeedKept, schema, tables
<1> QED
  BY <1>2, <1>3, <1>4, <1>5 DEF SeedSteps

LEMMA BootTypes ==
  TypeOK /\ BootInv /\ (Boot \/ MigrationSteps \/ MigrationsDone \/ SeedsDone \/ Listen \/ Crash
             \/ OperatorRename) => TypeOK'
<1> SUFFICES ASSUME TypeOK, BootInv,
                    Boot \/ MigrationSteps \/ MigrationsDone \/ SeedsDone \/ Listen \/ Crash
                      \/ OperatorRename
             PROVE TypeOK'
  OBVIOUS
<1>1. Len(Seeds) \in Nat
  BY SeedsFacts
<1>2. CASE Boot \/ MigrationsDone \/ SeedsDone \/ Listen
  <2>1. /\ app' \in {"migrating", "seeding", "cleaning", "serving"}
        /\ at' \in {at, 1}
        /\ locale' \in Locales
        /\ UNCHANGED <<schema, tables, requests, crashes, refused>>
    BY <1>2 DEF TypeOK, Boot, MigrationsDone, SeedsDone, Listen
  <2> QED
    BY <1>1, <2>1 DEF TypeOK, schema, tables
<1>3. CASE MigrationSkip \/ MigrationExecute \/ MigrationFails
  <2>1. /\ app' \in {app, "down"} /\ open' \in {open, at, 0}
        /\ at \in 1..Migrations /\ at' \in {at, at + 1, 1}
        /\ UNCHANGED <<locale, applied, recorded, tables, requests, crashes, refused>>
    BY <1>3 DEF TypeOK, MigrationSkip, MigrationExecute, MigrationFails, Execute, Exit, schema
  <2> QED
    BY <1>1, <2>1 DEF TypeOK, tables
<1>4. CASE MigrationRecord
  <2>1. open \in 1..Migrations /\ at = open
    BY <1>4 DEF TypeOK, BootInv, MigrationRecord
  <2>2. at + 1 \in 1..(Migrations + Len(Seeds) + 1)
    BY <1>1, <2>1
  <2> QED
    BY <1>1, <1>4, <2>1, <2>2 DEF TypeOK, MigrationRecord, tables
<1>5. CASE Crash
  BY <1>1, <1>5 DEF TypeOK, Crash, Exit, tables
<1>6. CASE OperatorRename
  <2>1. categories' \in CategoryTable
    BY <1>6 DEF TypeOK, OperatorRename, CategoryTable, Category, Exists
  <2> QED
    BY <1>6, <2>1 DEF TypeOK, OperatorRename, schema
<1> QED
  BY <1>2, <1>3, <1>4, <1>5, <1>6 DEF MigrationSteps

LEMMA HandlerTypes == ASSUME NEW r \in Requests PROVE TypeOK /\ Handlers(r) => TypeOK'
<1> SUFFICES ASSUME TypeOK, Handlers(r) PROVE TypeOK'
  OBVIOUS
<1> USE DEF TypeOK, system, schema, tables
<1>1. CASE LabelSave(r)
  BY <1>1 DEF LabelSave
<1>2. CASE AccountCreate(r)
  BY <1>2 DEF AccountCreate, NewAccount, AccountTable, Account
<1>3. CASE AccountEdit(r) \/ AccountDeactivate(r)
  <2>1. PICK a \in Accounts, row \in Account :
          requests' = [requests EXCEPT ![r] = [of |-> "account", id |-> a, next |-> row]]
    BY <1>3 DEF AccountEdit, AccountDeactivate, Hold, AccountTable, Account, Exists
  <2>2. [of |-> "account", id |-> a, next |-> row] \in Save
    BY DEF Save, AccountSave
  <2> QED
    BY <1>3, <2>1, <2>2 DEF AccountEdit, AccountDeactivate
<1>4. CASE AccountUpsert(r)
  <2>1. requests[r] \in Save /\ requests[r].of = "account"
    BY <1>4 DEF AccountUpsert
  <2> QED
    BY <1>4, <2>1, SaveFacts DEF AccountUpsert, Release, AccountTable
<1>5. CASE CategoryCreate(r) \/ CategoryEdit(r) \/ CategoryDeactivate(r)
  <2>1. PICK c \in Categories, row \in Category, checked \in BOOLEAN :
          requests' = [requests EXCEPT ![r] = Writing(c, row, checked)]
    BY <1>5 DEF CategoryCreate, CategoryEdit, CategoryDeactivate, Hold, CategoryTable,
                Category, Exists, NewCategory
  <2>2. Writing(c, row, checked) \in Save
    BY DEF Writing, Save, CategorySave
  <2> QED
    BY <1>5, <2>1, <2>2 DEF CategoryCreate, CategoryEdit, CategoryDeactivate
<1>6. CASE CategoryCheck(r)
  <2>1. requests[r] \in Save /\ requests[r].of = "category"
    BY <1>6 DEF CategoryCheck
  <2> QED
    BY <1>6, <2>1, SaveFacts DEF CategoryCheck, Release, Save
<1>7. CASE CategoryUpsert(r)
  <2>1. requests[r] \in Save /\ requests[r].of = "category"
    BY <1>7 DEF CategoryUpsert
  <2> QED
    BY <1>7, <2>1, SaveFacts DEF CategoryUpsert, Release, CategoryTable
<1> QED
  BY <1>1, <1>2, <1>3, <1>4, <1>5, <1>6, <1>7 DEF Handlers

LEMMA TypeStep == IInv /\ [Next]_vars => TypeOK'
<1>1. UNCHANGED vars /\ TypeOK => TypeOK'
  BY DEF vars, schema, tables, TypeOK
<1> QED
  BY <1>1, SeedTypes, BootTypes, HandlerTypes DEF Next, Main, SeedSteps, MigrationSteps, IInv

-----------------------------------------------------------------------------
(* Rows and names.                                                         *)

\* No step removes a row.
LEMMA RowsStay ==
  ASSUME TypeOK, [Next]_vars
  PROVE  /\ \A o \in Owners : Exists(labels, o) => Exists(labels', o)
         /\ \A a \in Accounts : Exists(accounts, a) => Exists(accounts', a)
         /\ \A c \in Categories : Exists(categories, c) => Exists(categories', c)
<1> DEFINE Claim == /\ \A o \in Owners : labels[o] # NoRow => labels'[o] # NoRow
                    /\ \A a \in Accounts : accounts[a] # NoRow => accounts'[a] # NoRow
                    /\ \A c \in Categories : categories[c] # NoRow => categories'[c] # NoRow
<1> SUFFICES Claim
  BY DEF Exists
<1>1. UNCHANGED tables => Claim
  BY DEF tables
<1>2. SeedSteps => Claim
  <2>1. CASE SeedLabel
    BY <2>1 DEF SeedLabel, SeedStep, Missing, Seeded, Exists
  <2>2. CASE SeedAccount
    BY <2>2 DEF SeedAccount, SeedStep, Missing, Seeded, Exists
  <2>3. CASE SeedCategory
    BY <2>3 DEF SeedCategory, SeedStep, Missing, Seeded, Exists
  <2> QED
    BY <1>1, <2>1, <2>2, <2>3 DEF SeedSteps, SeedKept
<1>3. OperatorRename => Claim
  <2>1. \A c \in Categories, n \in Names :
          categories[c] # NoRow => [categories[c] EXCEPT !.name = n] # NoRow
    BY NoRowFacts DEF TypeOK, CategoryTable, Category
  <2> QED
    BY <2>1 DEF OperatorRename, Exists, TypeOK, CategoryTable
<1>4. ASSUME NEW r \in Requests, Handlers(r) PROVE Claim
  <2>1. CASE LabelSave(r)
    BY <2>1, NoRowFacts DEF LabelSave, TypeOK
  <2>2. CASE AccountCreate(r)
    BY <2>2, NoRowFacts DEF AccountCreate, Exists, TypeOK, AccountTable
  <2>3. CASE AccountUpsert(r)
    <3>1. requests[r] \in Save /\ requests[r].next # NoRow
      BY <2>3, SaveFacts, NoRowFacts DEF AccountUpsert, TypeOK
    <3> QED
      BY <2>3, <3>1 DEF AccountUpsert, TypeOK, AccountTable
  <2>4. CASE CategoryUpsert(r)
    <3>1. requests[r] \in Save /\ requests[r].next # NoRow
      BY <2>4, SaveFacts, NoRowFacts DEF CategoryUpsert, TypeOK
    <3> QED
      BY <2>4, <3>1 DEF CategoryUpsert, TypeOK, CategoryTable
  <2> QED
    BY <1>1, <1>4, <2>1, <2>2, <2>3, <2>4
    DEF Handlers, AccountEdit, AccountDeactivate, CategoryCreate, CategoryEdit,
        CategoryDeactivate, CategoryCheck
<1> QED
  BY <1>1, <1>2, <1>3, <1>4
  DEF Next, Main, SeedSteps, vars, Boot, Crash, MigrationSkip, MigrationExecute, MigrationFails,
      MigrationRecord, MigrationsDone, SeedsDone, Listen

\* A seed that has its row keeps having one.
LEMMA SeededStays ==
  ASSUME TypeOK, [Next]_vars, NEW i \in 1..Len(Seeds), Seeded(i)
  PROVE  Seeded(i)'
<1>1. PICK l \in Locales : TRUE
  BY DEF TypeOK
<1>2. /\ Seeds[i].table \in {"label", "account", "category"}
      /\ Seeds[i].table = "label" => Seeds[i].id \in Owners
      /\ Seeds[i].table = "account" => Seeds[i].id \in Accounts
      /\ Seeds[i].table = "category" => Seeds[i].id \in Categories
  BY <1>1, SeedFacts
<1>3. CASE Seeds[i].table = "label"
  BY <1>2, <1>3, RowsStay DEF Seeded, Exists
<1>4. CASE Seeds[i].table = "account"
  BY <1>2, <1>4, RowsStay DEF Seeded, Exists
<1>5. CASE Seeds[i].table = "category"
  BY <1>2, <1>5, RowsStay DEF Seeded, Exists
<1> QED
  BY <1>2, <1>3, <1>4, <1>5

\* Writing a name that no other category has makes no collision.
LEMMA NoNewCollision ==
  ASSUME TypeOK, ~Collision, NEW c \in Categories, NEW row \in Category,
         ~Taken(c, row.name), categories' = [categories EXCEPT ![c] = row]
  PROVE  ~Collision'
BY DEF TypeOK, CategoryTable, Collision, Taken, Exists

\* While every category is a seed under a catalogue's name, the name of a seed is
\* taken by no other category.
LEMMA CatalogueNameFree ==
  ASSUME \A d \in Categories : Exists(categories, d) =>
           \E j \in 1..Len(Seeds), k \in Locales :
             /\ Seeds[j].table = "category" /\ Seeds[j].id = d
             /\ categories[d].name = SeedName[k][j],
         NEW i \in 1..Len(Seeds), NEW l \in Locales, Seeds[i].table = "category"
  PROVE  ~Taken(Seeds[i].id, SeedName[l][i])
BY CatalogueAssumption DEF Taken

LEMMA NoneRefused == IInv /\ [Next]_vars => StartupNeverRefused'
<1> SUFFICES ASSUME IInv, [Next]_vars PROVE refused' = FALSE
  BY DEF StartupNeverRefused
<1>1. refused = FALSE
  BY DEF IInv, StartupNeverRefused, TypeOK
<1>2. CASE SeedCategory
  <2>1. at \in 1..Len(Seeds) /\ locale \in Locales
    BY <1>2, SeedAt DEF SeedSteps, IInv
  <2>2. ~Seeded(at) /\ Seeds[at].table = "category"
    BY <1>2 DEF SeedCategory, SeedStep, Missing
  <2>3. ~Taken(Seeds[at].id, NameOfSeed(at))
    BY <2>1, <2>2, CatalogueNameFree DEF IInv, SeedInv, NameOfSeed
  <2> QED
    BY <1>1, <1>2, <2>3 DEF SeedCategory
<1>3. CASE ~SeedCategory
  BY <1>1, <1>3
  DEF Next, Main, vars, Handlers, system, Boot, Crash, OperatorRename, MigrationSkip,
      MigrationExecute, MigrationFails, MigrationRecord, MigrationsDone, SeedLabel, SeedAccount,
      SeedKept, SeedsDone, Listen, LabelSave, AccountCreate, AccountEdit, AccountDeactivate,
      AccountUpsert, CategoryCreate, CategoryEdit, CategoryDeactivate, CategoryCheck,
      CategoryUpsert
<1> QED
  BY <1>2, <1>3

\* The steps that change categories, and what they change them to.
LEMMA CategoryWrites ==
  ASSUME IInv, [Next]_vars
  PROVE  \/ UNCHANGED categories
         \/ OperatorRename
         \/ \E c \in Categories, row \in Category :
              /\ ~Taken(c, row.name)
              /\ categories' = [categories EXCEPT ![c] = row]
              /\ UNCHANGED <<open, recorded>>
              /\ \/ app = "serving"
                 \/ /\ SeedCategory /\ ~Seeded(at)
                    /\ c = Seeds[at].id /\ row.name = NameOfSeed(at)
<1>1. CASE SeedCategory
  <2>1. at \in 1..Len(Seeds) /\ locale \in Locales
    BY <1>1, SeedAt DEF SeedSteps, IInv
  <2>2. /\ Seeds[at].id \in Categories /\ NameOfSeed(at) \in Names
        /\ ~Seeded(at)
    BY <1>1, <2>1, SeedFacts DEF SeedCategory, SeedStep, Missing, NameOfSeed
  <2>3. /\ NewCategory(NameOfSeed(at)) \in Category
        /\ NewCategory(NameOfSeed(at)).name = NameOfSeed(at)
    BY <2>2 DEF NewCategory, Category
  <2> QED
    BY <1>1, <2>2, <2>3 DEF SeedCategory, schema
<1>2. ASSUME NEW r \in Requests, CategoryUpsert(r)
      PROVE  \/ UNCHANGED categories
             \/ \E c \in Categories, row \in Category :
                  /\ ~Taken(c, row.name)
                  /\ categories' = [categories EXCEPT ![c] = row]
                  /\ UNCHANGED <<open, recorded>> /\ app = "serving"
  <2>1. requests[r] \in Save /\ requests[r].of = "category"
    BY <1>2 DEF CategoryUpsert, IInv, TypeOK
  <2>2. requests[r].id \in Categories /\ requests[r].next \in Category
    BY <2>1, SaveFacts
  <2>3. app = "serving"
    BY <1>2 DEF CategoryUpsert, IInv, BootInv
  <2> QED
    BY <1>2, <2>2, <2>3 DEF CategoryUpsert, IndexRefuses, system, schema
<1>3. CASE ~SeedCategory /\ ~OperatorRename /\ \A r \in Requests : ~CategoryUpsert(r)
  BY <1>3
  DEF Next, Main, vars, tables, Handlers, Boot, Crash, MigrationSkip, MigrationExecute,
      MigrationFails, MigrationRecord, MigrationsDone, SeedLabel, SeedAccount, SeedKept,
      SeedsDone, Listen, LabelSave, AccountCreate, AccountEdit, AccountDeactivate,
      AccountUpsert, CategoryCreate, CategoryEdit, CategoryDeactivate, CategoryCheck
<1> QED
  BY <1>1, <1>2, <1>3

LEMMA SeedStepInv == IInv /\ [Next]_vars => SeedInv'
<1> SUFFICES ASSUME IInv, [Next]_vars PROVE SeedInv'
  OBVIOUS
<1>1. CASE \A i \in 1..Len(Seeds) : Seeded(i)
  BY <1>1, SeededStays DEF IInv, SeedInv
<1>2. CASE ~\A i \in 1..Len(Seeds) : Seeded(i)
  <2>1. \A d \in Categories : Exists(categories, d) =>
          \E j \in 1..Len(Seeds), k \in Locales :
            /\ Seeds[j].table = "category" /\ Seeds[j].id = d
            /\ categories[d].name = SeedName[k][j]
    BY <1>2 DEF IInv, SeedInv
  <2>2. CASE UNCHANGED categories
    BY <2>1, <2>2 DEF SeedInv, Exists
  <2>3. CASE OperatorRename
    <3>1. PICK c \in Categories : Exists(categories, c) /\ Taken(c, categories[c].name)
      BY <2>3 DEF OperatorRename
    <3> QED
      BY <2>1, <3>1, CatalogueNameFree
  <2>4. ASSUME NEW c \in Categories, NEW row \in Category,
               categories' = [categories EXCEPT ![c] = row], app = "serving"
        PROVE SeedInv'
    BY <1>2, <2>4 DEF IInv, BootInv
  <2>5. ASSUME NEW c \in Categories, NEW row \in Category,
               categories' = [categories EXCEPT ![c] = row],
               SeedCategory, c = Seeds[at].id, row.name = NameOfSeed(at)
        PROVE SeedInv'
    <3>1. at \in 1..Len(Seeds) /\ locale \in Locales /\ Seeds[at].table = "category"
      BY <2>5, SeedAt DEF SeedSteps, SeedCategory, SeedStep, IInv
    <3>2. categories'[c] = row /\ \A d \in Categories \ {c} : categories'[d] = categories[d]
      BY <2>5 DEF IInv, TypeOK, CategoryTable
    <3>3. ASSUME NEW d \in Categories, categories'[d] # NoRow
          PROVE  \E j \in 1..Len(Seeds), k \in Locales :
                   /\ Seeds[j].table = "category" /\ Seeds[j].id = d
                   /\ categories'[d].name = SeedName[k][j]
      <4>1. CASE d = c
        BY <2>5, <3>1, <3>2, <4>1 DEF NameOfSeed
      <4>2. CASE d # c
        BY <2>1, <3>2, <3>3, <4>2 DEF Exists
      <4> QED
        BY <4>1, <4>2
    <3> QED
      BY <3>3 DEF SeedInv, Exists
  <2> QED
    BY <2>2, <2>3, <2>4, <2>5, CategoryWrites
<1> QED
  BY <1>1, <1>2

\* A migration that adds the index is only recorded when no names collide, and no
\* write makes them collide afterwards.
LEMMA NamesStepUnique ==
  IInv /\ [Next]_vars => CategoryNamesUnique' /\ (open' = IndexedBy => ~Collision')
<1> SUFFICES ASSUME IInv, [Next]_vars
             PROVE  IndexedBy \in recorded' \/ open' = IndexedBy => ~Collision'
  BY DEF CategoryNamesUnique
<1>1. CASE UNCHANGED categories
  <2>1. Collision' <=> Collision
    BY <1>1 DEF Collision, Taken, Exists
  <2>2. open \in 0..Migrations /\ IndexedBy # 0
    BY DEF IInv, TypeOK
  <2>3. IndexedBy \in recorded' \/ open' = IndexedBy =>
          IndexedBy \in recorded \/ open = IndexedBy \/ ~Collision
    <3>1. CASE MigrationExecute
      BY <3>1 DEF MigrationExecute, Execute, StatementFails
    <3>2. CASE MigrationRecord
      BY <2>2, <3>2 DEF MigrationRecord
    <3>3. CASE MigrationFails \/ Crash
      BY <2>2, <3>3 DEF MigrationFails, Crash, Exit
    <3> QED
      BY <3>1, <3>2, <3>3
      DEF Next, Main, vars, schema, system, Handlers, Boot, OperatorRename, MigrationSkip,
          MigrationsDone, SeedLabel, SeedAccount, SeedCategory, SeedKept, SeedsDone, Listen,
          LabelSave, AccountCreate, AccountEdit, AccountDeactivate, AccountUpsert,
          CategoryCreate, CategoryEdit, CategoryDeactivate, CategoryCheck, CategoryUpsert
  <2> QED
    BY <2>1, <2>3 DEF IInv, CategoryNamesUnique, BootInv
<1>2. CASE OperatorRename
  BY <1>2 DEF OperatorRename, schema, IInv, BootInv, TypeOK
<1>3. ASSUME NEW c \in Categories, NEW row \in Category, ~Taken(c, row.name),
             categories' = [categories EXCEPT ![c] = row], UNCHANGED <<open, recorded>>
      PROVE  IndexedBy \in recorded' \/ open' = IndexedBy => ~Collision'
  <2>1. IndexedBy \in recorded \/ open = IndexedBy => ~Collision
    BY DEF IInv, CategoryNamesUnique, BootInv
  <2> QED
    BY <1>3, <2>1, NoNewCollision DEF IInv
<1> QED
  BY <1>1, <1>2, <1>3, CategoryWrites

-----------------------------------------------------------------------------
(* How far main has come.                                                  *)

\* The parts of BootInv that names have no part in.
Progress ==
  /\ MigrationsOnce
  /\ open # 0 => app = "migrating" /\ open = at /\ at \notin recorded
  /\ app = "migrating" => at <= Migrations + 1 /\ 1..(at - 1) \subseteq recorded
  /\ app \in {"seeding", "cleaning", "serving"} => recorded = 1..Migrations
  /\ app = "seeding" => at <= Len(Seeds) + 1 /\ \A i \in 1..(at - 1) : Seeded(i)
  /\ app \in {"cleaning", "serving"} => \A i \in 1..Len(Seeds) : Seeded(i)
  /\ app # "serving" => requests = [r \in Requests |-> Idle]

LEMMA BootStepInv == IInv /\ [Next]_vars => BootInv'
<1> SUFFICES ASSUME IInv, [Next]_vars PROVE Progress'
  BY NamesStepUnique DEF Progress, BootInv
<1>1. TypeOK /\ Progress
  BY DEF IInv, BootInv, Progress
<1>2. \A i \in 1..Len(Seeds) : Seeded(i) => Seeded(i)'
  BY <1>1, SeededStays
<1>3. at \in Nat /\ at >= 1 /\ Len(Seeds) \in Nat /\ open \in 0..Migrations
  BY <1>1, SeedsFacts DEF TypeOK
<1>4. CASE Boot
  BY <1>1, <1>4 DEF Boot, Progress, MigrationsOnce, schema
<1>5. CASE MigrationSkip
  <2>1. at \in 1..Migrations
    BY <1>1, <1>5 DEF MigrationSkip, TypeOK
  <2>2. 1..(at' - 1) \subseteq recorded'
    BY <1>1, <1>3, <1>5 DEF MigrationSkip, Progress, schema
  <2> QED
    BY <1>1, <1>5, <2>1, <2>2 DEF MigrationSkip, Progress, MigrationsOnce, schema
<1>6. CASE MigrationExecute
  BY <1>1, <1>3, <1>6 DEF MigrationExecute, Execute, Progress, MigrationsOnce
<1>7. CASE MigrationFails
  BY <1>1, <1>7 DEF MigrationFails, Exit, Progress, MigrationsOnce
<1>8. CASE MigrationRecord
  <2>1. open = at /\ at \in 1..Migrations
    BY <1>1, <1>3, <1>8 DEF MigrationRecord, Progress
  <2>2. 1..(at' - 1) \subseteq recorded'
    BY <1>1, <1>3, <1>8, <2>1 DEF MigrationRecord, Progress
  <2> QED
    BY <1>1, <1>8, <2>1, <2>2 DEF MigrationRecord, Progress, MigrationsOnce
<1>9. CASE MigrationsDone
  <2>1. recorded = 1..Migrations
    <3>1. at - 1 = Migrations /\ 1..(at - 1) \subseteq recorded
      BY <1>1, <1>9 DEF MigrationsDone, Progress
    <3> QED
      BY <1>1, <3>1 DEF TypeOK
  <2> QED
    BY <1>1, <1>3, <1>9, <2>1 DEF MigrationsDone, Progress, MigrationsOnce, schema
<1>10. CASE SeedSteps
  <2>1. at \in 1..Len(Seeds) /\ app = "seeding"
    BY <1>1, <1>10, SeedAt
  <2>2. UNCHANGED <<open, applied, recorded, requests>>
    BY <1>10 DEF SeedSteps, SeedLabel, SeedAccount, SeedCategory, SeedKept, schema
  <2>3. /\ app' = app /\ at' = at + 1
        /\ \A i \in 1..Len(Seeds) : i = at => Seeded(i)'
    <3>1. PICK l \in Locales : TRUE
      BY <1>1 DEF TypeOK
    <3>2. /\ Seeds[at].table = "label" => Seeds[at].id \in Owners /\ NameOfSeed(at) # NoRow
          /\ Seeds[at].table = "account" =>
               /\ Seeds[at].id \in Accounts
               /\ NewAccount(NameOfSeed(at), Seeds[at].owner) # NoRow
          /\ Seeds[at].table = "category" =>
               Seeds[at].id \in Categories /\ NewCategory(NameOfSeed(at)) # NoRow
      BY <1>1, <2>1, SeedFacts, NoRowFacts
      DEF TypeOK, NameOfSeed, NewAccount, NewCategory, Account, Category
    <3>3. CASE SeedLabel
      BY <1>1, <3>2, <3>3 DEF SeedLabel, SeedStep, Seeded, Exists, TypeOK
    <3>4. CASE SeedAccount
      BY <1>1, <3>2, <3>4 DEF SeedAccount, SeedStep, Seeded, Exists, TypeOK, AccountTable
    <3>5. CASE SeedCategory
      <4>1. ~Taken(Seeds[at].id, NameOfSeed(at))
        BY <3>5, NoneRefused DEF SeedCategory, StartupNeverRefused
      <4> QED
        BY <1>1, <3>2, <3>5, <4>1
        DEF SeedCategory, SeedStep, Seeded, Exists, TypeOK, CategoryTable
    <3>6. CASE SeedKept
      BY <1>2, <2>1, <3>6 DEF SeedKept, Missing
    <3> QED
      BY <1>10, <3>3, <3>4, <3>5, <3>6 DEF SeedSteps
  <2>4. \A i \in 1..(at' - 1) : Seeded(i)'
    BY <1>1, <1>2, <1>3, <2>1, <2>3 DEF Progress
  <2> QED
    BY <1>1, <1>3, <2>1, <2>2, <2>3, <2>4 DEF Progress, MigrationsOnce
<1>11. CASE SeedsDone \/ Listen
  <2>1. /\ app \in {"seeding", "cleaning"} /\ app' \in {"cleaning", "serving"}
        /\ UNCHANGED <<open, applied, recorded, requests>>
        /\ \A i \in 1..Len(Seeds) : Seeded(i)
    BY <1>1, <1>3, <1>11 DEF SeedsDone, Listen, Progress, schema
  <2> QED
    BY <1>1, <1>2, <1>11, <2>1 DEF SeedsDone, Listen, Progress, MigrationsOnce
<1>12. CASE Crash
  BY <1>1, <1>12 DEF Crash, Exit, Progress, MigrationsOnce
<1>13. CASE OperatorRename
  BY <1>1, <1>13 DEF OperatorRename, Progress, MigrationsOnce, schema
<1>14. ASSUME NEW r \in Requests, Handlers(r) PROVE Progress'
  <2>1. app = "serving"
    <3>1. app # "serving" => requests[r] = Idle
      BY <1>1 DEF Progress
    <3> QED
      BY <1>14, <3>1
      DEF Handlers, Begins, Serving, LabelSave, AccountCreate, AccountEdit, AccountDeactivate,
          AccountUpsert, CategoryCreate, CategoryEdit, CategoryDeactivate, CategoryCheck,
          CategoryUpsert
  <2>2. UNCHANGED <<app, at, open, applied, recorded>>
    BY <1>14
    DEF Handlers, system, schema, LabelSave, AccountCreate, AccountEdit, AccountDeactivate,
        AccountUpsert, CategoryCreate, CategoryEdit, CategoryDeactivate, CategoryCheck,
        CategoryUpsert
  <2> QED
    BY <1>1, <1>2, <2>1, <2>2 DEF Progress, MigrationsOnce
<1>15. CASE UNCHANGED vars
  <2>1. UNCHANGED <<app, at, open, applied, recorded, requests>>
    BY <1>15 DEF vars, schema
  <2> QED
    BY <1>1, <1>2, <1>3, <2>1 DEF Progress, MigrationsOnce
<1> QED
  BY <1>4, <1>5, <1>6, <1>7, <1>8, <1>9, <1>10, <1>11, <1>12, <1>13, <1>14, <1>15
  DEF Next, Main, SeedSteps

-----------------------------------------------------------------------------

\* The inductive invariant: types, how far main has come, which names a database has
\* before its first start-up is over, and names that do not collide.
THEOREM Invariance == Spec => []IInv
<1>1. IInv /\ [Next]_vars => IInv'
  BY TypeStep, BootStepInv, SeedStepInv, NoneRefused, NamesStepUnique DEF IInv
<1> QED
  BY InitInvariant, <1>1, PTL DEF Spec

\* Every variable keeps its type.
THEOREM TypeCorrect == Spec => []TypeOK
<1>1. IInv => TypeOK
  BY DEF IInv
<1> QED
  BY Invariance, <1>1, PTL

\* Once the index exists no two categories have one normalized name, however many
\* requests check and write at once.
THEOREM NamesStayUnique == Spec => []CategoryNamesUnique
<1>1. IInv => CategoryNamesUnique
  BY DEF IInv
<1> QED
  BY Invariance, <1>1, PTL

\* Whichever step a start-up dies at, a migration is applied exactly when it is
\* recorded.
THEOREM MigrationsAreAtomic == Spec => []MigrationsOnce
<1>1. IInv => MigrationsOnce
  BY DEF IInv, BootInv
<1> QED
  BY Invariance, <1>1, PTL

\* Handlers run on a complete schema with every row of the inventory.
THEOREM ServesSeeded == Spec => []ServingIsSeeded
<1>1. IInv => ServingIsSeeded
  BY DEF IInv, BootInv, ServingIsSeeded, Serving
<1> QED
  BY Invariance, <1>1, PTL

\* Because names differ between the categories of all catalogues at once, no start-up
\* finds a seed's name taken, whatever was seeded under another locale before.
THEOREM SeedsFindTheirNames == Spec => []StartupNeverRefused
<1>1. IInv => StartupNeverRefused
  BY DEF IInv
<1> QED
  BY Invariance, <1>1, PTL

\* No start-up, repeated or not, changes a row that exists.
THEOREM StartupSparesRows == Spec => StartupKeepsRows
<1> DEFINE Spares == Main => /\ \A o \in Owners : Exists(labels, o) => labels'[o] = labels[o]
                             /\ \A a \in Accounts :
                                  Exists(accounts, a) => accounts'[a] = accounts[a]
                             /\ \A c \in Categories :
                                  Exists(categories, c) => categories'[c] = categories[c]
<1>1. TypeOK /\ Main => Spares
  <2> SUFFICES ASSUME TypeOK, Main PROVE Spares
    OBVIOUS
  <2>1. CASE UNCHANGED tables
    BY <2>1 DEF tables
  <2>2. CASE SeedLabel
    BY <2>2 DEF SeedLabel, SeedStep, Missing, Seeded, Exists, TypeOK
  <2>3. CASE SeedAccount
    BY <2>3 DEF SeedAccount, SeedStep, Missing, Seeded, Exists, TypeOK, AccountTable
  <2>4. CASE SeedCategory
    BY <2>4 DEF SeedCategory, SeedStep, Missing, Seeded, Exists, TypeOK, CategoryTable
  <2> QED
    BY <2>1, <2>2, <2>3, <2>4
    DEF Main, MigrationSkip, MigrationExecute, MigrationFails, MigrationRecord,
        MigrationsDone, SeedKept, SeedsDone, Listen
<1>2. TypeOK => [Spares]_vars
  BY <1>1
<1> QED
  BY TypeCorrect, <1>2, PTL DEF StartupKeepsRows, Spec
=============================================================================
