------------------------------- MODULE Ledger -------------------------------
(***************************************************************************)
(* The transactions table under everything that writes it: manual entry,   *)
(* imports, edits, transfer marks, deletions, and the reapplication of the *)
(* categorization rules.                                                   *)
(*                                                                         *)
(* No handler here runs in a database transaction.  An edit reads a row    *)
(* and later writes back all its columns; a reapplication lists the rules, *)
(* then the rows, and writes back, one awaited upsert after the other,     *)
(* every row the rules change.  Any request may run between two of these   *)
(* statements, so a row that is written may be older than the row in the   *)
(* table, and an upsert inserts a row that was deleted meanwhile.          *)
(*                                                                         *)
(* Batches, consumption and concurrent confirmations are in Import; here   *)
(* an import is a preview of one line and the confirmation of that line.   *)
(* Columns no handler below treats differently from the ones kept (date,   *)
(* amount, status, note) are left out, and account and category ids that a *)
(* form may name are those that exist, as maintainTransaction checks.      *)
(***************************************************************************)
EXTENDS Categorization, FiniteSets

CONSTANTS
  Ids,          \* ids of transactions, in the order reapplication sorts them
  Hashes,       \* import hashes
  RowForms,     \* what the transaction form may carry
  RuleForms,    \* what the rule form may carry
  Lines,        \* CSV lines a preview may be given
  Seeded,       \* categories the seed has inserted at startup
  MigratedRows, \* rows older than the category_origin column
  Editors,      \* transaction updates that can be in flight at once
  Previewers,   \* preview requests that can be in flight at once
  Reappliers,   \* reapplications that can be in flight at once
  NoHash,       \* importHash = null
  NoTx,         \* the table has no row of that id
  Idle          \* a slot without a request

ASSUME IdsAssumption == Ids \subseteq Nat /\ IsFiniteSet(Ids)

Tx == [account : Accounts, category : Categories, origin : Origins,
       text : SUBSET Searches, fixed : BOOLEAN, transfer : BOOLEAN,
       source : {"manual", "csv"}, hash : Hashes \cup {NoHash}]

\* The columns no handler means to change, and the category the row owes to its
\* CSV line, or to the time before there were origins.
Identity == [source : {"manual", "csv"}, hash : Hashes \cup {NoHash},
             given : Categories \cup {NoCategory}]

RowForm == [account : Accounts, category : Categories, text : SUBSET Searches,
            fixed : BOOLEAN]
Line == [account : Accounts, text : SUBSET Searches, hash : Hashes,
         csvCategory : Categories \cup {NoCategory}]
Offer == [row : Tx, csvCategory : Categories \cup {NoCategory}]
Snapshot == [id : Ids, row : Tx]
Rules == [RuleIds -> Rule \cup {NoRule}]
Reading == [known : SUBSET Categories, listed : BOOLEAN, hashes : SUBSET Hashes]
Listing == [rules : Rules]
Reapplication == [rules : Rules, before : [Ids -> Tx \cup {NoTx}], todo : SUBSET Ids]

ASSUME SeededAssumption == Seeded \subseteq Categories /\ Fallback \in Seeded
ASSUME RowFormsAssumption == RowForms \subseteq RowForm
ASSUME RuleFormsAssumption == RuleForms \subseteq Rule
ASSUME LinesAssumption == Lines \subseteq Line
ASSUME NoTxAssumption == NoTx \notin Tx \cup Identity \cup Offer
ASSUME IdleAssumption == Idle \notin Snapshot \cup Reading \cup Listing \cup Reapplication

\* Migration 0016: manual rows are 'manual', imported ones 'legacy_preserved'.
ASSUME MigratedRowsAssumption ==
  /\ MigratedRows \subseteq Tx
  /\ \A row \in MigratedRows :
       row.origin = IF row.source = "csv" THEN "legacy_preserved" ELSE "manual"

VARIABLES
  ledger,       \* the transactions table
  rules,        \* the categorization_rules table
  categories,   \* the categories table: rows are added, never deleted
  offers,       \* the transaction of each previewed line, until confirmed
  preview,      \* categories, and then hashes, each preview request has read
  edit,         \* the row each update request has read
  listing,      \* rules of each reapplication that has not listed the rows yet
  reapply,      \* each reapplication that has
  born,         \* history: the identity a row was first inserted with
  targets,      \* history: categories some rule has assigned
  touched       \* history: rows others wrote since a reapplication's listing

history == <<born, targets, touched>>
vars == <<ledger, rules, categories, offers, preview, edit, listing, reapply, history>>

TypeOK ==
  /\ ledger \in [Ids -> Tx \cup {NoTx}]
  /\ rules \in Rules
  /\ categories \in SUBSET Categories
  /\ offers \in [Ids -> Offer \cup {NoTx}]
  /\ preview \in [Previewers -> Reading \cup {Idle}]
  /\ edit \in [Editors -> Snapshot \cup {Idle}]
  /\ listing \in [Reappliers -> Listing \cup {Idle}]
  /\ reapply \in [Reappliers -> Reapplication \cup {Idle}]
  /\ born \in [Ids -> Identity \cup {NoTx}]
  /\ targets \in SUBSET Categories
  /\ touched \in [Reappliers -> SUBSET Ids]

IdentityOf(row, given) == [source |-> row.source, hash |-> row.hash, given |-> given]

Init ==
  /\ ledger \in [Ids -> MigratedRows \cup {NoTx}]
  /\ \A i, j \in Ids : (/\ ledger[i] # NoTx /\ ledger[j] # NoTx
                        /\ ledger[i].hash # NoHash
                        /\ ledger[i].hash = ledger[j].hash
                        /\ ledger[i].account = ledger[j].account) => i = j
  /\ rules = [i \in RuleIds |-> NoRule]
  /\ categories = Seeded
  /\ \A i \in Ids : ledger[i] # NoTx => ledger[i].category \in Seeded
  /\ offers = [i \in Ids |-> NoTx]
  /\ preview = [p \in Previewers |-> Idle]
  /\ edit = [e \in Editors |-> Idle]
  /\ listing = [r \in Reappliers |-> Idle]
  /\ reapply = [r \in Reappliers |-> Idle]
  /\ born = [i \in Ids |-> IF ledger[i] = NoTx THEN NoTx ELSE IdentityOf(ledger[i], ledger[i].category)]
  /\ targets = {}
  /\ touched = [r \in Reappliers |-> {}]

-----------------------------------------------------------------------------
(* Writing one row.                                                        *)

\* transactions_account_import_hash_unique_idx lets this row be written as id.
KeyFree(id, row) ==
  row.hash = NoHash \/ \A j \in Ids \ {id} :
    ledger[j] # NoTx => ~(ledger[j].hash = row.hash /\ ledger[j].account = row.account)

\* The table gets row as id (NoTx: the row is deleted); others is the set of
\* reapplications that did not write it themselves.
Put(id, row, others) ==
  /\ ledger' = [ledger EXCEPT ![id] = row]
  /\ touched' = [r \in Reappliers |->
                   IF r \in others /\ reapply[r] # Idle THEN touched[r] \cup {id}
                   ELSE touched[r]]

Fresh(id) == born[id] = NoTx /\ offers[id] = NoTx

\* POST /transactions: an expense entered by hand.
CreateTransaction(id) ==
  /\ Fresh(id)
  /\ \E f \in RowForms :
       LET row == [account |-> f.account, category |-> f.category, origin |-> "manual",
                   text |-> f.text, fixed |-> f.fixed, transfer |-> FALSE,
                   source |-> "manual", hash |-> NoHash] IN
       /\ f.category \in categories
       /\ Put(id, row, Reappliers)
       /\ born' = [born EXCEPT ![id] = IdentityOf(row, NoCategory)]
  /\ UNCHANGED <<rules, categories, offers, preview, edit, listing, reapply, targets>>

\* POST /transactions/:id/delete: no row is not an error.
DeleteTransaction(id) ==
  /\ ledger[id] # NoTx
  /\ Put(id, NoTx, Reappliers)
  /\ UNCHANGED <<rules, categories, offers, preview, edit, listing, reapply, born, targets>>

\* POST /transactions/:id/internal-transfer: one UPDATE of one column.
SetInternalTransfer(id) ==
  /\ ledger[id] # NoTx
  /\ \E mark \in BOOLEAN : Put(id, [ledger[id] EXCEPT !.transfer = mark], Reappliers)
  /\ UNCHANGED <<rules, categories, offers, preview, edit, listing, reapply, born, targets>>

-----------------------------------------------------------------------------
(* POST /transactions/:id: an edit reads the row and writes it back.       *)

EditRead(e) ==
  /\ edit[e] = Idle
  /\ \E id \in Ids :
       /\ ledger[id] # NoTx
       /\ edit' = [edit EXCEPT ![e] = [id |-> id, row |-> ledger[id]]]
  /\ UNCHANGED <<ledger, rules, categories, offers, preview, listing, reapply, history>>

\* Fault: the origin survives a change of the category.
OriginAfterEdit_Kept(row, category) == row.origin

OriginAfterEdit(row, category) ==
  IF category = row.category THEN row.origin ELSE "manual"

\* Fault: the row is rebuilt from the form alone, as a manual expense.
Edited_FromForm(row, f) ==
  [account |-> f.account, category |-> f.category, text |-> f.text, fixed |-> f.fixed,
   origin |-> OriginAfterEdit(row, f.category),
   transfer |-> row.transfer, source |-> "manual", hash |-> NoHash]

\* createTransactionFromForm with the row that was read.
Edited(row, f) ==
  [account |-> f.account, category |-> f.category, text |-> f.text, fixed |-> f.fixed,
   origin |-> OriginAfterEdit(row, f.category),
   transfer |-> row.transfer, source |-> row.source, hash |-> row.hash]

EditSave(e) ==
  /\ edit[e] # Idle
  /\ \E f \in RowForms :
       LET row == Edited(edit[e].row, f) IN
       /\ f.category \in categories
       /\ KeyFree(edit[e].id, row)
       /\ Put(edit[e].id, row, Reappliers)
  /\ edit' = [edit EXCEPT ![e] = Idle]
  /\ UNCHANGED <<rules, categories, offers, preview, listing, reapply, born, targets>>

\* A form the parser refuses, an unknown reference, a unique violation, a crash.
EditFail(e) ==
  /\ edit[e] # Idle
  /\ edit' = [edit EXCEPT ![e] = Idle]
  /\ UNCHANGED <<ledger, rules, categories, offers, preview, listing, reapply, history>>

-----------------------------------------------------------------------------
(* Master data and rules.                                                  *)

CreateCategory(c) ==
  /\ c \notin categories
  /\ categories' = categories \cup {c}
  /\ UNCHANGED <<ledger, rules, offers, preview, edit, listing, reapply, history>>

\* Create, or update: an update has read the rule only to answer 404, and its
\* upsert inserts the rule again if it was deleted since.
SaveRule(i) ==
  /\ \E f \in RuleForms :
       /\ f.category \in categories
       /\ rules' = [rules EXCEPT ![i] = f]
       /\ targets' = targets \cup {f.category}
  /\ UNCHANGED <<ledger, categories, offers, preview, edit, listing, reapply, born, touched>>

DeleteRule(i) ==
  /\ rules[i] # NoRule
  /\ rules' = [rules EXCEPT ![i] = NoRule]
  /\ UNCHANGED <<ledger, categories, offers, preview, edit, listing, reapply, history>>

-----------------------------------------------------------------------------
(* Importing one line.                                                     *)

\* readPageData: the categories are read first.  Ids bounds the rows that are ever
\* inserted, and a preview is begun only while one is left for its row.
PreviewRead(p) ==
  /\ preview[p] = Idle
  /\ \E id \in Ids : Fresh(id)
  /\ preview' = [preview EXCEPT ![p] =
                                  [known |-> categories, listed |-> FALSE, hashes |-> {}]]
  /\ UNCHANGED <<ledger, rules, categories, offers, edit, listing, reapply, history>>

\* readExistingImportIdentities: then the ledger's hashes.
PreviewList(p) ==
  /\ preview[p] # Idle
  /\ ~preview[p].listed
  /\ preview' = [preview EXCEPT ![p] =
       [known |-> preview[p].known, listed |-> TRUE,
        hashes |-> {h \in Hashes : \E j \in Ids : ledger[j] # NoTx /\ ledger[j].hash = h}]]
  /\ UNCHANGED <<ledger, rules, categories, offers, edit, listing, reapply, history>>

\* The row the preview computes for a line, decided by the rules it reads now.
Imported(known, line) ==
  LET d == Decide(known, rules, line.account, line.text, line.csvCategory) IN
  [account |-> line.account, text |-> line.text, hash |-> line.hash, source |-> "csv",
   category |-> d.category, origin |-> d.origin, fixed |-> d.fixed, transfer |-> d.transfer]

\* A line whose hash was in the ledger is a duplicate and is not stored.
PreviewDecide(p, id) ==
  /\ preview[p] # Idle
  /\ preview[p].listed
  /\ Fresh(id)
  /\ \E line \in Lines :
       /\ line.hash \notin preview[p].hashes
       /\ offers' = [offers EXCEPT ![id] = [row |-> Imported(preview[p].known, line),
                                            csvCategory |-> line.csvCategory]]
  /\ preview' = [preview EXCEPT ![p] = Idle]
  /\ UNCHANGED <<ledger, rules, categories, edit, listing, reapply, history>>

\* Nothing is stored: the line is a duplicate, or the request fails.
PreviewFail(p) ==
  /\ preview[p] # Idle
  /\ preview' = [preview EXCEPT ![p] = Idle]
  /\ UNCHANGED <<ledger, rules, categories, offers, edit, listing, reapply, history>>

\* The offered row is inserted; a row with its key makes it a duplicate, which
\* onConflictDoNothing skips.
ConfirmRow(id) ==
  /\ offers[id] # NoTx
  /\ offers' = [offers EXCEPT ![id] = NoTx]
  /\ \/ /\ KeyFree(id, offers[id].row)
        /\ Put(id, offers[id].row, Reappliers)
     \/ /\ ~KeyFree(id, offers[id].row)
        /\ UNCHANGED <<ledger, touched>>
  /\ born' = [born EXCEPT ![id] = IdentityOf(offers[id].row, offers[id].csvCategory)]
  /\ UNCHANGED <<rules, categories, preview, edit, listing, reapply, targets>>

-----------------------------------------------------------------------------
(* POST /categorization-rules/apply.                                       *)

ReapplyRules(r) ==
  /\ listing[r] = Idle /\ reapply[r] = Idle
  /\ listing' = [listing EXCEPT ![r] = [rules |-> rules]]
  /\ UNCHANGED <<ledger, rules, categories, offers, preview, edit, reapply, history>>

\* Rows the listed rules change: each is computed, and found unchanged, from the
\* listed rows alone.
Changed(rs, before) ==
  {i \in Ids : before[i] # NoTx /\ Recategorized(rs, before[i]) # before[i]}

ReapplyList(r) ==
  /\ listing[r] # Idle
  /\ reapply' = [reapply EXCEPT ![r] = [rules |-> listing[r].rules, before |-> ledger,
                                        todo |-> Changed(listing[r].rules, ledger)]]
  /\ listing' = [listing EXCEPT ![r] = Idle]
  /\ UNCHANGED <<ledger, rules, categories, offers, preview, edit, history>>

\* Fault: the loop stops before the last row.
ReapplyEnded_Early(r) == Cardinality(reapply[r].todo) <= 1

ReapplyEnded(r) == reapply[r].todo = {}

\* The next changed row, in id order, is written back as it was listed, with the
\* winner applied.
ReapplySave(r, id) ==
  /\ reapply[r] # Idle
  /\ id \in reapply[r].todo /\ \A j \in reapply[r].todo : id <= j
  /\ LET row == Recategorized(reapply[r].rules, reapply[r].before[id]) IN
       /\ KeyFree(id, row)
       /\ Put(id, row, Reappliers \ {r})
  /\ reapply' = [reapply EXCEPT ![r].todo = @ \ {id}]
  /\ UNCHANGED <<rules, categories, offers, preview, edit, listing, born, targets>>

ReapplyDone(r) ==
  /\ reapply[r] # Idle
  /\ ReapplyEnded(r)
  /\ reapply' = [reapply EXCEPT ![r] = Idle]
  /\ touched' = [touched EXCEPT ![r] = {}]
  /\ UNCHANGED <<ledger, rules, categories, offers, preview, edit, listing, born, targets>>

\* A failed statement, a unique violation or a crash between two saves: the rows
\* saved so far stay as they are.
ReapplyFail(r) ==
  /\ listing[r] # Idle \/ (reapply[r] # Idle /\ reapply[r].todo # {})
  /\ listing' = [listing EXCEPT ![r] = Idle]
  /\ reapply' = [reapply EXCEPT ![r] = Idle]
  /\ touched' = [touched EXCEPT ![r] = {}]
  /\ UNCHANGED <<ledger, rules, categories, offers, preview, edit, born, targets>>

Next ==
  \/ \E id \in Ids : \/ CreateTransaction(id) \/ DeleteTransaction(id)
                     \/ SetInternalTransfer(id) \/ ConfirmRow(id)
                     \/ \E p \in Previewers : PreviewDecide(p, id)
                     \/ \E r \in Reappliers : ReapplySave(r, id)
  \/ \E e \in Editors : EditRead(e) \/ EditSave(e) \/ EditFail(e)
  \/ \E c \in Categories : CreateCategory(c)
  \/ \E i \in RuleIds : SaveRule(i) \/ DeleteRule(i)
  \/ \E p \in Previewers : PreviewRead(p) \/ PreviewList(p) \/ PreviewFail(p)
  \/ \E r \in Reappliers : ReapplyRules(r) \/ ReapplyList(r) \/ ReapplyDone(r) \/ ReapplyFail(r)

Spec == Init /\ [][Next]_vars
=============================================================================
