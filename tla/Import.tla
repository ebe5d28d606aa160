------------------------------- MODULE Import -------------------------------
(***************************************************************************)
(* CSV import: previewing a file into a server-side batch, confirming the  *)
(* batch in one PostgreSQL transaction, and the transaction maintenance    *)
(* that can touch imported rows in between.                                *)
(*                                                                         *)
(* The web process is one event loop over a pool of connections, so the    *)
(* requests below interleave at every SQL statement.  A preview reads the  *)
(* ledger and saves its batch in two statements with no transaction around *)
(* them.  A confirmation runs inside a READ COMMITTED transaction: its     *)
(* UPDATE locks the batch row, its INSERT ... ON CONFLICT DO NOTHING adds  *)
(* the rows one at a time and waits whenever another transaction holds the *)
(* same (account_id, import_hash) key uncommitted.                         *)
(*                                                                         *)
(* Data.  A CSV line is its canonical content.  createImportHash digests   *)
(* the account and the normalised content, so the hash of content c        *)
(* previewed for account a is the pair (a, c), written here as "c with     *)
(* home account a".  A batch keeps the set of contents it would insert;    *)
(* the file order is the order in which a confirmation happens to insert   *)
(* them, which is left open because a file may list its lines in any order.*)
(* The uuid drawn at preview for content c of batch b is <<b, c>>, and     *)
(* ledger[b][c] is the account that row is booked on, or NoRow.            *)
(***************************************************************************)
EXTENDS Integers, FiniteSets

CONSTANTS
  Users,        \* authenticated users
  Accounts,     \* rows of the accounts table
  Contents,     \* canonical CSV expense lines, account left out
  Oversized,    \* contents whose cents are safe integers but exceed int32
  BatchIds,     \* uuids of preview batches
  Previewers,   \* preview requests that can be in flight at once
  Confirmers,   \* confirmation requests that can be in flight at once
  Editors,      \* transaction updates that can be in flight at once
  Ttl,          \* lifetime of a batch, 30 minutes in the code
  MaxTime,      \* bound on the clock
  NoRow,        \* the transactions table has no row of that id
  NoBatch,      \* the batch was never saved
  Idle          \* a preview or edit slot without a request

ASSUME OversizedAssumption == Oversized \subseteq Contents
ASSUME TtlAssumption == Ttl \in Nat /\ Ttl > 0
ASSUME MaxTimeAssumption == MaxTime \in Nat
ASSUME NoRowAssumption == NoRow \notin Accounts

NotConsumed == -1

Time == 0..MaxTime

(***************************************************************************)
(* invalid: the outcome snapshot holds at least one 'invalid' outcome.     *)
(* Duplicate and ignored outcomes are kept by the code for display only.   *)
(***************************************************************************)
Prepared == [user : Users, account : Accounts, rows : SUBSET Contents, invalid : BOOLEAN,
             readAt : Time]
Batch == [user : Users, account : Accounts, rows : SUBSET Contents, invalid : BOOLEAN,
          expiresAt : 0..(MaxTime + Ttl)]

Confirmation == [batch : BatchIds, user : Users, now : Time]
RowId == [batch : BatchIds, content : Contents]

ASSUME NoBatchAssumption ==
  NoBatch \notin Batch \cup [account : Accounts, rows : SUBSET Contents]
ASSUME IdleAssumption == Idle \notin Prepared \cup RowId \cup Confirmation

VARIABLES
  clock,        \* clock.now(), monotone
  batches,      \* import_preview_batches, without consumed_at
  consumedAt,   \* import_preview_batches.consumed_at
  ledger,       \* committed imported rows of the transactions table
  held,         \* history: contents ever committed on their home account
  preview,      \* preview requests between their read and their save
  request,      \* arguments of each confirmation in flight
  phase,        \* progress of each confirmation
  tried,        \* contents its INSERT has processed
  pending,      \* contents its INSERT has added, not yet committed
  edit          \* the row each transaction update has read

vars == <<clock, batches, consumedAt, ledger, held, preview, request, phase, tried,
          pending, edit>>

TypeOK ==
  /\ clock \in Time
  /\ batches \in [BatchIds -> Batch \cup {NoBatch}]
  /\ consumedAt \in [BatchIds -> Time \cup {NotConsumed}]
  /\ ledger \in [BatchIds -> [Contents -> Accounts \cup {NoRow}]]
  /\ held \in [Accounts -> SUBSET Contents]
  /\ preview \in [Previewers -> Prepared \cup {Idle}]
  /\ request \in [Confirmers -> Confirmation \cup {Idle}]
  /\ phase \in [Confirmers -> {"idle", "consume", "insert"}]
  /\ tried \in [Confirmers -> SUBSET Contents]
  /\ pending \in [Confirmers -> SUBSET Contents]
  /\ edit \in [Editors -> RowId \cup {Idle}]

Init ==
  /\ clock = 0
  /\ batches = [b \in BatchIds |-> NoBatch]
  /\ consumedAt = [b \in BatchIds |-> NotConsumed]
  /\ ledger = [b \in BatchIds |-> [c \in Contents |-> NoRow]]
  /\ held = [a \in Accounts |-> {}]
  /\ preview = [p \in Previewers |-> Idle]
  /\ request = [r \in Confirmers |-> Idle]
  /\ phase = [r \in Confirmers |-> "idle"]
  /\ tried = [r \in Confirmers |-> {}]
  /\ pending = [r \in Confirmers |-> {}]
  /\ edit = [e \in Editors |-> Idle]

-----------------------------------------------------------------------------
(* The unique index transactions_account_import_hash_unique.               *)

\* A row of content c whose hash was computed for account home is in the
\* ledger, whatever account it is booked on now.
Imported(home, c) ==
  \E b \in BatchIds : ledger[b][c] # NoRow /\ batches[b].account = home

\* A committed row outside the batches in own holds the key (account, hash of
\* (home, c)).
KeyTaken(account, home, c, own) ==
  \E b \in BatchIds \ own :
    /\ ledger[b][c] = account
    /\ batches[b].account = home

\* Confirmation r has inserted content c on home account a, uncommitted.
KeyPending(r, a, c) == c \in pending[r] /\ batches[request[r].batch].account = a

-----------------------------------------------------------------------------
(* Preview: POST /imports/csv/preview.                                     *)

\* prepareOutcomes against the identities read from every account: a row is
\* importable unless its hash is already in the ledger.
PreviewRead(p) ==
  /\ preview[p] = Idle
  /\ \E u \in Users, a \in Accounts, expenses \in SUBSET Contents, invalid \in BOOLEAN :
       /\ expenses # {} \/ invalid
       /\ preview' = [preview EXCEPT ![p] =
                        [user |-> u, account |-> a, invalid |-> invalid, readAt |-> clock,
                         rows |-> {c \in expenses : ~Imported(a, c)}]]
  /\ UNCHANGED <<clock, batches, consumedAt, ledger, held, request, phase, tried, pending, edit>>

\* Fault: an hour instead of half an hour.
Expiry_Doubled(now) == now + 2 * Ttl

Expiry(now) == now + Ttl

\* The batch is saved with what the earlier read decided, and with a lifetime that
\* counts from a clock read after that read and before the INSERT.
PreviewSave(p) ==
  /\ preview[p] # Idle
  /\ \E b \in BatchIds, now \in preview[p].readAt..clock :
       /\ batches[b] = NoBatch
       /\ batches' = [batches EXCEPT ![b] =
                        [user |-> preview[p].user, account |-> preview[p].account,
                         rows |-> preview[p].rows, invalid |-> preview[p].invalid,
                         expiresAt |-> Expiry(now)]]
  /\ preview' = [preview EXCEPT ![p] = Idle]
  /\ UNCHANGED <<clock, consumedAt, ledger, held, request, phase, tried, pending, edit>>

-----------------------------------------------------------------------------
(* Confirmation: POST /imports/csv/confirm.                                *)

\* The request reads the clock before it asks the pool for a transaction.
StartConfirm(r) ==
  /\ phase[r] = "idle"
  /\ \E b \in BatchIds, u \in Users :
       /\ batches[b] # NoBatch
       /\ request' = [request EXCEPT ![r] = [batch |-> b, user |-> u, now |-> clock]]
  /\ phase' = [phase EXCEPT ![r] = "consume"]
  /\ UNCHANGED <<clock, batches, consumedAt, ledger, held, preview, tried, pending, edit>>

\* Every way a confirmation ends: the slot is free again.
Finish(r) ==
  /\ request' = [request EXCEPT ![r] = Idle]
  /\ phase' = [phase EXCEPT ![r] = "idle"]
  /\ tried' = [tried EXCEPT ![r] = {}]
  /\ pending' = [pending EXCEPT ![r] = {}]

\* Fault: the rows are inserted outside the transaction.
Rollback_KeepsRows(r) ==
  LET b == request[r].batch IN
  /\ Finish(r)
  /\ ledger' = [ledger EXCEPT ![b] =
                  [c \in Contents |-> IF c \in pending[r] THEN batches[b].account ELSE @[c]]]
  /\ UNCHANGED <<clock, batches, consumedAt, held, preview, edit>>

\* PostgreSQL undoes the INSERT and the UPDATE and releases the locks.
Rollback(r) ==
  /\ Finish(r)
  /\ UNCHANGED <<clock, batches, consumedAt, ledger, held, preview, edit>>

\* Fault: a batch can still be consumed at the instant it expires.
Consumable_AtExpiry(r) ==
  LET b == request[r].batch IN
    /\ batches[b].user = request[r].user
    /\ consumedAt[b] = NotConsumed
    /\ batches[b].expiresAt >= request[r].now

\* Fault: the WHERE clause does not compare user_id.
Consumable_AnyUser(r) ==
  LET b == request[r].batch IN
    /\ consumedAt[b] = NotConsumed
    /\ batches[b].expiresAt > request[r].now

\* The WHERE clause of consumePreviewBatch.
Consumable(r) ==
  LET b == request[r].batch IN
    /\ batches[b].user = request[r].user
    /\ consumedAt[b] = NotConsumed
    /\ batches[b].expiresAt > request[r].now

\* Fault: the batch is read without FOR UPDATE and marked at the end.
BatchLocked_NoLock(r) == FALSE

\* Another transaction has updated the batch row and not ended yet.
BatchLocked(r) ==
  \E s \in Confirmers : phase[s] = "insert" /\ request[s].batch = request[r].batch

\* The UPDATE sets consumed_at inside the transaction and keeps the row lock.
ConsumeBatch(r) ==
  /\ phase[r] = "consume"
  /\ Consumable(r)
  /\ ~BatchLocked(r)
  /\ phase' = [phase EXCEPT ![r] = "insert"]
  /\ UNCHANGED <<clock, batches, consumedAt, ledger, held, preview, request, tried, pending, edit>>

\* The UPDATE matches no row: "Import preview batch is invalid or expired".
ConsumeNothing(r) ==
  /\ phase[r] = "consume"
  /\ ~Consumable(r)
  /\ Rollback(r)

Rows(r) == batches[request[r].batch].rows

\* An invalid outcome, or a row createTransaction refuses, throws before the
\* INSERT is sent.
Rejected(r) == batches[request[r].batch].invalid \/ Rows(r) \cap Oversized # {}

RejectBatch(r) ==
  /\ phase[r] = "insert"
  /\ Rejected(r)
  /\ Rollback(r)

\* Fault: the INSERT does not see uncommitted rows.
WaitsFor_Never(r, s, c) == FALSE

\* Another confirmation holds the key of content c uncommitted: the INSERT
\* waits for it to end.
WaitsFor(r, s, c) ==
  /\ s # r
  /\ phase[r] = "insert" /\ c \in Rows(r) \ tried[r]
  /\ KeyPending(s, batches[request[r].batch].account, c)

\* One row of INSERT ... ON CONFLICT (account_id, import_hash) DO NOTHING.
InsertRow(r, c) ==
  LET a == batches[request[r].batch].account IN
  /\ phase[r] = "insert"
  /\ ~Rejected(r)
  /\ c \in Rows(r) \ tried[r]
  /\ \A s \in Confirmers : ~WaitsFor(r, s, c)
  /\ tried' = [tried EXCEPT ![r] = @ \cup {c}]
  /\ pending' = [pending EXCEPT ![r] =
                   IF KeyTaken(a, a, c, {}) THEN @ ELSE @ \cup {c}]
  /\ UNCHANGED <<clock, batches, consumedAt, ledger, held, preview, request, phase, edit>>

\* Fault: saveTransactions is not awaited.
Inserted_NotAwaited(r) == phase[r] = "insert" /\ ~Rejected(r)

\* The INSERT has processed every row.
Inserted(r) == phase[r] = "insert" /\ ~Rejected(r) /\ tried[r] = Rows(r)

\* saveTransactions accepts that every row was new, or that none was.
AllOrNone(r) == pending[r] \in {{}, Rows(r)}

\* Some rows were new and some were not: the transaction is rolled back.
PartialConflict(r) ==
  /\ Inserted(r)
  /\ ~AllOrNone(r)
  /\ Rollback(r)

\* COMMIT makes the consumption and the inserted rows visible together.
Commit(r) ==
  LET b == request[r].batch
      a == batches[b].account IN
  /\ Inserted(r)
  /\ AllOrNone(r)
  /\ consumedAt' = [consumedAt EXCEPT ![b] = request[r].now]
  /\ ledger' = [ledger EXCEPT ![b] =
                  [c \in Contents |-> IF c \in pending[r] THEN a ELSE ledger[b][c]]]
  /\ held' = [held EXCEPT ![a] = @ \cup pending[r]]
  /\ Finish(r)
  /\ UNCHANGED <<clock, batches, preview, edit>>

\* Fault: nobody looks for cycles.
Deadlocked_Undetected(r) == FALSE

\* Inserts wait for each other in a cycle: PostgreSQL's deadlock detector
\* aborts one of them.
Deadlocked(r) ==
  \E cycle \in SUBSET Confirmers :
    /\ r \in cycle
    /\ \A s \in cycle : \E t \in cycle : \E c \in Contents : WaitsFor(s, t, c)
    /\ \A t \in cycle : \E s \in cycle : \E c \in Contents : WaitsFor(s, t, c)

DeadlockAbort(r) ==
  /\ Deadlocked(r)
  /\ Rollback(r)

\* The connection breaks, or a statement fails, before COMMIT.
ConnectionLost(r) ==
  /\ phase[r] # "idle"
  /\ Rollback(r)

-----------------------------------------------------------------------------
(* Maintenance of imported rows: /transactions/:id/edit and /:id/delete.   *)

EditRead(e) ==
  /\ edit[e] = Idle
  /\ \E id \in RowId :
       /\ ledger[id.batch][id.content] # NoRow
       /\ edit' = [edit EXCEPT ![e] = id]
  /\ UNCHANGED <<clock, batches, consumedAt, ledger, held, preview, request, phase, tried, pending>>

\* The upsert by id keeps the hash, books the row on the account of the form,
\* and inserts the row again if it was deleted since the read.  It waits for an
\* uncommitted insert of the same key.
EditSave(e) ==
  LET b == edit[e].batch
      c == edit[e].content
      home == batches[b].account IN
  /\ edit[e] # Idle
  /\ \E a \in Accounts :
       /\ ~KeyTaken(a, home, c, {b})
       /\ \A r \in Confirmers : ~(a = home /\ KeyPending(r, a, c))
       /\ ledger' = [ledger EXCEPT ![b][c] = a]
  /\ edit' = [edit EXCEPT ![e] = Idle]
  /\ UNCHANGED <<clock, batches, consumedAt, held, preview, request, phase, tried, pending>>

\* A bad form, an unknown reference or a unique violation: the request fails.
EditFail(e) ==
  /\ edit[e] # Idle
  /\ edit' = [edit EXCEPT ![e] = Idle]
  /\ UNCHANGED <<clock, batches, consumedAt, ledger, held, preview, request, phase, tried, pending>>

DeleteRow(id) ==
  /\ ledger[id.batch][id.content] # NoRow
  /\ ledger' = [ledger EXCEPT ![id.batch][id.content] = NoRow]
  /\ UNCHANGED <<clock, batches, consumedAt, held, preview, request, phase, tried, pending, edit>>

-----------------------------------------------------------------------------
(* The environment.                                                        *)

Tick ==
  /\ clock < MaxTime
  /\ clock' = clock + 1
  /\ UNCHANGED <<batches, consumedAt, ledger, held, preview, request, phase, tried, pending, edit>>

\* The web process dies: every request is gone and PostgreSQL rolls back
\* every open transaction.
Crash ==
  /\ preview' = [p \in Previewers |-> Idle]
  /\ request' = [r \in Confirmers |-> Idle]
  /\ phase' = [r \in Confirmers |-> "idle"]
  /\ tried' = [r \in Confirmers |-> {}]
  /\ pending' = [r \in Confirmers |-> {}]
  /\ edit' = [e \in Editors |-> Idle]
  /\ UNCHANGED <<clock, batches, consumedAt, ledger, held>>

Confirm(r) ==
  \/ ConsumeBatch(r) \/ ConsumeNothing(r)
  \/ RejectBatch(r) \/ (\E c \in Contents : InsertRow(r, c))
  \/ PartialConflict(r) \/ Commit(r) \/ DeadlockAbort(r)

Next ==
  \/ \E p \in Previewers : PreviewRead(p) \/ PreviewSave(p)
  \/ \E r \in Confirmers : StartConfirm(r) \/ Confirm(r) \/ ConnectionLost(r)
  \/ \E e \in Editors : EditRead(e) \/ EditSave(e) \/ EditFail(e)
  \/ \E id \in RowId : DeleteRow(id)
  \/ Tick
  \/ Crash

Spec == Init /\ [][Next]_vars

\* A confirmation that can go on does: the driver sends the next statement as
\* soon as the last one returns (weak fairness).  A statement that waits for a
\* lock is woken each time the lock is released, and PostgreSQL queues waiters,
\* so one that could run again and again finally runs (strong fairness).
ConfirmFairness ==
  \A r \in Confirmers :
    /\ SF_vars(ConsumeBatch(r) \/ \E c \in Contents : InsertRow(r, c))
    /\ WF_vars(Confirm(r))

FairSpec == Spec /\ ConfirmFairness
=============================================================================
