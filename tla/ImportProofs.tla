---------------------------- MODULE ImportProofs ----------------------------
(***************************************************************************)
(* The properties of ImportProperties, for every value of the constants.   *)
(***************************************************************************)
EXTENDS ImportProperties, TLAPS

USE OversizedAssumption, TtlAssumption, MaxTimeAssumption, NoRowAssumption,
    NoBatchAssumption, IdleAssumption

\* A prepared batch with an expiry, counted from a clock between its read and its
\* save, is a batch.
LEMMA SavedBatchType ==
  ASSUME TypeOK, NEW prep \in Prepared, NEW now \in prep.readAt..clock
  PROVE  [user |-> prep.user, account |-> prep.account, rows |-> prep.rows,
          invalid |-> prep.invalid, expiresAt |-> Expiry(now)] \in Batch
<1>1. prep.readAt \in Time /\ clock \in Time
  BY DEF TypeOK, Prepared
<1>2. now \in Time
  BY <1>1 DEF Time
<1> QED
  BY <1>2 DEF Prepared, Batch, Time, Expiry

\* Every way of ending a confirmation keeps the types of its slots.
LEMMA FinishType ==
  ASSUME TypeOK, NEW r \in Confirmers, Finish(r)
  PROVE  /\ request' \in [Confirmers -> Confirmation \cup {Idle}]
         /\ phase' \in [Confirmers -> {"idle", "consume", "insert"}]
         /\ tried' \in [Confirmers -> SUBSET Contents]
         /\ pending' \in [Confirmers -> SUBSET Contents]
BY DEF TypeOK, Finish

LEMMA RollbackType ==
  ASSUME TypeOK, NEW r \in Confirmers, Rollback(r)
  PROVE  TypeOK'
BY FinishType DEF TypeOK, Rollback


\* What a confirmation past its UPDATE knows of its batch.
LEMMA InsertFacts ==
  ASSUME TypeOK, RequestInv, NEW r \in Confirmers, phase[r] = "insert"
  PROVE  LET b == request[r].batch IN
         /\ request[r] \in Confirmation
         /\ b \in BatchIds
         /\ request[r].now \in Time
         /\ batches[b] \in Batch
         /\ batches[b].account \in Accounts
         /\ Rows(r) \in SUBSET Contents
         /\ consumedAt[b] = NotConsumed
         /\ batches[b].expiresAt > request[r].now
BY DEF RequestInv, Confirmation, Batch, Consumable, Rows

\* Type correctness of every step.
LEMMA TypeStep == TypeOK /\ RequestInv /\ [Next]_vars => TypeOK'
<1> SUFFICES ASSUME TypeOK, RequestInv, [Next]_vars PROVE TypeOK'
  OBVIOUS
<1>1. ASSUME NEW p \in Previewers, PreviewRead(p) PROVE TypeOK'
  BY <1>1 DEF TypeOK, PreviewRead, Prepared
<1>2. ASSUME NEW p \in Previewers, PreviewSave(p) PROVE TypeOK'
  BY <1>2, SavedBatchType DEF TypeOK, PreviewSave
<1>3. ASSUME NEW r \in Confirmers, StartConfirm(r) PROVE TypeOK'
  BY <1>3 DEF TypeOK, StartConfirm, Confirmation
<1>4. ASSUME NEW r \in Confirmers, ConsumeBatch(r) PROVE TypeOK'
  BY <1>4 DEF TypeOK, ConsumeBatch
<1>5. ASSUME NEW r \in Confirmers, NEW c \in Contents, InsertRow(r, c) PROVE TypeOK'
  BY <1>5 DEF TypeOK, InsertRow
<1>6. ASSUME NEW r \in Confirmers, Rollback(r) PROVE TypeOK'
  BY <1>6, RollbackType
<1>7. ASSUME NEW r \in Confirmers, Commit(r) PROVE TypeOK'
  <2>1. phase[r] = "insert" /\ Finish(r)
    BY <1>7 DEF Commit, Inserted
  <2>2. QED
    BY <1>7, <2>1, InsertFacts, FinishType DEF TypeOK, Commit
<1>8. ASSUME NEW e \in Editors, EditRead(e) PROVE TypeOK'
  BY <1>8 DEF TypeOK, EditRead
<1>9. ASSUME NEW e \in Editors, EditSave(e) PROVE TypeOK'
  BY <1>9 DEF TypeOK, EditSave, RowId
<1>10. ASSUME NEW e \in Editors, EditFail(e) PROVE TypeOK'
  BY <1>10 DEF TypeOK, EditFail
<1>11. ASSUME NEW id \in RowId, DeleteRow(id) PROVE TypeOK'
  BY <1>11 DEF TypeOK, DeleteRow, RowId
<1>12. CASE Tick
  BY <1>12 DEF TypeOK, Tick, Time
<1>13. CASE Crash
  BY <1>13 DEF TypeOK, Crash
<1>14. CASE UNCHANGED vars
  BY <1>14 DEF TypeOK, vars
<1> QED
  BY <1>1, <1>2, <1>3, <1>4, <1>5, <1>6, <1>7, <1>8, <1>9, <1>10, <1>11, <1>12, <1>13, <1>14
     DEF Next, Confirm, ConsumeNothing, RejectBatch, PartialConflict, DeadlockAbort,
         ConnectionLost

\* The properties of requests and rows, without the types.
Core ==
  RequestInv /\ PendingInv /\ LedgerInv /\ EditInv /\ UniqueImportIdentity
    /\ NothingLost /\ ConsumedInTimeAndValid

\* The states in which a batch is saved, or a slot starts or ends, agree with
\* the earlier ones on what matters to rows.
LEMMA PreviewSaveCore ==
  ASSUME IInv, TypeOK', NEW p \in Previewers, PreviewSave(p)
  PROVE  Core'
<1>a. PICK b \in BatchIds : \E saved \in Batch :
        batches[b] = NoBatch /\ batches' = [batches EXCEPT ![b] = saved]
  <2>1. preview[p] \in Prepared
    BY DEF PreviewSave, IInv, TypeOK
  <2> QED
    BY <2>1, SavedBatchType DEF PreviewSave, IInv
<1>b. PICK saved \in Batch : batches[b] = NoBatch /\ batches' = [batches EXCEPT ![b] = saved]
  BY <1>a
<1>0. /\ batches'[b] \in Batch
      /\ \A b2 \in BatchIds : b2 # b => batches'[b2] = batches[b2]
      /\ UNCHANGED <<clock, consumedAt, ledger, held, request, phase, tried, pending, edit>>
  BY <1>a, <1>b DEF PreviewSave, IInv, TypeOK
<1>1. \A r \in Confirmers : phase[r] # "idle" => request[r].batch \in BatchIds \ {b}
  BY <1>a DEF IInv, RequestInv, Confirmation
<1>2. consumedAt[b] = NotConsumed /\ \A c \in Contents : ledger[b][c] = NoRow
  BY <1>a DEF IInv, LedgerInv, RowsOnlyFromConsumedBatches
<1>3. RequestInv'
  BY <1>0, <1>1 DEF IInv, RequestInv, Consumable, Rows, TypeOK
<1>4. PendingInv'
  <2>1. \A s \in Confirmers : phase[s] # "idle" => batches'[request[s].batch] = batches[request[s].batch]
    BY <1>0, <1>1
  <2> SUFFICES ASSUME NEW r \in Confirmers, phase[r] = "insert"
               PROVE  LET a == batches[request[r].batch].account IN
                 /\ \A c \in pending[r] : \A b2 \in BatchIds :
                      ~(ledger[b2][c] = a /\ batches'[b2].account = a)
                 /\ \A c \in pending[r] : \A s \in Confirmers : s # r =>
                      ~(c \in pending[s] /\ batches'[request[s].batch].account = a)
                 /\ tried[r] \ pending[r] \subseteq held[a]
    BY <1>0, <2>1 DEF PendingInv, KeyPending
  <2> DEFINE a == batches[request[r].batch].account
  <2>2. a # NoRow
    BY InsertFacts DEF IInv
  <2>3. \A c \in pending[r] : \A b2 \in BatchIds : ~(ledger[b2][c] = a /\ batches'[b2].account = a)
    <3> SUFFICES ASSUME NEW c \in pending[r], NEW b2 \in BatchIds, ledger[b2][c] = a
                 PROVE  batches'[b2].account # a
      OBVIOUS
    <3>1. c \in Contents
      BY DEF IInv, TypeOK
    <3>2. b2 # b
      BY <1>2, <2>2, <3>1
    <3>3. batches'[b2] = batches[b2]
      BY <1>0, <3>2
    <3> QED
      BY <3>3 DEF IInv, PendingInv
  <2>4. \A c \in pending[r] : \A s \in Confirmers : s # r =>
          ~(c \in pending[s] /\ batches'[request[s].batch].account = a)
    BY <2>1 DEF IInv, PendingInv, KeyPending, RequestInv
  <2>5. tried[r] \ pending[r] \subseteq held[a]
    BY DEF IInv, PendingInv
  <2> QED
    BY <2>3, <2>4, <2>5
<1>5. LedgerInv'
  BY <1>0, <1>2 DEF IInv, LedgerInv, RowsOnlyFromConsumedBatches, TypeOK
<1>6. EditInv'
  BY <1>0, <1>2, SMTT(40) DEF IInv, EditInv, TypeOK, RowId
<1>7. UniqueImportIdentity'
  BY <1>0, <1>2 DEF IInv, UniqueImportIdentity
<1>8. NothingLost' /\ ConsumedInTimeAndValid'
  BY <1>0, <1>2 DEF IInv, NothingLost, ConsumedInTimeAndValid
<1> QED
  BY <1>3, <1>4, <1>5, <1>6, <1>7, <1>8 DEF Core

LEMMA PreviewReadCore ==
  ASSUME IInv, NEW p \in Previewers, PreviewRead(p)
  PROVE  Core'
BY DEF IInv, Core, PreviewRead, RequestInv, PendingInv, LedgerInv, EditInv, UniqueImportIdentity,
       NothingLost, ConsumedInTimeAndValid, RowsOnlyFromConsumedBatches, Consumable, Rows, KeyPending

LEMMA EditFailCore ==
  ASSUME IInv, NEW e \in Editors, EditFail(e)
  PROVE  Core'
BY DEF IInv, Core, EditFail, RequestInv, PendingInv, LedgerInv, EditInv, UniqueImportIdentity, TypeOK,
       NothingLost, ConsumedInTimeAndValid, RowsOnlyFromConsumedBatches, Consumable, Rows, KeyPending

LEMMA TickCore ==
  ASSUME IInv, Tick
  PROVE  Core'
BY DEF IInv, Core, Tick, RequestInv, PendingInv, LedgerInv, EditInv, UniqueImportIdentity,
       NothingLost, ConsumedInTimeAndValid, RowsOnlyFromConsumedBatches, Consumable, Rows, KeyPending

LEMMA StutterCore ==
  ASSUME IInv, UNCHANGED vars
  PROVE  Core'
BY DEF IInv, Core, vars, RequestInv, PendingInv, LedgerInv, EditInv, UniqueImportIdentity,
       NothingLost, ConsumedInTimeAndValid, RowsOnlyFromConsumedBatches, Consumable, Rows, KeyPending

LEMMA EditReadCore ==
  ASSUME IInv, TypeOK', NEW e \in Editors, EditRead(e)
  PROVE  Core'
<1>1. UNCHANGED <<batches, consumedAt, ledger, held, request, phase, tried, pending>>
  BY DEF EditRead
<1>2. RequestInv' /\ PendingInv' /\ LedgerInv' /\ UniqueImportIdentity' /\ NothingLost'
        /\ ConsumedInTimeAndValid'
  BY <1>1 DEF IInv, RequestInv, PendingInv, LedgerInv, UniqueImportIdentity,
       NothingLost, ConsumedInTimeAndValid, RowsOnlyFromConsumedBatches, Consumable, Rows, KeyPending
<1>3. EditInv'
  BY <1>1 DEF EditRead, IInv, EditInv, LedgerInv, RowsOnlyFromConsumedBatches, TypeOK, RowId
<1> QED
  BY <1>2, <1>3 DEF Core

LEMMA StartConfirmCore ==
  ASSUME IInv, TypeOK', NEW r \in Confirmers, StartConfirm(r)
  PROVE  Core'
<1>1. UNCHANGED <<batches, consumedAt, ledger, held, tried, pending, edit>>
  BY DEF StartConfirm
<1>2. LedgerInv' /\ EditInv' /\ UniqueImportIdentity' /\ NothingLost' /\ ConsumedInTimeAndValid'
  BY <1>1 DEF IInv, LedgerInv, EditInv, UniqueImportIdentity, NothingLost, ConsumedInTimeAndValid,
       RowsOnlyFromConsumedBatches
<1>3. /\ phase'[r] = "consume" /\ phase[r] = "idle"
      /\ request'[r] \in Confirmation
      /\ batches[request'[r].batch] \in Batch
      /\ \A s \in Confirmers : s # r => phase'[s] = phase[s] /\ request'[s] = request[s]
  BY DEF StartConfirm, IInv, TypeOK, Confirmation
<1>4. RequestInv'
  BY <1>1, <1>3 DEF IInv, RequestInv, Consumable, Rows
<1>5. PendingInv'
  BY <1>1, <1>3 DEF IInv, PendingInv, RequestInv, KeyPending
<1> QED
  BY <1>2, <1>4, <1>5 DEF Core

LEMMA ConsumeBatchCore ==
  ASSUME IInv, TypeOK', NEW r \in Confirmers, ConsumeBatch(r)
  PROVE  Core'
<1>1. UNCHANGED <<batches, consumedAt, ledger, held, request, tried, pending, edit>>
  BY DEF ConsumeBatch
<1>2. LedgerInv' /\ EditInv' /\ UniqueImportIdentity' /\ NothingLost' /\ ConsumedInTimeAndValid'
  BY <1>1 DEF IInv, LedgerInv, EditInv, UniqueImportIdentity, NothingLost, ConsumedInTimeAndValid,
       RowsOnlyFromConsumedBatches
<1>3. /\ phase[r] = "consume" /\ phase'[r] = "insert"
      /\ tried[r] = {} /\ pending[r] = {}
      /\ \A s \in Confirmers : s # r => phase'[s] = phase[s]
      /\ \A s \in Confirmers : phase[s] = "insert" => request[s].batch # request[r].batch
  BY DEF ConsumeBatch, BatchLocked, IInv, TypeOK, RequestInv
<1>4. RequestInv'
  BY <1>1, <1>3 DEF IInv, RequestInv, Consumable, Rows, ConsumeBatch
<1>5. PendingInv'
  BY <1>1, <1>3 DEF IInv, PendingInv, RequestInv, KeyPending
<1> QED
  BY <1>2, <1>4, <1>5 DEF Core

\* Ending confirmations without committing them: any set of them, so that the
\* lemma covers a rollback and a crash.
LEMMA AbortCore ==
  ASSUME IInv, TypeOK', NEW ended \in SUBSET Confirmers,
         UNCHANGED <<batches, consumedAt, ledger, held>>,
         \A r \in ended : request'[r] = Idle /\ phase'[r] = "idle" /\ tried'[r] = {} /\ pending'[r] = {},
         \A r \in Confirmers \ ended : /\ request'[r] = request[r] /\ phase'[r] = phase[r]
                                       /\ tried'[r] = tried[r] /\ pending'[r] = pending[r],
         \A e \in Editors : edit'[e] \in {edit[e], Idle}
  PROVE  Core'
<1>1. LedgerInv' /\ UniqueImportIdentity' /\ NothingLost' /\ ConsumedInTimeAndValid'
  BY DEF IInv, LedgerInv, UniqueImportIdentity, NothingLost, ConsumedInTimeAndValid,
       RowsOnlyFromConsumedBatches
<1>2. EditInv'
  BY DEF IInv, EditInv
<1>3. RequestInv'
  BY DEF IInv, RequestInv, Consumable, Rows
<1>4. PendingInv'
  BY DEF IInv, PendingInv, RequestInv, KeyPending
<1> QED
  BY <1>1, <1>2, <1>3, <1>4 DEF Core

LEMMA RollbackCore ==
  ASSUME IInv, TypeOK', NEW r \in Confirmers, Rollback(r)
  PROVE  Core'
<1> PICK ended \in SUBSET Confirmers : ended = {r}
  OBVIOUS
<1>1. /\ UNCHANGED <<batches, consumedAt, ledger, held>>
      /\ \A s \in ended : request'[s] = Idle /\ phase'[s] = "idle" /\ tried'[s] = {} /\ pending'[s] = {}
      /\ \A s \in Confirmers \ ended : /\ request'[s] = request[s] /\ phase'[s] = phase[s]
                                       /\ tried'[s] = tried[s] /\ pending'[s] = pending[s]
      /\ \A e \in Editors : edit'[e] \in {edit[e], Idle}
  BY DEF Rollback, Finish, IInv, TypeOK
<1> QED
  BY <1>1, AbortCore

LEMMA CrashCore ==
  ASSUME IInv, TypeOK', Crash
  PROVE  Core'
<1> PICK ended \in SUBSET Confirmers : ended = Confirmers
  OBVIOUS
<1>1. /\ UNCHANGED <<batches, consumedAt, ledger, held>>
      /\ \A s \in ended : request'[s] = Idle /\ phase'[s] = "idle" /\ tried'[s] = {} /\ pending'[s] = {}
      /\ \A s \in Confirmers \ ended : /\ request'[s] = request[s] /\ phase'[s] = phase[s]
                                       /\ tried'[s] = tried[s] /\ pending'[s] = pending[s]
      /\ \A e \in Editors : edit'[e] \in {edit[e], Idle}
  BY DEF Crash
<1> QED
  BY <1>1, AbortCore

LEMMA InsertRowCore ==
  ASSUME IInv, TypeOK', NEW r \in Confirmers, NEW c \in Contents, InsertRow(r, c)
  PROVE  Core'
<1> DEFINE a == batches[request[r].batch].account
<1>1. UNCHANGED <<clock, batches, consumedAt, ledger, held, request, phase, edit>>
  BY DEF InsertRow
<1>2. LedgerInv' /\ EditInv' /\ UniqueImportIdentity' /\ NothingLost' /\ ConsumedInTimeAndValid'
  BY <1>1 DEF IInv, LedgerInv, EditInv, UniqueImportIdentity, NothingLost, ConsumedInTimeAndValid,
       RowsOnlyFromConsumedBatches
<1>3. /\ phase[r] = "insert" /\ c \in Rows(r)
      /\ tried'[r] = tried[r] \cup {c}
      /\ pending'[r] \in {pending[r], pending[r] \cup {c}}
      /\ \A s \in Confirmers : s # r => tried'[s] = tried[s] /\ pending'[s] = pending[s]
  BY DEF InsertRow, IInv, TypeOK
<1>4. RequestInv'
  BY <1>1, <1>3 DEF IInv, RequestInv, Consumable, Rows
<1>5. CASE KeyTaken(a, a, c, {})
  <2>1. pending' = pending
    BY <1>5 DEF InsertRow, IInv, TypeOK
  <2>2. c \in held[a]
    BY <1>5, InsertFacts, <1>3 DEF KeyTaken, IInv, LedgerInv
  <2>3. PendingInv'
    BY <1>1, <1>3, <2>1, <2>2 DEF IInv, PendingInv, KeyPending
  <2> QED
    BY <1>2, <1>4, <2>3 DEF Core
<1>6. CASE ~KeyTaken(a, a, c, {})
  <2>1. pending'[r] = pending[r] \cup {c}
    BY <1>6 DEF InsertRow, IInv, TypeOK
  <2>2. \A b \in BatchIds : ~(ledger[b][c] = a /\ batches[b].account = a)
    BY <1>6 DEF KeyTaken
  <2>3. \A s \in Confirmers : s # r => ~KeyPending(s, a, c)
    BY <1>3 DEF InsertRow, WaitsFor
  <2>4. PendingInv'
    <3> SUFFICES ASSUME NEW s \in Confirmers, phase[s] = "insert"
                 PROVE  LET h == batches[request[s].batch].account IN
                   /\ \A d \in pending'[s] : \A b \in BatchIds :
                        ~(ledger[b][d] = h /\ batches[b].account = h)
                   /\ \A d \in pending'[s] : \A t \in Confirmers : t # s =>
                        ~(d \in pending'[t] /\ batches[request[t].batch].account = h)
                   /\ tried'[s] \ pending'[s] \subseteq held[h]
      BY <1>1 DEF PendingInv, KeyPending
    <3>1. CASE s = r
      BY <1>1, <1>3, <2>1, <2>2, <2>3, <3>1 DEF IInv, PendingInv, KeyPending
    <3>2. CASE s # r
      BY <1>1, <1>3, <2>1, <2>2, <2>3, <3>2 DEF IInv, PendingInv, KeyPending
    <3> QED
      BY <3>1, <3>2
  <2> QED
    BY <1>2, <1>4, <2>4 DEF Core
<1> QED
  BY <1>5, <1>6

LEMMA CommitCore ==
  ASSUME IInv, TypeOK', NEW r \in Confirmers, Commit(r)
  PROVE  Core'
<1> DEFINE b == request[r].batch
           a == batches[b].account
<1>1. /\ phase[r] = "insert" /\ tried[r] = Rows(r) /\ ~Rejected(r)
      /\ pending[r] \in {{}, Rows(r)}
      /\ UNCHANGED <<clock, batches, preview, edit>>
  BY DEF Commit, Inserted, AllOrNone
<1>2. /\ b \in BatchIds /\ a \in Accounts /\ Rows(r) \in SUBSET Contents
      /\ batches[b] \in Batch
      /\ request[r].now \in Time
      /\ consumedAt[b] = NotConsumed
      /\ batches[b].expiresAt > request[r].now
      /\ Rows(r) = batches[b].rows
  BY <1>1, InsertFacts DEF IInv, Rows
<1>3. /\ request'[r] = Idle /\ phase'[r] = "idle" /\ tried'[r] = {} /\ pending'[r] = {}
      /\ \A s \in Confirmers : s # r =>
           /\ request'[s] = request[s] /\ phase'[s] = phase[s]
           /\ tried'[s] = tried[s] /\ pending'[s] = pending[s]
  BY DEF Commit, Finish, IInv, TypeOK
<1>4. /\ consumedAt'[b] = request[r].now
      /\ consumedAt'[b] # NotConsumed
      /\ \A b2 \in BatchIds : b2 # b => consumedAt'[b2] = consumedAt[b2]
  BY <1>2 DEF Commit, IInv, TypeOK, Time, NotConsumed
<1>5. \A c \in Contents : ledger[b][c] = NoRow
  BY <1>2 DEF IInv, LedgerInv, RowsOnlyFromConsumedBatches
<1>6. /\ \A c \in Contents : ledger'[b][c] = IF c \in pending[r] THEN a ELSE NoRow
      /\ \A b2 \in BatchIds : b2 # b => ledger'[b2] = ledger[b2]
  BY <1>2, <1>5 DEF Commit, IInv, TypeOK
<1>7. /\ held'[a] = held[a] \cup pending[r]
      /\ \A h \in Accounts : held[h] \subseteq held'[h]
  BY <1>2 DEF Commit, IInv, TypeOK
<1>8. RequestInv'
  BY <1>1, <1>3, <1>4 DEF IInv, RequestInv, Consumable, Rows, Confirmation
<1>9. PendingInv'
  <2> SUFFICES ASSUME NEW s \in Confirmers, s # r, phase[s] = "insert"
               PROVE  LET h == batches[request[s].batch].account IN
                 /\ \A c \in pending[s] : \A b2 \in BatchIds :
                      ~(ledger'[b2][c] = h /\ batches[b2].account = h)
                 /\ \A c \in pending[s] : \A t \in Confirmers : t # s =>
                      ~(c \in pending'[t] /\ batches[request'[t].batch].account = h)
                 /\ tried[s] \ pending[s] \subseteq held'[h]
    BY <1>1, <1>3 DEF PendingInv, KeyPending
  <2> DEFINE h == batches[request[s].batch].account
  <2>1. h \in Accounts
    BY InsertFacts DEF IInv
  <2>2. ASSUME NEW c \in pending[s], NEW b2 \in BatchIds, ledger'[b2][c] = h, batches[b2].account = h
        PROVE  FALSE
    <3>1. c \in Contents
      BY DEF IInv, TypeOK
    <3>2. CASE b2 # b
      BY <1>6, <2>2, <3>2 DEF IInv, PendingInv
    <3>3. CASE b2 = b
      <4>1. c \in pending[r]
        BY <1>6, <2>1, <2>2, <3>1, <3>3
      <4>2. KeyPending(r, h, c)
        BY <2>2, <3>3, <4>1 DEF KeyPending
      <4> QED
        BY <4>2 DEF IInv, PendingInv
    <3> QED
      BY <3>2, <3>3
  <2>3. \A c \in pending[s] : \A t \in Confirmers : t # s =>
          ~(c \in pending'[t] /\ batches[request'[t].batch].account = h)
    BY <1>3 DEF IInv, PendingInv, KeyPending
  <2>4. tried[s] \ pending[s] \subseteq held'[h]
    BY <1>7, <2>1 DEF IInv, PendingInv
  <2> QED
    BY <2>2, <2>3, <2>4
<1>10. LedgerInv'
  BY <1>1, <1>2, <1>4, <1>6, <1>7 DEF IInv, LedgerInv, RowsOnlyFromConsumedBatches, Batch
<1>11. EditInv'
  BY <1>1, <1>4, <1>7 DEF IInv, EditInv, TypeOK, RowId, LedgerInv, Batch
<1>12. UniqueImportIdentity'
  <2> SUFFICES ASSUME NEW b1 \in BatchIds, NEW b2 \in BatchIds, NEW c \in Contents,
                      ledger'[b1][c] # NoRow, ledger'[b1][c] = ledger'[b2][c],
                      batches[b1].account = batches[b2].account
               PROVE  b1 = b2
    BY <1>1 DEF UniqueImportIdentity
  <2>1. CASE b1 # b /\ b2 # b
    BY <1>6, <2>1 DEF IInv, UniqueImportIdentity
  <2>2. ASSUME NEW b3 \in BatchIds, b3 # b, ledger'[b][c] # NoRow, ledger'[b][c] = ledger'[b3][c],
               batches[b3].account = a
        PROVE  FALSE
    <3>1. c \in pending[r] /\ ledger[b3][c] = a
      BY <1>6, <2>2
    <3> QED
      BY <1>1, <2>2, <3>1 DEF IInv, PendingInv
  <2> QED
    BY <2>1, <2>2
<1>13. NothingLost'
  <2>1. Rows(r) \subseteq held'[a]
    BY <1>1, <1>7 DEF IInv, PendingInv
  <2> QED
    BY <1>1, <1>2, <1>4, <1>7, <2>1 DEF IInv, NothingLost, LedgerInv, Batch
<1>14. ConsumedInTimeAndValid'
  BY <1>1, <1>2, <1>4 DEF IInv, ConsumedInTimeAndValid, Rejected, Time, Batch
<1> QED
  BY <1>8, <1>9, <1>10, <1>11, <1>12, <1>13, <1>14 DEF Core

LEMMA EditSaveCore ==
  ASSUME IInv, TypeOK', NEW e \in Editors, EditSave(e)
  PROVE  Core'
<1> DEFINE b == edit[e].batch
           c == edit[e].content
           home == batches[b].account
<1>1. UNCHANGED <<clock, batches, consumedAt, held, preview, request, phase, tried, pending>>
  BY DEF EditSave
<1>2. PICK a \in Accounts :
        /\ ~KeyTaken(a, home, c, {b})
        /\ \A r \in Confirmers : ~(a = home /\ KeyPending(r, a, c))
        /\ ledger' = [ledger EXCEPT ![b][c] = a]
  BY DEF EditSave
<1>3. /\ b \in BatchIds /\ c \in Contents
      /\ consumedAt[b] # NotConsumed
      /\ c \in batches[b].rows /\ c \in held[home]
  BY DEF EditSave, IInv, EditInv, TypeOK, RowId
<1>4. /\ ledger'[b][c] = a
      /\ \A b2 \in BatchIds, d \in Contents : b2 # b \/ d # c => ledger'[b2][d] = ledger[b2][d]
  BY <1>2, <1>3 DEF IInv, TypeOK
<1>5. RequestInv' /\ NothingLost' /\ ConsumedInTimeAndValid'
  BY <1>1 DEF IInv, RequestInv, Consumable, Rows, NothingLost, ConsumedInTimeAndValid
<1>6. PendingInv'
  <2> SUFFICES ASSUME NEW r \in Confirmers, phase[r] = "insert", NEW d \in pending[r], NEW b2 \in BatchIds,
                      ledger'[b2][d] = batches[request[r].batch].account,
                      batches[b2].account = batches[request[r].batch].account
               PROVE  FALSE
    BY <1>1 DEF IInv, PendingInv, KeyPending
  <2>1. d \in Contents
    BY DEF IInv, TypeOK
  <2>2. CASE b2 = b /\ d = c
    BY <1>2, <1>4, <2>2 DEF KeyPending
  <2>3. CASE b2 # b \/ d # c
    BY <1>4, <2>1, <2>3 DEF IInv, PendingInv
  <2> QED
    BY <2>2, <2>3
<1>7. LedgerInv'
  BY <1>1, <1>3, <1>4 DEF IInv, LedgerInv, RowsOnlyFromConsumedBatches
<1>8. EditInv'
  BY <1>1 DEF EditSave, IInv, EditInv, TypeOK
<1>9. UniqueImportIdentity'
  <2> SUFFICES ASSUME NEW b1 \in BatchIds, NEW b2 \in BatchIds, NEW d \in Contents,
                      ledger'[b1][d] # NoRow, ledger'[b1][d] = ledger'[b2][d],
                      batches[b1].account = batches[b2].account
               PROVE  b1 = b2
    BY <1>1 DEF UniqueImportIdentity
  <2>1. ASSUME NEW b3 \in BatchIds, b3 # b, ledger[b3][c] = a, batches[b3].account = home
        PROVE  FALSE
    BY <1>2, <2>1 DEF KeyTaken
  <2> QED
    BY <1>4, <2>1 DEF IInv, UniqueImportIdentity
<1> QED
  BY <1>5, <1>6, <1>7, <1>8, <1>9 DEF Core

LEMMA DeleteRowCore ==
  ASSUME IInv, TypeOK', NEW id \in RowId, DeleteRow(id)
  PROVE  Core'
<1>1. UNCHANGED <<clock, batches, consumedAt, held, preview, request, phase, tried, pending, edit>>
  BY DEF DeleteRow
<1>2. \A b \in BatchIds, c \in Contents : ledger'[b][c] \in {ledger[b][c], NoRow}
  BY DEF DeleteRow, IInv, TypeOK, RowId
<1>3. RequestInv' /\ NothingLost' /\ ConsumedInTimeAndValid' /\ EditInv'
  BY <1>1 DEF IInv, RequestInv, Consumable, Rows, NothingLost, ConsumedInTimeAndValid, EditInv
<1>4. PendingInv'
  <2> SUFFICES ASSUME NEW r \in Confirmers, phase[r] = "insert", NEW d \in pending[r], NEW b2 \in BatchIds,
                      ledger'[b2][d] = batches[request[r].batch].account,
                      batches[b2].account = batches[request[r].batch].account
               PROVE  FALSE
    BY <1>1 DEF IInv, PendingInv, KeyPending
  <2>1. d \in Contents /\ batches[request[r].batch].account # NoRow
    BY InsertFacts DEF IInv, TypeOK
  <2> QED
    BY <1>2, <2>1 DEF IInv, PendingInv
<1>5. LedgerInv' /\ UniqueImportIdentity'
  BY <1>1, <1>2 DEF IInv, LedgerInv, RowsOnlyFromConsumedBatches, UniqueImportIdentity
<1> QED
  BY <1>3, <1>4, <1>5 DEF Core

LEMMA InvariantInit == Init => IInv
BY DEF Init, IInv, TypeOK, Time, NotConsumed, RequestInv, PendingInv, LedgerInv, EditInv,
       RowsOnlyFromConsumedBatches, UniqueImportIdentity, NothingLost, ConsumedInTimeAndValid

\* Every step keeps the inductive invariant.
LEMMA InvariantStep == IInv /\ [Next]_vars => IInv'
<1> SUFFICES ASSUME IInv, [Next]_vars PROVE IInv'
  OBVIOUS
<1>0. TypeOK'
  BY TypeStep DEF IInv
<1>1. ASSUME NEW r \in Confirmers, StartConfirm(r) \/ Confirm(r) \/ ConnectionLost(r) PROVE Core'
  BY <1>0, <1>1, StartConfirmCore, ConsumeBatchCore, InsertRowCore, CommitCore, RollbackCore
     DEF Confirm, ConsumeNothing, RejectBatch, PartialConflict, DeadlockAbort, ConnectionLost
<1>2. ASSUME NEW p \in Previewers, PreviewRead(p) \/ PreviewSave(p) PROVE Core'
  BY <1>0, <1>2, PreviewReadCore, PreviewSaveCore
<1>3. ASSUME NEW e \in Editors, EditRead(e) \/ EditSave(e) \/ EditFail(e) PROVE Core'
  BY <1>0, <1>3, EditReadCore, EditSaveCore, EditFailCore
<1>4. Core'
  BY <1>0, <1>1, <1>2, <1>3, DeleteRowCore, TickCore, CrashCore, StutterCore DEF Next
<1> QED
  BY <1>0, <1>4 DEF IInv, Core

\* The inductive invariant holds throughout.
THEOREM Invariance == Spec => []IInv
BY InvariantInit, InvariantStep, PTL DEF Spec

\* The state of requests, batches and rows is well formed, for any number of
\* users, accounts, batches and concurrent requests.
THEOREM TypeCorrect == Spec => []TypeOK
<1>1. IInv => TypeOK
  BY DEF IInv
<1> QED
  BY <1>1, Invariance, PTL

\* The unique index on (account_id, import_hash) is never violated.
THEOREM ImportIdentityUnique == Spec => []UniqueImportIdentity
<1>1. IInv => UniqueImportIdentity
  BY DEF IInv
<1> QED
  BY <1>1, Invariance, PTL

\* No row of an unconsumed batch is in the ledger.
THEOREM NoOrphanRows == Spec => []RowsOnlyFromConsumedBatches
<1>1. IInv => RowsOnlyFromConsumedBatches
  BY DEF IInv, LedgerInv
<1> QED
  BY <1>1, Invariance, PTL

\* A consumed batch has lost none of its rows.
THEOREM NoLostRows == Spec => []NothingLost
<1>1. IInv => NothingLost
  BY DEF IInv
<1> QED
  BY <1>1, Invariance, PTL

-----------------------------------------------------------------------------

\* What a commit does, in terms of the batch it consumes.
LEMMA CommitFacts ==
  ASSUME IInv, NEW r \in Confirmers, Commit(r)
  PROVE  LET b == request[r].batch
             a == batches[b].account IN
         /\ b \in BatchIds /\ a \in Accounts /\ batches[b] \in Batch
         /\ request[r] = [batch |-> b, user |-> batches[b].user, now |-> consumedAt'[b]]
         /\ request[r].now < batches[b].expiresAt
         /\ ~batches[b].invalid /\ batches[b].rows \cap Oversized = {}
         /\ consumedAt[b] = NotConsumed /\ consumedAt'[b] # NotConsumed
         /\ \A c \in Contents : ledger[b][c] = NoRow
         /\ \A b2 \in BatchIds : b2 # b => consumedAt'[b2] = consumedAt[b2]
         /\ pending[r] \in {{}, batches[b].rows}
         /\ batches[b].rows \subseteq held[a] \cup pending[r]
         /\ ledger' = [ledger EXCEPT ![b] =
                         [c \in Contents |-> IF c \in pending[r] THEN a ELSE NoRow]]
         /\ batches' = batches
         /\ held' = [held EXCEPT ![a] = held[a] \cup pending[r]]
<1> DEFINE b == request[r].batch
           a == batches[b].account
<1>1. /\ phase[r] = "insert" /\ tried[r] = Rows(r) /\ pending[r] \in {{}, Rows(r)}
      /\ Rows(r) = batches[b].rows
  BY DEF Commit, Inserted, AllOrNone, Rows
<1>2. /\ b \in BatchIds /\ a \in Accounts /\ batches[b] \in Batch
      /\ request[r].now \in Time /\ request[r] \in Confirmation
      /\ consumedAt[b] = NotConsumed
  BY <1>1, InsertFacts DEF IInv
<1>3. /\ request[r] = [batch |-> b, user |-> batches[b].user, now |-> consumedAt'[b]]
      /\ request[r].now < batches[b].expiresAt
      /\ ~batches[b].invalid /\ batches[b].rows \cap Oversized = {}
  <2>1. consumedAt'[b] = request[r].now
    BY <1>2 DEF Commit, IInv, TypeOK
  <2>2. Consumable(r)
    BY <1>1 DEF IInv, RequestInv
  <2>3. request[r].user = batches[b].user /\ batches[b].expiresAt > request[r].now
    BY <2>2 DEF Consumable
  <2>4. request[r].now < batches[b].expiresAt
    BY <1>2, <2>3 DEF Time, Batch
  <2>5. request[r] = [batch |-> b, user |-> batches[b].user, now |-> consumedAt'[b]]
    BY <1>2, <2>1, <2>3 DEF Confirmation
  <2>6. ~batches[b].invalid /\ batches[b].rows \cap Oversized = {}
    BY <1>1 DEF Commit, Inserted, Rejected
  <2> QED
    BY <2>4, <2>5, <2>6
<1>4. /\ consumedAt'[b] # NotConsumed
      /\ \A b2 \in BatchIds : b2 # b => consumedAt'[b2] = consumedAt[b2]
  BY <1>2 DEF Commit, IInv, TypeOK, Time, NotConsumed
<1>5. batches[b].rows \subseteq held[a] \cup pending[r]
  BY <1>1 DEF IInv, PendingInv
<1>6. \A c \in Contents : ledger[b][c] = NoRow
  BY <1>2 DEF IInv, LedgerInv, RowsOnlyFromConsumedBatches
<1>7. ledger' = [ledger EXCEPT ![b] = [c \in Contents |-> IF c \in pending[r] THEN a ELSE NoRow]]
  BY <1>2, <1>6, ZenonT(40) DEF Commit, IInv, TypeOK
<1>8. batches' = batches /\ held' = [held EXCEPT ![a] = held[a] \cup pending[r]]
  BY DEF Commit
<1> QED
  BY <1>1, <1>2, <1>3, <1>4, <1>5, <1>6, <1>7, <1>8

\* Only a commit consumes a batch.
LEMMA ConsumedOnlyByCommit ==
  ASSUME IInv, [Next]_vars, consumedAt' # consumedAt
  PROVE  \E r \in Confirmers : Commit(r)
BY DEF Next, vars, PreviewRead, PreviewSave, StartConfirm, Confirm, ConsumeBatch, ConsumeNothing,
       RejectBatch, InsertRow, PartialConflict, DeadlockAbort, ConnectionLost, Rollback, EditRead,
       EditSave, EditFail, DeleteRow, Tick, Crash

\* Batches are consumed for their owner, before they expire by the request's clock,
\* and only when every row is valid and storable.
THEOREM ConsumptionRightful == Spec => ConsumedRightfully
<1> DEFINE Rightful(b) ==
       /\ \E r \in Confirmers :
            /\ request[r] = [batch |-> b, user |-> batches[b].user, now |-> consumedAt'[b]]
            /\ request[r].now < batches[b].expiresAt
       /\ ~batches[b].invalid
       /\ batches[b].rows \cap Oversized = {}
<1>1. IInv /\ [Next]_vars =>
        [\A b \in BatchIds : consumedAt'[b] # consumedAt[b] => Rightful(b)]_consumedAt
  <2> SUFFICES ASSUME IInv, [Next]_vars, NEW b \in BatchIds, consumedAt'[b] # consumedAt[b]
               PROVE  Rightful(b)
    OBVIOUS
  <2>1. PICK r \in Confirmers : Commit(r)
    BY ConsumedOnlyByCommit
  <2>2. b = request[r].batch
    BY <2>1, CommitFacts
  <2> QED
    BY <2>1, <2>2, CommitFacts
<1> QED
  BY <1>1, Invariance, PTL DEF Spec, ConsumedRightfully

\* A commit consumes its batch alone, with all of its rows or none.
LEMMA CommitConsumes ==
  ASSUME IInv, NEW r \in Confirmers, Commit(r)
  PROVE  Consumes(request[r].batch)
<1> DEFINE b == request[r].batch
           a == batches[b].account
<1>1. /\ b \in BatchIds
      /\ consumedAt[b] = NotConsumed /\ consumedAt'[b] # NotConsumed
      /\ \A b2 \in BatchIds : b2 # b => consumedAt'[b2] = consumedAt[b2]
      /\ \A c \in Contents : ledger[b][c] = NoRow
      /\ pending[r] \in {{}, batches[b].rows}
      /\ ledger' = [ledger EXCEPT ![b] = [c \in Contents |-> IF c \in pending[r] THEN a ELSE NoRow]]
  BY CommitFacts
<1>2. /\ \A c \in Contents : ledger'[b][c] = IF c \in pending[r] THEN a ELSE NoRow
      /\ \A b2 \in BatchIds : b2 # b => ledger'[b2] = ledger[b2]
  BY <1>1 DEF IInv, TypeOK
<1>3. \A id \in Changed : id.batch = b
  BY <1>2 DEF Changed, RowId
<1> HIDE DEF b
<1>4. \E rows \in {{}, batches[b].rows} : \A c \in Contents :
        ledger'[b][c] = IF c \in rows THEN batches[b].account ELSE NoRow
  BY <1>1, <1>2
<1>5. \A other \in BatchIds \ {b} : consumedAt'[other] = consumedAt[other]
  BY <1>1
<1>6. Consumes(b)
  BY <1>1, <1>3, <1>4, <1>5 DEF Consumes
<1> QED
  BY <1>6 DEF b

\* Writing one row of a consumed batch, deleting it or saving what an edit read.
LEMMA OneRowMaintained ==
  ASSUME IInv, NEW b \in BatchIds, NEW c \in Contents, NEW a \in Accounts \cup {NoRow},
         ledger' = [ledger EXCEPT ![b][c] = a],
         consumedAt[b] # NotConsumed, c \in batches[b].rows,
         a = NoRow \/ \E e \in Editors : edit[e] = [batch |-> b, content |-> c]
  PROVE  MaintainsOneRow
<1>1. ledger'[b][c] = a
  BY DEF IInv, TypeOK
<1>2. \A b2 \in BatchIds, d \in Contents : b2 # b \/ d # c => ledger'[b2][d] = ledger[b2][d]
  BY DEF IInv, TypeOK
<1>3. \A id \in Changed : id = [batch |-> b, content |-> c]
  <2> SUFFICES ASSUME NEW id \in Changed PROVE id = [batch |-> b, content |-> c]
    OBVIOUS
  <2>1. /\ id \in RowId
        /\ ledger'[id.batch][id.content] # ledger[id.batch][id.content]
    BY DEF Changed
  <2>2. id.batch = b /\ id.content = c
    BY <1>2, <2>1 DEF RowId
  <2> QED
    BY <2>1, <2>2 DEF RowId
<1> QED
  BY <1>1, <1>3 DEF MaintainsOneRow

\* What is left of the ledger's writers: edits and deletions of rows of consumed
\* batches, one row at a time.
LEMMA MaintenanceStep ==
  ASSUME IInv, [Next]_vars, \A r \in Confirmers : ~Commit(r)
  PROVE  MaintainsOneRow
<1>1. ASSUME NEW e \in Editors, EditSave(e) PROVE MaintainsOneRow
  <2>1. PICK a \in Accounts : ledger' = [ledger EXCEPT ![edit[e].batch][edit[e].content] = a]
    BY <1>1 DEF EditSave
  <2>2. edit[e] \in RowId
    BY <1>1 DEF EditSave, IInv, TypeOK
  <2>3. edit[e] = [batch |-> edit[e].batch, content |-> edit[e].content]
    BY <2>2 DEF RowId
  <2>4. /\ edit[e].batch \in BatchIds /\ edit[e].content \in Contents
        /\ consumedAt[edit[e].batch] # NotConsumed
        /\ edit[e].content \in batches[edit[e].batch].rows
    BY <1>1, <2>2 DEF EditSave, IInv, EditInv, RowId
  <2> QED
    BY <2>1, <2>3, <2>4, OneRowMaintained
<1>2. ASSUME NEW id \in RowId, DeleteRow(id) PROVE MaintainsOneRow
  <2>1. ledger' = [ledger EXCEPT ![id.batch][id.content] = NoRow]
    BY <1>2 DEF DeleteRow
  <2>2. /\ id.batch \in BatchIds /\ id.content \in Contents
        /\ consumedAt[id.batch] # NotConsumed
        /\ id.content \in batches[id.batch].rows
    BY <1>2 DEF DeleteRow, IInv, LedgerInv, RowsOnlyFromConsumedBatches, RowId
  <2> QED
    BY <2>1, <2>2, OneRowMaintained
<1>3. \/ UNCHANGED ledger
      \/ \E e \in Editors : EditSave(e)
      \/ \E id \in RowId : DeleteRow(id)
  BY DEF Next, vars, PreviewRead, PreviewSave, StartConfirm, Confirm, ConsumeBatch, ConsumeNothing,
         RejectBatch, InsertRow, PartialConflict, DeadlockAbort, ConnectionLost, Rollback, EditRead,
         EditFail, Tick, Crash
<1>4. CASE UNCHANGED ledger
  BY <1>4 DEF MaintainsOneRow, Changed
<1> QED
  BY <1>1, <1>2, <1>3, <1>4

\* The rows of a batch enter the ledger in the one step that consumes it, and every
\* other change of the ledger is the deletion or the edit of one row of a consumed
\* batch, however many requests confirm the batch at once.
THEOREM AtomicConfirmation == Spec => ConfirmationIsAtomic
<1>1. IInv /\ [Next]_vars =>
        [IF consumedAt' = consumedAt THEN MaintainsOneRow
         ELSE \E b \in BatchIds : Consumes(b)]_<<consumedAt, ledger>>
  <2> SUFFICES ASSUME IInv, [Next]_vars
               PROVE  IF consumedAt' = consumedAt THEN MaintainsOneRow
                      ELSE \E b \in BatchIds : Consumes(b)
    OBVIOUS
  <2>1. ASSUME NEW r \in Confirmers, Commit(r)
        PROVE  consumedAt' # consumedAt /\ \E b \in BatchIds : Consumes(b)
    BY <2>1, CommitConsumes, CommitFacts
  <2>2. CASE \E r \in Confirmers : Commit(r)
    BY <2>1, <2>2
  <2>3. CASE \A r \in Confirmers : ~Commit(r)
    BY <2>3, MaintenanceStep, ConsumedOnlyByCommit
  <2> QED
    BY <2>2, <2>3
<1> QED
  BY <1>1, Invariance, PTL DEF Spec, ConfirmationIsAtomic

-----------------------------------------------------------------------------
(* Refinement.                                                             *)


offeredBar == [b \in BatchIds |-> IF batches[b] = NoBatch THEN NoBatch
                 ELSE [account |-> batches[b].account, rows |-> batches[b].rows]]
confirmedBar == {b \in BatchIds : consumedAt[b] # NotConsumed}

LEMMA InitRefines == Init => Abstract!Init
BY NoBatchAssumption DEF Init, Abstract!Init, NotConsumed

\* The abstract uniqueness is the concrete one.
LEMMA UniqueRefines ==
  ASSUME NEW rows, \A b \in BatchIds : \A c \in Contents : rows[b][c] # NoRow => batches[b] \in Batch,
         \A b1, b2 \in BatchIds : \A c \in Contents :
           (rows[b1][c] # NoRow /\ rows[b1][c] = rows[b2][c]
              /\ batches[b1].account = batches[b2].account) => b1 = b2
  PROVE  Abstract!Unique(rows)
BY DEF Abstract!Unique

\* The invariant after the step gives the uniqueness an abstract step asks for.
LEMMA UniqueAfter ==
  ASSUME IInv', batches' = batches
  PROVE  Abstract!Unique(ledger')
<1>1. \A b \in BatchIds : \A c \in Contents : ledger'[b][c] # NoRow => batches[b] \in Batch
  BY DEF IInv, LedgerInv, RowsOnlyFromConsumedBatches
<1>2. \A b1, b2 \in BatchIds : \A c \in Contents :
        (ledger'[b1][c] # NoRow /\ ledger'[b1][c] = ledger'[b2][c]
           /\ batches[b1].account = batches[b2].account) => b1 = b2
  BY DEF IInv, UniqueImportIdentity
<1> QED
  BY <1>1, <1>2, UniqueRefines

\* Saving a preview offers a batch.
LEMMA PreviewSaveRefines ==
  ASSUME IInv, NEW p \in Previewers, PreviewSave(p)
  PROVE  \E b \in BatchIds : Abstract!Preview(b)
<1>1. PICK b \in BatchIds, now \in preview[p].readAt..clock :
        /\ batches[b] = NoBatch
        /\ batches' = [batches EXCEPT ![b] =
             [user |-> preview[p].user, account |-> preview[p].account, rows |-> preview[p].rows,
              invalid |-> preview[p].invalid, expiresAt |-> Expiry(now)]]
  BY DEF PreviewSave
<1>2. preview[p] \in Prepared /\ batches'[b] \in Batch
  BY <1>1, SavedBatchType DEF PreviewSave, IInv, TypeOK
<1> DEFINE o == [account |-> preview[p].account, rows |-> preview[p].rows]
<1>3. o \in Abstract!Offer
  BY <1>2 DEF Abstract!Offer, Prepared
<1>4. offeredBar' = [offeredBar EXCEPT ![b] = o]
  BY <1>1, <1>2 DEF offeredBar, IInv, TypeOK
<1>5. offeredBar[b] = NoBatch
  BY <1>1 DEF offeredBar
<1>6. confirmedBar' = confirmedBar /\ ledger' = ledger /\ held' = held
  BY DEF PreviewSave, confirmedBar
<1> QED
  BY <1>3, <1>4, <1>5, <1>6 DEF Abstract!Preview, offeredBar, confirmedBar

\* Committing confirms the batch: all of it, or nothing.
LEMMA CommitRefines ==
  ASSUME IInv, IInv', NEW r \in Confirmers, Commit(r)
  PROVE  \E b \in BatchIds : Abstract!ConfirmAll(b) \/ Abstract!ConfirmNone(b)
<1> DEFINE b == request[r].batch
           a == batches[b].account
<1>1. /\ b \in BatchIds /\ batches[b] \in Batch /\ batches' = batches
      /\ a \in Accounts
      /\ consumedAt[b] = NotConsumed /\ consumedAt'[b] # NotConsumed
      /\ \A b2 \in BatchIds : b2 # b => consumedAt'[b2] = consumedAt[b2]
      /\ pending[r] \in {{}, batches[b].rows}
      /\ batches[b].rows \subseteq held[a] \cup pending[r]
      /\ ledger' = [ledger EXCEPT ![b] = [c \in Contents |-> IF c \in pending[r] THEN a ELSE NoRow]]
      /\ held' = [held EXCEPT ![a] = held[a] \cup pending[r]]
  BY CommitFacts
<1> HIDE DEF b, a
<1>2. /\ offeredBar' = offeredBar
      /\ offeredBar[b] # NoBatch
      /\ offeredBar[b] = [account |-> batches[b].account, rows |-> batches[b].rows]
  <2>1. offeredBar[b] = [account |-> batches[b].account, rows |-> batches[b].rows]
    BY <1>1 DEF offeredBar
  <2>2. offeredBar[b] \in [account : Accounts, rows : SUBSET Contents]
    BY <1>1, <2>1 DEF Batch
  <2> QED
    BY <1>1, <2>1, <2>2 DEF offeredBar
<1>3. b \notin confirmedBar /\ confirmedBar' = confirmedBar \cup {b}
  BY <1>1 DEF confirmedBar
<1>4. Abstract!Unique(ledger')
  BY <1>1, UniqueAfter
<1>5. CASE pending[r] = batches[b].rows
  BY <1>1, <1>2, <1>3, <1>4, <1>5 DEF Abstract!ConfirmAll, offeredBar, confirmedBar, a
<1>6. CASE pending[r] = {}
  <2>1. held' = held
    BY <1>1, <1>6 DEF IInv, TypeOK
  <2>2. ledger' = ledger
    BY <1>1, <1>6 DEF IInv, TypeOK, LedgerInv, RowsOnlyFromConsumedBatches
  <2>3. offeredBar[b].rows \subseteq held[offeredBar[b].account]
    BY <1>1, <1>2, <1>6 DEF a
  <2> QED
    BY <1>1, <1>2, <1>3, <2>1, <2>2, <2>3 DEF Abstract!ConfirmNone, offeredBar, confirmedBar
<1> QED
  BY <1>1, <1>5, <1>6

\* Moving, restoring or deleting a row is maintenance of a confirmed row.
LEMMA MaintenanceRefines ==
  ASSUME IInv, IInv', UNCHANGED <<batches, consumedAt, held>>,
         NEW b \in BatchIds, NEW c \in Contents, NEW a \in Accounts \cup {NoRow},
         consumedAt[b] # NotConsumed, c \in batches[b].rows, batches[b] \in Batch,
         ledger' = [ledger EXCEPT ![b][c] = a]
  PROVE  Abstract!Maintain(b, c)
<1>1. /\ offeredBar' = offeredBar /\ confirmedBar' = confirmedBar
      /\ b \in confirmedBar
      /\ c \in offeredBar[b].rows
  BY DEF offeredBar, confirmedBar
<1>2. Abstract!Unique(ledger')
  BY UniqueAfter
<1> QED
  BY <1>1, <1>2 DEF Abstract!Maintain, offeredBar, confirmedBar

\* Every step of the requests is an abstract step or invisible.
LEMMA StepRefines ==
  ASSUME IInv, IInv', [Next]_vars
  PROVE  [Abstract!Next]_(Abstract!vars)
<1>1. ASSUME UNCHANGED <<batches, consumedAt, ledger, held>>
      PROVE  UNCHANGED Abstract!vars
  BY <1>1 DEF Abstract!vars
<1>2. ASSUME NEW p \in Previewers, PreviewSave(p) PROVE Abstract!Next
  BY <1>2, PreviewSaveRefines DEF Abstract!Next
<1>3. ASSUME NEW r \in Confirmers, Commit(r) PROVE Abstract!Next
  BY <1>3, CommitRefines DEF Abstract!Next
<1>4. ASSUME NEW e \in Editors, EditSave(e) PROVE Abstract!Next
  <2> DEFINE b == edit[e].batch
             c == edit[e].content
  <2>1. PICK a \in Accounts : ledger' = [ledger EXCEPT ![b][c] = a]
    BY <1>4 DEF EditSave
  <2>2. /\ b \in BatchIds /\ c \in Contents /\ consumedAt[b] # NotConsumed
        /\ c \in batches[b].rows /\ batches[b] \in Batch
    BY <1>4 DEF EditSave, IInv, EditInv, LedgerInv, TypeOK, RowId
  <2>3. UNCHANGED <<batches, consumedAt, held>>
    BY <1>4 DEF EditSave
  <2>4. Abstract!Maintain(b, c)
    BY <2>1, <2>2, <2>3, MaintenanceRefines
  <2> QED
    BY <2>2, <2>4 DEF Abstract!Next
<1>5. ASSUME NEW id \in RowId, DeleteRow(id) PROVE Abstract!Next
  <2> DEFINE b == id.batch
             c == id.content
  <2>1. /\ ledger' = [ledger EXCEPT ![b][c] = NoRow]
        /\ UNCHANGED <<batches, consumedAt, held>>
    BY <1>5 DEF DeleteRow
  <2>2. /\ b \in BatchIds /\ c \in Contents /\ consumedAt[b] # NotConsumed
        /\ c \in batches[b].rows /\ batches[b] \in Batch
    BY <1>5 DEF DeleteRow, IInv, LedgerInv, RowsOnlyFromConsumedBatches, RowId
  <2>4. Abstract!Maintain(b, c)
    BY <2>1, <2>2, MaintenanceRefines
  <2> QED
    BY <2>2, <2>4 DEF Abstract!Next
<1>6. \/ UNCHANGED <<batches, consumedAt, ledger, held>>
      \/ \E p \in Previewers : PreviewSave(p)
      \/ \E r \in Confirmers : Commit(r)
      \/ \E e \in Editors : EditSave(e)
      \/ \E id \in RowId : DeleteRow(id)
  BY DEF Next, vars, PreviewRead, StartConfirm, Confirm, ConsumeBatch, ConsumeNothing, RejectBatch,
         InsertRow, PartialConflict, DeadlockAbort, ConnectionLost, Rollback, EditRead, EditFail,
         Tick, Crash
<1> QED
  BY <1>1, <1>2, <1>3, <1>4, <1>5, <1>6

\* Interleaved previews, confirmations and maintenance over PostgreSQL keep the
\* promise of ImportAbstract: each batch is confirmed at most once, atomically,
\* and entirely or not at all.
THEOREM Refinement == Spec => ImplementsImportAbstract
<1>1. Init => Abstract!Init
  BY InitRefines
<1>2. IInv /\ IInv' /\ [Next]_vars => [Abstract!Next]_(Abstract!vars)
  BY StepRefines
<1> QED
  BY <1>1, <1>2, Invariance, PTL DEF Spec, Abstract!Spec, ImplementsImportAbstract
=============================================================================
