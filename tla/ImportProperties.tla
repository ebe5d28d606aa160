-------------------------- MODULE ImportProperties --------------------------
(***************************************************************************)
(* Correctness of CSV preview and confirmation, and its refinement of      *)
(* ImportAbstract.                                                         *)
(***************************************************************************)
EXTENDS Import

\* The unique index on (account_id, import_hash) holds over committed rows,
\* although confirmations check it row by row while other confirmations hold
\* uncommitted rows and edits move imported rows between accounts.
UniqueImportIdentity ==
  \A b1, b2 \in BatchIds : \A c \in Contents :
    (/\ ledger[b1][c] # NoRow
     /\ ledger[b1][c] = ledger[b2][c]
     /\ batches[b1].account = batches[b2].account) => b1 = b2

\* A row of a batch reaches the ledger only through a confirmation of that
\* batch: no crash, rollback, conflict or retry leaves rows of an unconsumed
\* batch behind, so a confirmation that failed can be repeated from scratch.
RowsOnlyFromConsumedBatches ==
  \A b \in BatchIds : \A c \in Contents :
    ledger[b][c] # NoRow =>
      /\ consumedAt[b] # NotConsumed
      /\ c \in batches[b].rows

\* A confirmation that is answered with success never loses a row: once the
\* batch is consumed, every row it accepted has been imported for its account,
\* by this batch or by the one it collided with (onConflictDoNothing skips it).
NothingLost ==
  \A b \in BatchIds :
    consumedAt[b] # NotConsumed => batches[b].rows \subseteq held[batches[b].account]

\* A batch is consumed by a request of the user who previewed it, that read its
\* clock inside the batch's thirty minutes, and never when a row of the batch was
\* invalid or could not be stored, whoever else tries to confirm it and whenever.
ConsumedRightfully ==
  [][\A b \in BatchIds : consumedAt'[b] # consumedAt[b] =>
       /\ \E r \in Confirmers :
            /\ request[r] = [batch |-> b, user |-> batches[b].user, now |-> consumedAt'[b]]
            /\ request[r].now < batches[b].expiresAt
       /\ ~batches[b].invalid
       /\ batches[b].rows \cap Oversized = {}]_consumedAt

\* The imported rows that a step adds, moves or deletes.
Changed == {id \in RowId : ledger'[id.batch][id.content] # ledger[id.batch][id.content]}

\* The step consumes batch b alone.  The ledger has no row of b before, and has all
\* of them on b's account, or still none (each was imported by another batch), after.
Consumes(b) ==
  /\ consumedAt[b] = NotConsumed /\ consumedAt'[b] # NotConsumed
  /\ \A other \in BatchIds \ {b} : consumedAt'[other] = consumedAt[other]
  /\ \A c \in Contents : ledger[b][c] = NoRow
  /\ \A id \in Changed : id.batch = b
  /\ \E rows \in {{}, batches[b].rows} : \A c \in Contents :
       ledger'[b][c] = IF c \in rows THEN batches[b].account ELSE NoRow

\* The step touches at most one row, one that a consumed batch brought, and what
\* it does not delete is saved by an edit that had read that row.
MaintainsOneRow ==
  \A id \in Changed :
    /\ Changed = {id}
    /\ consumedAt[id.batch] # NotConsumed
    /\ id.content \in batches[id.batch].rows
    /\ ledger'[id.batch][id.content] = NoRow \/ \E e \in Editors : edit[e] = id

\* Rows of a batch appear in the one step that consumes it, all together or none,
\* whatever other confirmations of the batch are under way; every other step leaves
\* all batches as consumed as they are and the ledger to maintenance, row by row.
\* A second confirmation that had got past the row lock would insert once more what
\* was deleted since the first.
ConfirmationIsAtomic ==
  [][IF consumedAt' = consumedAt THEN MaintainsOneRow
     ELSE \E b \in BatchIds : Consumes(b)]_<<consumedAt, ledger>>

\* PLAN.md, FF-CSV-009-AC02: "Repeated or concurrent confirmation creates each
\* canonical transaction at most once."  The hash already names the account the
\* row was imported for, so one hash should mean one row, wherever it is booked.
CanonicalAtMostOnce ==
  \A b1, b2 \in BatchIds : \A c \in Contents :
    (/\ ledger[b1][c] # NoRow
     /\ ledger[b2][c] # NoRow
     /\ batches[b1].account = batches[b2].account) => b1 = b2

\* Every confirmation request is answered: neither the wait for a batch row
\* that another confirmation holds nor a cycle of waiting inserts lasts forever.
ConfirmationsEnd ==
  \A r \in Confirmers : phase[r] # "idle" ~> phase[r] = "idle"

-----------------------------------------------------------------------------
(* The inductive invariant: what the requests in flight know.              *)

\* A confirmation past its UPDATE works on a batch that is still unconsumed for
\* everybody else, was consumable, and is locked by it alone.
RequestInv ==
  /\ \A r \in Confirmers :
       /\ phase[r] = "idle" => request[r] = Idle
       /\ phase[r] # "insert" => tried[r] = {} /\ pending[r] = {}
       /\ phase[r] # "idle" => /\ request[r] \in Confirmation
                               /\ batches[request[r].batch] \in Batch
       /\ phase[r] = "insert" => /\ Consumable(r)
                                 /\ pending[r] \subseteq tried[r]
                                 /\ tried[r] \subseteq Rows(r)
  /\ \A r, s \in Confirmers :
       (/\ phase[r] = "insert" /\ phase[s] = "insert"
        /\ request[r].batch = request[s].batch) => r = s

\* An uncommitted key is in no committed row and in no other transaction, and
\* what a confirmation skipped was imported before.
PendingInv ==
  \A r \in Confirmers : phase[r] = "insert" =>
    LET a == batches[request[r].batch].account IN
      /\ \A c \in pending[r] : \A b \in BatchIds :
           ~(ledger[b][c] = a /\ batches[b].account = a)
      /\ \A c \in pending[r] : \A s \in Confirmers : s # r => ~KeyPending(s, a, c)
      /\ tried[r] \ pending[r] \subseteq held[a]

\* What stays true of a batch once it is consumed: it was so inside its thirty
\* minutes, by the clock of the request, and had no row that was invalid or could not be stored.
ConsumedInTimeAndValid ==
  \A b \in BatchIds :
    consumedAt[b] # NotConsumed =>
      /\ consumedAt[b] < batches[b].expiresAt
      /\ ~batches[b].invalid
      /\ batches[b].rows \cap Oversized = {}

\* Rows belong to consumed batches, and were committed once.
LedgerInv ==
  /\ \A b \in BatchIds : consumedAt[b] # NotConsumed => batches[b] \in Batch
  /\ RowsOnlyFromConsumedBatches
  /\ \A b \in BatchIds : \A c \in Contents :
       ledger[b][c] # NoRow => c \in held[batches[b].account]

\* A row that a request has read belongs to a consumed batch and was held, even
\* if it was deleted since.
EditInv ==
  \A e \in Editors : edit[e] # Idle =>
    LET b == edit[e].batch IN
      /\ consumedAt[b] # NotConsumed
      /\ edit[e].content \in batches[b].rows \cap held[batches[b].account]

IInv ==
  /\ TypeOK
  /\ RequestInv
  /\ PendingInv
  /\ LedgerInv
  /\ EditInv
  /\ UniqueImportIdentity
  /\ NothingLost
  /\ ConsumedInTimeAndValid

-----------------------------------------------------------------------------
(* Refinement: rows a transaction has not committed do not exist.          *)

Abstract == INSTANCE ImportAbstract WITH
  NoOffer <- NoBatch,
  offered <- [b \in BatchIds |-> IF batches[b] = NoBatch THEN NoBatch
                ELSE [account |-> batches[b].account, rows |-> batches[b].rows]],
  confirmed <- {b \in BatchIds : consumedAt[b] # NotConsumed}

\* Preview, confirmation and maintenance, run as interleaved requests over
\* PostgreSQL, implement the atomic promise of ImportAbstract.
ImplementsImportAbstract == Abstract!Spec
=============================================================================
