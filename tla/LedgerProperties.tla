-------------------------- MODULE LedgerProperties --------------------------
(***************************************************************************)
(* Correctness of the transactions table under interleaved requests.       *)
(***************************************************************************)
EXTENDS Ledger

\* A row born with that identity may claim its category origin, when rules have
\* assigned those categories.
Truthful(identity, assigned, row) ==
  /\ row.origin = "fallback" => row.category = Fallback
  /\ row.origin = "rule" => row.category \in assigned
  /\ row.origin \in {"csv_mapped", "legacy_preserved"} => row.category = identity.given

\* A category origin never lies, although rows are written back from stale
\* reads: 'fallback' rows are in the fallback category, 'rule' rows in a category
\* a rule has assigned, 'csv_mapped' rows in the category their CSV line named,
\* and 'legacy_preserved' rows in the category they had before there were
\* origins.  Reapplication trusts the origin to decide what it may overwrite.
OriginTruthful ==
  \A id \in Ids : ledger[id] # NoTx => Truthful(born[id], targets, ledger[id])

\* Whatever edits, marks, reapplications and late upserts do to a row, even when
\* they bring it back from deletion, it keeps the source and import hash it was
\* first inserted with (FF-TXN-004-AC01).
IdentityKept ==
  \A id \in Ids : ledger[id] # NoTx =>
    /\ born[id] # NoTx
    /\ ledger[id].source = born[id].source
    /\ ledger[id].hash = born[id].hash

\* When a reapplication reports success, every row nobody else wrote since it
\* listed the table is the listed row with the winning rule applied, rows that
\* did not exist then were not created by it, and running it again with the same
\* rules would change nothing (FF-CAT-005-AC02).
ReapplicationExact ==
  [][\A r \in Reappliers : ReapplyDone(r) =>
       \A id \in Ids \ touched[r] :
         IF reapply[r].before[id] = NoTx THEN ledger[id] = NoTx
         ELSE /\ ledger[id] = Recategorized(reapply[r].rules, reapply[r].before[id])
              /\ Recategorized(reapply[r].rules, ledger[id]) = ledger[id]]_vars

\* The preview and a later reapplication agree on a row: as long as no category
\* was created while the preview ran, the rules it used leave its row as it is
\* (FF-CAT-002-AC01).
PreviewAgrees ==
  [][\A p \in Previewers : \A id \in Ids :
       PreviewDecide(p, id) /\ preview[p].known = categories =>
         Recategorized(rules, offers'[id].row) = offers'[id].row]_vars

\* OPERATIONS.md, categorization: reapplication "preserves categories with
\* `manual`, `csv_mapped`, or `legacy_preserved` origin".  Said of the row that is
\* in the table when the reapplication writes.
ReapplicationPreserves ==
  [][\A r \in Reappliers : \A id \in Ids :
       /\ ReapplySave(r, id)
       /\ ledger[id] # NoTx /\ ledger[id].origin \in Protected
       => ledger'[id].category = ledger[id].category]_vars

-----------------------------------------------------------------------------
(* The inductive invariant: what the requests in flight hold is as good as *)
(* what the table holds.                                                   *)

\* Row row may be written under an id born with that identity.
Sound(identity, assigned, row) ==
  /\ row \in Tx
  /\ identity # NoTx
  /\ row.source = identity.source
  /\ row.hash = identity.hash
  /\ Truthful(identity, assigned, row)

LedgerInv == \A id \in Ids : ledger[id] # NoTx => Sound(born[id], targets, ledger[id])

EditInv ==
  \A e \in Editors : edit[e] # Idle => Sound(born[edit[e].id], targets, edit[e].row)

\* An offer is what its line was decided to be; its id is not in use.
OfferInv ==
  \A id \in Ids : offers[id] # NoTx =>
    LET row == offers[id].row IN
    /\ born[id] = NoTx
    /\ Sound(IdentityOf(row, offers[id].csvCategory), targets, row)

\* The categories of the rules rs are among the assigned ones.
Recorded(rs, assigned) == \A i \in RuleIds : rs[i] # NoRule => rs[i].category \in assigned

\* Rules name categories of the table (the foreign key).
CategoryInv == targets \subseteq categories

\* Requests hold only rules that were in the table.
RulesInv ==
  /\ Recorded(rules, targets)
  /\ \A r \in Reappliers : listing[r] # Idle => Recorded(listing[r].rules, targets)
  /\ \A r \in Reappliers : reapply[r] # Idle => Recorded(reapply[r].rules, targets)

\* A reapplication holds sound rows, still has to write exactly changed rows, and
\* has brought every other row nobody else wrote to what its rules make of it.
ReapplyInv ==
  \A r \in Reappliers : reapply[r] # Idle =>
    LET before == reapply[r].before
        after(id) == Recategorized(reapply[r].rules, before[id]) IN
    /\ \A id \in Ids : before[id] # NoTx => Sound(born[id], targets, before[id])
    /\ \A id \in reapply[r].todo : before[id] # NoTx
    /\ \A id \in Ids \ touched[r] :
         ledger[id] = IF before[id] = NoTx \/ id \in reapply[r].todo
                      THEN before[id] ELSE after(id)

IInv ==
  /\ TypeOK
  /\ LedgerInv
  /\ EditInv
  /\ OfferInv
  /\ CategoryInv
  /\ RulesInv
  /\ ReapplyInv
=============================================================================
