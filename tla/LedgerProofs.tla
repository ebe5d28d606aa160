---------------------------- MODULE LedgerProofs ----------------------------
(***************************************************************************)
(* The properties of LedgerProperties, for every value of the constants.   *)
(***************************************************************************)
EXTENDS LedgerProperties, NumberFacts

USE FallbackAssumption, RuleIdsAssumption, NoCategoryAssumption, NoRuleAssumption,
    IdsAssumption, SeededAssumption, RowFormsAssumption, RuleFormsAssumption,
    LinesAssumption, NoTxAssumption, IdleAssumption, MigratedRowsAssumption

-----------------------------------------------------------------------------
(* Matching and decisions, for every set of rules.                         *)

\* Some matching rule precedes all matching rules, so the winner is one of them.
LEMMA MatchMatches ==
  ASSUME NEW rs \in [RuleIds -> Rule \cup {NoRule}], NEW account, NEW text,
         Matching(rs, account, text) # {}
  PROVE  /\ Match(rs, account, text) \in Matching(rs, account, text)
         /\ \A j \in Matching(rs, account, text) :
              Precedes(rs, Match(rs, account, text), j)
<1> DEFINE M == Matching(rs, account, text)
           priorities == {rs[i].priority : i \in M}
           first == {i \in M : \A j \in M : rs[i].priority <= rs[j].priority}
<1>1. \A i \in M : i \in RuleIds /\ i \in Nat /\ rs[i] \in Rule /\ rs[i].priority \in Nat
  BY DEF Matching, Rule
<1>2. PICK q \in priorities : \A k \in priorities : q <= k
  <2>1. priorities \in SUBSET Nat /\ priorities # {}
    BY <1>1
  <2>. QED
    BY <2>1, Least
<1>3. first # {} /\ first \in SUBSET Nat
  BY <1>1, <1>2
<1>4. PICK i \in first : \A j \in first : i <= j
  BY <1>3, Least
<1>5. \A j \in M : Precedes(rs, i, j)
  BY <1>1, <1>4 DEF Precedes
<1>6. i \in M
  BY <1>4
<1>7. Match(rs, account, text) = CHOOSE x \in M : \A j \in M : Precedes(rs, x, j)
  BY DEF Match
<1>. QED
  BY <1>5, <1>6, <1>7

\* The winner exists exactly when some rule matches, and is a rule of the table.
LEMMA MatchIsRule ==
  ASSUME NEW rs \in [RuleIds -> Rule \cup {NoRule}], NEW account, NEW text,
         Match(rs, account, text) # NoRule
  PROVE  /\ Match(rs, account, text) \in RuleIds
         /\ rs[Match(rs, account, text)] \in Rule
         /\ rs[Match(rs, account, text)] # NoRule
<1>1. Matching(rs, account, text) # {}
  BY DEF Match
<1>2. Match(rs, account, text) \in Matching(rs, account, text)
  BY <1>1, MatchMatches
<1>. QED
  BY <1>2 DEF Matching

LEMMA PerformBoolean ==
  ASSUME NEW action \in Actions, NEW old \in BOOLEAN
  PROVE  /\ Perform(action, old) \in BOOLEAN
         /\ Perform(action, Perform(action, old)) = Perform(action, old)
BY DEF Actions, Perform

\* A decision is well formed, and its origin says where its category is from.
LEMMA DecideType ==
  ASSUME NEW rs \in [RuleIds -> Rule \cup {NoRule}], NEW known \in SUBSET Categories,
         NEW account, NEW text, NEW csv
  PROVE  LET d == Decide(known, rs, account, text, csv) IN
         /\ d.category \in Categories
         /\ d.origin \in {"csv_mapped", "rule", "fallback"}
         /\ d.fixed \in BOOLEAN /\ d.transfer \in BOOLEAN
         /\ d.origin = "csv_mapped" => d.category = csv
         /\ d.origin = "fallback" => d.category = Fallback
         /\ d.origin = "rule" => \E i \in RuleIds : rs[i] # NoRule /\ d.category = rs[i].category
<1> DEFINE m == Match(rs, account, text)
           state == StateOf(rs, m, csv \in known)
<1>1. m # NoRule => m \in RuleIds /\ rs[m] \in Rule /\ rs[m] # NoRule
  BY MatchIsRule
<1>2. state.fixed \in BOOLEAN /\ state.transfer \in BOOLEAN
  <2>1. CASE m = NoRule
    BY <2>1 DEF StateOf
  <2>2. CASE m # NoRule
    <3>1. rs[m].fixed \in Actions /\ rs[m].transfer \in Actions
      BY <1>1, <2>2 DEF Rule
    <3>. QED
      BY <2>2, <3>1, PerformBoolean DEF StateOf
  <2>. QED
    BY <2>1, <2>2
<1>3. Fallback \in Categories
  OBVIOUS
<1> HIDE DEF m, state
<1>4. Decide(known, rs, account, text, csv) =
        IF csv \in known
        THEN [category |-> csv, origin |-> "csv_mapped",
              fixed |-> state.fixed, transfer |-> state.transfer]
        ELSE IF m # NoRule /\ rs[m].category \in known
        THEN [category |-> rs[m].category, origin |-> "rule",
              fixed |-> state.fixed, transfer |-> state.transfer]
        ELSE [category |-> Fallback, origin |-> "fallback",
              fixed |-> state.fixed, transfer |-> state.transfer]
  BY DEF Decide, m, state
<1>5. CASE csv \in known
  BY <1>2, <1>4, <1>5
<1>6. CASE csv \notin known /\ m # NoRule /\ rs[m].category \in known
  <2>1. Decide(known, rs, account, text, csv) =
          [category |-> rs[m].category, origin |-> "rule",
           fixed |-> state.fixed, transfer |-> state.transfer]
    BY <1>4, <1>6
  <2>2. \E i \in RuleIds : rs[i] # NoRule /\ rs[m].category = rs[i].category
    BY <1>1, <1>6
  <2>3. rs[m].category \in Categories
    BY <1>6
  <2>. QED
    BY <1>2, <2>1, <2>2, <2>3
<1>7. CASE csv \notin known /\ ~(m # NoRule /\ rs[m].category \in known)
  BY <1>2, <1>3, <1>4, <1>7
<1>. QED
  BY <1>5, <1>6, <1>7
-----------------------------------------------------------------------------
(* One row under reapplication.                                            *)

\* Reapplying rules leaves what identifies and what matches a row alone, keeps a
\* protected category, and otherwise assigns a category of a rule.
LEMMA RecategorizedRow ==
  ASSUME NEW rs \in Rules, NEW row \in Tx
  PROVE  LET new == Recategorized(rs, row) IN
         /\ new \in Tx
         /\ new.account = row.account /\ new.text = row.text
         /\ new.source = row.source /\ new.hash = row.hash
         /\ \/ new.category = row.category /\ new.origin = row.origin
            \/ /\ new.origin = "rule" /\ row.origin \notin Protected
               /\ \E i \in RuleIds : rs[i] # NoRule /\ new.category = rs[i].category
<1> DEFINE m == Match(rs, row.account, row.text)
<1>1. CASE m = NoRule
  BY <1>1 DEF Recategorized
<1>2. CASE m # NoRule
  <2>1. m \in RuleIds /\ rs[m] \in Rule /\ rs[m] # NoRule
    BY <1>2, MatchIsRule DEF Rules
  <2>2. rs[m].category \in Categories /\ rs[m].fixed \in Actions /\ rs[m].transfer \in Actions
    BY <2>1 DEF Rule
  <2>3. /\ Perform(rs[m].fixed, row.fixed) \in BOOLEAN
        /\ Perform(rs[m].transfer, row.transfer) \in BOOLEAN
    BY <2>2, PerformBoolean DEF Tx
  <2>4. Recategorized(rs, row) =
          [row EXCEPT
             !.category = IF row.origin \in Protected THEN row.category ELSE rs[m].category,
             !.origin = IF row.origin \in Protected THEN row.origin ELSE "rule",
             !.fixed = Perform(rs[m].fixed, row.fixed),
             !.transfer = Perform(rs[m].transfer, row.transfer)]
    BY <1>2 DEF Recategorized
  <2> HIDE DEF m
  <2>5. CASE row.origin \in Protected
    BY <2>2, <2>3, <2>4, <2>5 DEF Tx, Origins
  <2>6. CASE row.origin \notin Protected
    BY <2>1, <2>2, <2>3, <2>4, <2>6 DEF Tx, Origins
  <2>. QED
    BY <2>5, <2>6
<1>. QED
  BY <1>1, <1>2

\* The rules find nothing to change in a row they have been applied to.
LEMMA RecategorizedTwice ==
  ASSUME NEW rs \in Rules, NEW row \in Tx
  PROVE  Recategorized(rs, Recategorized(rs, row)) = Recategorized(rs, row)
<1> DEFINE m == Match(rs, row.account, row.text)
           new == Recategorized(rs, row)
<1>1. new \in Tx /\ new.account = row.account /\ new.text = row.text
  BY RecategorizedRow
<1>2. CASE m = NoRule
  BY <1>2 DEF Recategorized
<1>3. CASE m # NoRule
  <2>1. rs[m] \in Rule
    BY <1>3, MatchIsRule DEF Rules
  <2>2. rs[m].fixed \in Actions /\ rs[m].transfer \in Actions
    BY <2>1 DEF Rule
  <2>3. Match(rs, new.account, new.text) = m
    BY <1>1
  <2>4. new = [row EXCEPT
             !.category = IF row.origin \in Protected THEN row.category ELSE rs[m].category,
             !.origin = IF row.origin \in Protected THEN row.origin ELSE "rule",
             !.fixed = Perform(rs[m].fixed, row.fixed),
             !.transfer = Perform(rs[m].transfer, row.transfer)]
    BY <1>3 DEF Recategorized
  <2>5. Recategorized(rs, new) = [new EXCEPT
             !.category = IF new.origin \in Protected THEN new.category ELSE rs[m].category,
             !.origin = IF new.origin \in Protected THEN new.origin ELSE "rule",
             !.fixed = Perform(rs[m].fixed, new.fixed),
             !.transfer = Perform(rs[m].transfer, new.transfer)]
    BY <1>3, <2>3 DEF Recategorized
  <2>. SUFFICES Recategorized(rs, new) = new
    BY DEF new
  <2> HIDE DEF m, new
  <2>6. /\ new.fixed = Perform(rs[m].fixed, row.fixed)
        /\ new.transfer = Perform(rs[m].transfer, row.transfer)
    BY <2>4 DEF Tx
  <2>7. /\ Perform(rs[m].fixed, new.fixed) = new.fixed
        /\ Perform(rs[m].transfer, new.transfer) = new.transfer
    BY <2>2, <2>6, PerformBoolean DEF Tx
  <2>8. /\ new.category = IF new.origin \in Protected THEN new.category ELSE rs[m].category
        /\ new.origin = IF new.origin \in Protected THEN new.origin ELSE "rule"
    BY <2>4 DEF Tx, Protected
  <2>9. Recategorized(rs, new) =
          [new EXCEPT !.category = new.category, !.origin = new.origin,
                      !.fixed = new.fixed, !.transfer = new.transfer]
    BY <2>5, <2>7, <2>8, Zenon
  <2>. QED
    BY <1>1, <2>9 DEF Tx
<1>. QED
  BY <1>2, <1>3

-----------------------------------------------------------------------------
(* Soundness of single rows.                                               *)

\* Soundness is kept as rules assign more categories.
LEMMA SoundGrows ==
  ASSUME NEW identity, NEW A, NEW B, A \subseteq B, NEW row, Sound(identity, A, row)
  PROVE  Sound(identity, B, row)
BY DEF Sound, Truthful

LEMMA RecategorizedSound ==
  ASSUME NEW identity, NEW A, NEW rs \in Rules, Recorded(rs, A), NEW row,
         Sound(identity, A, row)
  PROVE  Sound(identity, A, Recategorized(rs, row))
<1> DEFINE new == Recategorized(rs, row)
<1>1. row \in Tx
  BY DEF Sound
<1>2. /\ new \in Tx
      /\ new.source = row.source /\ new.hash = row.hash
      /\ \/ new.category = row.category /\ new.origin = row.origin
         \/ /\ new.origin = "rule"
            /\ \E i \in RuleIds : rs[i] # NoRule /\ new.category = rs[i].category
  BY <1>1, RecategorizedRow
<1> HIDE DEF new
<1>3. Sound(identity, A, new)
  BY <1>2 DEF Sound, Truthful, Recorded
<1>. QED
  BY <1>3 DEF new

\* The form writes a sound row back from a sound row.
LEMMA EditedSound ==
  ASSUME NEW identity, NEW A, NEW f \in RowForms, NEW row, Sound(identity, A, row)
  PROVE  Sound(identity, A, Edited(row, f))
<1>1. row \in Tx /\ f \in RowForm
  BY DEF Sound
<1>2. OriginAfterEdit(row, f.category) \in Origins
  BY <1>1 DEF OriginAfterEdit, Tx, Origins
<1>3. Edited(row, f) \in Tx
  BY <1>1, <1>2 DEF Edited, Tx, RowForm
<1>4. Truthful(identity, A, Edited(row, f))
  BY <1>1 DEF Sound, Truthful, Edited, OriginAfterEdit
<1>. QED
  BY <1>3, <1>4 DEF Sound, Edited

\* The row of an offer is sound.
LEMMA ImportedSound ==
  ASSUME NEW known \in SUBSET Categories, rules \in Rules, NEW A, Recorded(rules, A),
         NEW line \in Lines
  PROVE  LET row == Imported(known, line) IN
         /\ row \in Tx
         /\ Sound(IdentityOf(row, line.csvCategory), A, row)
<1> DEFINE d == Decide(known, rules, line.account, line.text, line.csvCategory)
           row == Imported(known, line)
<1>1. line \in Line
  OBVIOUS
<1>2. /\ d.category \in Categories
      /\ d.origin \in {"csv_mapped", "rule", "fallback"}
      /\ d.fixed \in BOOLEAN /\ d.transfer \in BOOLEAN
      /\ d.origin = "csv_mapped" => d.category = line.csvCategory
      /\ d.origin = "fallback" => d.category = Fallback
      /\ d.origin = "rule" =>
           \E i \in RuleIds : rules[i] # NoRule /\ d.category = rules[i].category
  BY DecideType DEF Rules
<1>3. row = [account |-> line.account, text |-> line.text, hash |-> line.hash,
             source |-> "csv", category |-> d.category, origin |-> d.origin,
             fixed |-> d.fixed, transfer |-> d.transfer]
  BY DEF Imported
<1> HIDE DEF d, row
<1>4. row \in Tx
  BY <1>1, <1>2, <1>3 DEF Tx, Line, Origins
<1>5. IdentityOf(row, line.csvCategory) # NoTx
  <2>1. IdentityOf(row, line.csvCategory) \in Identity
    BY <1>1, <1>4 DEF IdentityOf, Identity, Line, Tx
  <2>. QED
    BY <2>1
<1>6. Sound(IdentityOf(row, line.csvCategory), A, row)
  BY <1>2, <1>3, <1>4, <1>5 DEF Sound, Truthful, Recorded, IdentityOf
<1>. QED
  BY <1>4, <1>6 DEF row

\* Rules whose categories the preview knows leave the row it computes as it is.
LEMMA ImportedAgrees ==
  ASSUME NEW known \in SUBSET Categories, rules \in Rules, Recorded(rules, known),
         NEW line \in Lines
  PROVE  Recategorized(rules, Imported(known, line)) = Imported(known, line)
<1> DEFINE m == Match(rules, line.account, line.text)
           state == StateOf(rules, m, line.csvCategory \in known)
           row == Imported(known, line)
<1>1. row \in Tx /\ row.account = line.account /\ row.text = line.text
  <2>1. row \in Tx
    BY ImportedSound DEF Recorded
  <2>. QED
    BY <2>1 DEF Imported
<1>2. CASE m = NoRule
  BY <1>1, <1>2 DEF Recategorized
<1>3. CASE m # NoRule
  <2>1. m \in RuleIds /\ rules[m] \in Rule /\ rules[m] # NoRule
    BY <1>3, MatchIsRule DEF Rules
  <2>2. /\ rules[m].fixed \in Actions /\ rules[m].transfer \in Actions
        /\ rules[m].category \in known
    BY <2>1 DEF Rule, Recorded
  <2>3. /\ state.fixed = Perform(rules[m].fixed, FALSE)
        /\ state.transfer = Perform(rules[m].transfer, FALSE)
    BY <1>3 DEF StateOf
  <2>4. /\ Perform(rules[m].fixed, state.fixed) = state.fixed
        /\ Perform(rules[m].transfer, state.transfer) = state.transfer
    BY <2>2, <2>3, PerformBoolean
  <2>5. /\ row.fixed = state.fixed /\ row.transfer = state.transfer
        /\ \/ row.origin = "csv_mapped"
           \/ row.origin = "rule" /\ row.category = rules[m].category
    <3>1. CASE line.csvCategory \in known
      BY <3>1 DEF Imported, Decide
    <3>2. CASE line.csvCategory \notin known
      BY <1>3, <2>2, <3>2 DEF Imported, Decide
    <3>. QED
      BY <3>1, <3>2
  <2>6. Recategorized(rules, row) = [row EXCEPT
          !.category = IF row.origin \in Protected THEN row.category ELSE rules[m].category,
          !.origin = IF row.origin \in Protected THEN row.origin ELSE "rule",
          !.fixed = Perform(rules[m].fixed, row.fixed),
          !.transfer = Perform(rules[m].transfer, row.transfer)]
    BY <1>1, <1>3 DEF Recategorized
  <2>. SUFFICES Recategorized(rules, row) = row
    BY DEF row
  <2> HIDE DEF m, state, row
  <2>7. /\ Perform(rules[m].fixed, row.fixed) = row.fixed
        /\ Perform(rules[m].transfer, row.transfer) = row.transfer
    BY <2>4, <2>5, Zenon
  <2>8. /\ (IF row.origin \in Protected THEN row.category ELSE rules[m].category) = row.category
        /\ (IF row.origin \in Protected THEN row.origin ELSE "rule") = row.origin
    BY <2>5 DEF Protected
  <2>9. Recategorized(rules, row) =
          [row EXCEPT !.category = row.category, !.origin = row.origin,
                      !.fixed = row.fixed, !.transfer = row.transfer]
    BY <2>6, <2>7, <2>8, Zenon
  <2>. QED
    BY <1>1, <2>9 DEF Tx
<1>. QED
  BY <1>2, <1>3

-----------------------------------------------------------------------------
(* Type correctness.                                                       *)

LEMMA PutType ==
  ASSUME TypeOK, NEW id \in Ids, NEW row \in Tx \cup {NoTx}, NEW others \in SUBSET Reappliers,
         Put(id, row, others)
  PROVE  /\ ledger' \in [Ids -> Tx \cup {NoTx}]
         /\ touched' \in [Reappliers -> SUBSET Ids]
BY DEF TypeOK, Put

LEMMA IdentityType ==
  ASSUME NEW row \in Tx, NEW given \in Categories \cup {NoCategory}
  PROVE  IdentityOf(row, given) \in Identity
BY DEF IdentityOf, Identity, Tx

LEMMA EditedType ==
  ASSUME NEW f \in RowForms, NEW row \in Tx
  PROVE  Edited(row, f) \in Tx
<1>1. f \in RowForm
  OBVIOUS
<1>2. OriginAfterEdit(row, f.category) \in Origins
  BY DEF OriginAfterEdit, Tx, Origins
<1>. QED
  BY <1>1, <1>2 DEF Edited, Tx, RowForm

LEMMA TypeInit == Init => TypeOK
<1> SUFFICES ASSUME Init PROVE TypeOK
  OBVIOUS
<1>1. ledger \in [Ids -> Tx \cup {NoTx}]
  BY DEF Init
<1>2. born \in [Ids -> Identity \cup {NoTx}]
  <2>1. ASSUME NEW i \in Ids, ledger[i] # NoTx
        PROVE  IdentityOf(ledger[i], ledger[i].category) \in Identity
    <3>1. ledger[i] \in Tx
      BY <1>1, <2>1
    <3>2. ledger[i].category \in Categories
      BY <3>1 DEF Tx
    <3>. QED
      BY <3>1, <3>2, IdentityType
  <2>. QED
    BY <2>1 DEF Init
<1>3. /\ rules \in Rules
      /\ categories \in SUBSET Categories
      /\ offers \in [Ids -> Offer \cup {NoTx}]
      /\ preview \in [Previewers -> Reading \cup {Idle}]
      /\ edit \in [Editors -> Snapshot \cup {Idle}]
      /\ listing \in [Reappliers -> Listing \cup {Idle}]
      /\ reapply \in [Reappliers -> Reapplication \cup {Idle}]
      /\ targets \in SUBSET Categories
      /\ touched \in [Reappliers -> SUBSET Ids]
  BY DEF Init, Rules
<1>. QED
  BY <1>1, <1>2, <1>3 DEF TypeOK

LEMMA TypeStep == TypeOK /\ ReapplyInv /\ [Next]_vars => TypeOK'
<1> SUFFICES ASSUME TypeOK, ReapplyInv, [Next]_vars PROVE TypeOK'
  OBVIOUS
<1>1. ASSUME NEW id \in Ids, CreateTransaction(id) PROVE TypeOK'
  <2>1. PICK f \in RowForms :
          LET row == [account |-> f.account, category |-> f.category, origin |-> "manual",
                      text |-> f.text, fixed |-> f.fixed, transfer |-> FALSE,
                      source |-> "manual", hash |-> NoHash] IN
          /\ Put(id, row, Reappliers)
          /\ born' = [born EXCEPT ![id] = IdentityOf(row, NoCategory)]
    BY <1>1 DEF CreateTransaction
  <2> DEFINE row == [account |-> f.account, category |-> f.category, origin |-> "manual",
                     text |-> f.text, fixed |-> f.fixed, transfer |-> FALSE,
                     source |-> "manual", hash |-> NoHash]
  <2>2. f \in RowForm
    OBVIOUS
  <2>3. row \in Tx
    BY <2>2 DEF Tx, RowForm, Origins
  <2>4. Put(id, row, Reappliers) /\ born' = [born EXCEPT ![id] = IdentityOf(row, NoCategory)]
    BY <2>1
  <2> HIDE DEF row
  <2>5. IdentityOf(row, NoCategory) \in Identity
    BY <2>3, IdentityType
  <2>. QED
    BY <1>1, <2>3, <2>4, <2>5, PutType DEF TypeOK, CreateTransaction
<1>2. ASSUME NEW id \in Ids, DeleteTransaction(id) PROVE TypeOK'
  BY <1>2, PutType DEF TypeOK, DeleteTransaction
<1>3. ASSUME NEW id \in Ids, SetInternalTransfer(id) PROVE TypeOK'
  <2>1. PICK mark \in BOOLEAN : Put(id, [ledger[id] EXCEPT !.transfer = mark], Reappliers)
    BY <1>3 DEF SetInternalTransfer
  <2>2. ledger[id] \in Tx
    BY <1>3 DEF TypeOK, SetInternalTransfer
  <2>3. [ledger[id] EXCEPT !.transfer = mark] \in Tx
    BY <2>2 DEF Tx
  <2>. QED
    BY <1>3, <2>1, <2>3, PutType DEF TypeOK, SetInternalTransfer
<1>4. ASSUME NEW id \in Ids, ConfirmRow(id) PROVE TypeOK'
  <2>1. offers[id] \in Offer
    BY <1>4 DEF TypeOK, ConfirmRow
  <2>2. /\ offers[id].row \in Tx
        /\ offers[id].csvCategory \in Categories \cup {NoCategory}
    BY <2>1 DEF Offer
  <2>3. IdentityOf(offers[id].row, offers[id].csvCategory) \in Identity
    BY <2>2, IdentityType
  <2>4. /\ ledger' \in [Ids -> Tx \cup {NoTx}]
        /\ touched' \in [Reappliers -> SUBSET Ids]
    BY <1>4, <2>2, PutType DEF TypeOK, ConfirmRow
  <2>. QED
    BY <1>4, <2>3, <2>4 DEF TypeOK, ConfirmRow
<1>5. ASSUME NEW id \in Ids, NEW p \in Previewers, PreviewDecide(p, id) PROVE TypeOK'
  <2>1. PICK line \in Lines :
          offers' = [offers EXCEPT ![id] = [row |-> Imported(preview[p].known, line),
                                            csvCategory |-> line.csvCategory]]
    BY <1>5 DEF PreviewDecide
  <2>2. preview[p].known \in SUBSET Categories
    BY <1>5 DEF TypeOK, PreviewDecide, Reading
  <2>3. Imported(preview[p].known, line) \in Tx
    BY <2>2, ImportedSound, ZenonT(40) DEF TypeOK, Recorded, Rules, Rule
  <2>4. line \in Line
    OBVIOUS
  <2>5. [row |-> Imported(preview[p].known, line), csvCategory |-> line.csvCategory] \in Offer
    BY <2>3, <2>4 DEF Line, Offer
  <2>6. offers' \in [Ids -> Offer \cup {NoTx}]
    BY <2>1, <2>5 DEF TypeOK
  <2>. QED
    BY <1>5, <2>6 DEF TypeOK, PreviewDecide, history
<1>6. ASSUME NEW id \in Ids, NEW r \in Reappliers, ReapplySave(r, id) PROVE TypeOK'
  <2>1. reapply[r] \in Reapplication
    BY <1>6 DEF TypeOK, ReapplySave
  <2>2. reapply[r].rules \in Rules /\ reapply[r].before[id] \in Tx
    BY <1>6, <2>1 DEF Reapplication, ReapplyInv, ReapplySave
  <2>3. Recategorized(reapply[r].rules, reapply[r].before[id]) \in Tx
    BY <2>2, RecategorizedRow
  <2>4. [reapply[r] EXCEPT !.todo = @ \ {id}] \in Reapplication
    BY <2>1 DEF Reapplication
  <2>5. reapply' \in [Reappliers -> Reapplication \cup {Idle}]
    BY <1>6, <2>4 DEF TypeOK, ReapplySave
  <2>6. /\ ledger' \in [Ids -> Tx \cup {NoTx}]
        /\ touched' \in [Reappliers -> SUBSET Ids]
    BY <1>6, <2>3, PutType DEF ReapplySave
  <2>. QED
    BY <1>6, <2>5, <2>6 DEF TypeOK, ReapplySave
<1>7. ASSUME NEW e \in Editors, EditRead(e) PROVE TypeOK'
  BY <1>7 DEF TypeOK, EditRead, Snapshot, history
<1>8. ASSUME NEW e \in Editors, EditSave(e) PROVE TypeOK'
  <2>1. edit[e] \in Snapshot
    BY <1>8 DEF TypeOK, EditSave
  <2>2. PICK f \in RowForms : Put(edit[e].id, Edited(edit[e].row, f), Reappliers)
    BY <1>8 DEF EditSave
  <2>3. edit[e].id \in Ids /\ Edited(edit[e].row, f) \in Tx
    BY <2>1, EditedType DEF Snapshot
  <2>. QED
    BY <1>8, <2>2, <2>3, PutType DEF TypeOK, EditSave
<1>9. ASSUME NEW e \in Editors, EditFail(e) PROVE TypeOK'
  BY <1>9 DEF TypeOK, EditFail, history
<1>10. ASSUME NEW c \in Categories, CreateCategory(c) PROVE TypeOK'
  BY <1>10 DEF TypeOK, CreateCategory, history
<1>11. ASSUME NEW i \in RuleIds, SaveRule(i) PROVE TypeOK'
  <2>1. PICK f \in RuleForms : rules' = [rules EXCEPT ![i] = f] /\ targets' = targets \cup {f.category}
    BY <1>11 DEF SaveRule
  <2>2. f \in Rule /\ f.category \in Categories
    BY DEF Rule
  <2>3. rules' \in Rules
    BY <2>1, <2>2 DEF TypeOK, Rules
  <2>. QED
    BY <1>11, <2>1, <2>2, <2>3 DEF TypeOK, SaveRule
<1>12. ASSUME NEW i \in RuleIds, DeleteRule(i) PROVE TypeOK'
  BY <1>12 DEF TypeOK, DeleteRule, Rules, history
<1>13. ASSUME NEW p \in Previewers, PreviewRead(p) \/ PreviewList(p) \/ PreviewFail(p)
       PROVE  TypeOK'
  <2>1. CASE PreviewRead(p)
    BY <2>1 DEF TypeOK, PreviewRead, Reading, history
  <2>2. CASE PreviewList(p)
    <3>1. preview[p] \in Reading
      BY <2>2 DEF TypeOK, PreviewList
    <3>2. preview' \in [Previewers -> Reading \cup {Idle}]
      BY <2>2, <3>1 DEF TypeOK, PreviewList, Reading
    <3>. QED
      BY <2>2, <3>2 DEF TypeOK, PreviewList, history
  <2>3. CASE PreviewFail(p)
    BY <2>3 DEF TypeOK, PreviewFail, history
  <2>. QED
    BY <1>13, <2>1, <2>2, <2>3
<1>14. ASSUME NEW r \in Reappliers, ReapplyRules(r) PROVE TypeOK'
  BY <1>14 DEF TypeOK, ReapplyRules, Listing, history
<1>15. ASSUME NEW r \in Reappliers, ReapplyList(r) PROVE TypeOK'
  <2>1. listing[r].rules \in Rules
    BY <1>15 DEF TypeOK, ReapplyList, Listing
  <2>2. [rules |-> listing[r].rules, before |-> ledger,
         todo |-> Changed(listing[r].rules, ledger)] \in Reapplication
    BY <2>1 DEF TypeOK, Reapplication, Changed
  <2>. QED
    BY <1>15, <2>2 DEF TypeOK, ReapplyList, history
<1>16. ASSUME NEW r \in Reappliers, ReapplyDone(r) PROVE TypeOK'
  BY <1>16 DEF TypeOK, ReapplyDone
<1>17. ASSUME NEW r \in Reappliers, ReapplyFail(r) PROVE TypeOK'
  BY <1>17 DEF TypeOK, ReapplyFail
<1>18. CASE UNCHANGED vars
  BY <1>18 DEF TypeOK, vars, history
<1>. QED
  BY <1>1, <1>2, <1>3, <1>4, <1>5, <1>6, <1>7, <1>8, <1>9, <1>10, <1>11, <1>12, <1>13,
     <1>14, <1>15, <1>16, <1>17, <1>18 DEF Next

-----------------------------------------------------------------------------
(* The inductive invariant.                                                *)

\* The identity of a row never changes, and assigned categories stay assigned.
LEMMA Growth ==
  IInv /\ [Next]_vars => /\ targets \subseteq targets'
                        /\ \A id \in Ids : born[id] # NoTx => born'[id] = born[id]
<1> DEFINE Grows == /\ targets \subseteq targets'
                    /\ \A id \in Ids : born[id] # NoTx => born'[id] = born[id]
<1> SUFFICES ASSUME IInv, [Next]_vars PROVE Grows
  OBVIOUS
<1>0. UNCHANGED <<born, targets>> => Grows
  OBVIOUS
<1>1. ASSUME NEW id \in Ids, CreateTransaction(id) PROVE Grows
  BY <1>1 DEF IInv, TypeOK, CreateTransaction, Fresh
<1>2. ASSUME NEW id \in Ids, ConfirmRow(id) PROVE Grows
  BY <1>2 DEF IInv, TypeOK, OfferInv, ConfirmRow
<1>3. ASSUME NEW i \in RuleIds, SaveRule(i) PROVE Grows
  BY <1>3 DEF SaveRule
<1> HIDE DEF Grows
<1>4. ASSUME NEW id \in Ids, DeleteTransaction(id) \/ SetInternalTransfer(id) PROVE Grows
  BY <1>0, <1>4 DEF DeleteTransaction, SetInternalTransfer
<1>11. ASSUME NEW id \in Ids, NEW p \in Previewers, PreviewDecide(p, id) PROVE Grows
  BY <1>0, <1>11 DEF PreviewDecide, history
<1>12. ASSUME NEW id \in Ids, NEW r \in Reappliers, ReapplySave(r, id) PROVE Grows
  BY <1>0, <1>12 DEF ReapplySave
<1>5. ASSUME NEW e \in Editors, EditRead(e) \/ EditSave(e) \/ EditFail(e) PROVE Grows
  BY <1>0, <1>5 DEF EditRead, EditSave, EditFail, history
<1>6. ASSUME NEW c \in Categories, CreateCategory(c) PROVE Grows
  BY <1>0, <1>6 DEF CreateCategory, history
<1>7. ASSUME NEW i \in RuleIds, DeleteRule(i) PROVE Grows
  BY <1>0, <1>7 DEF DeleteRule, history
<1>8. ASSUME NEW p \in Previewers, PreviewRead(p) \/ PreviewList(p) \/ PreviewFail(p) PROVE Grows
  BY <1>0, <1>8 DEF PreviewRead, PreviewList, PreviewFail, history
<1>9. ASSUME NEW r \in Reappliers,
             ReapplyRules(r) \/ ReapplyList(r) \/ ReapplyDone(r) \/ ReapplyFail(r)
      PROVE  Grows
  BY <1>0, <1>9 DEF ReapplyRules, ReapplyList, ReapplyDone, ReapplyFail, history
<1>10. CASE UNCHANGED vars
  BY <1>0, <1>10 DEF vars, history
<1>. QED
  BY <1>1, <1>2, <1>3, <1>4, <1>5, <1>6, <1>7, <1>8, <1>9, <1>10, <1>11, <1>12
  DEF Next

\* What was sound stays sound.
LEMMA SoundKept ==
  ASSUME IInv, [Next]_vars
  PROVE  \A id \in Ids : \A row :
           Sound(born[id], targets, row) => Sound(born'[id], targets', row)
<1> SUFFICES ASSUME NEW id \in Ids, NEW row, Sound(born[id], targets, row)
             PROVE  Sound(born'[id], targets', row)
  OBVIOUS
<1>1. born'[id] = born[id] /\ targets \subseteq targets'
  BY Growth DEF Sound
<1>2. Sound(born[id], targets', row)
  BY <1>1, SoundGrows
<1>. QED
  BY <1>1, <1>2

\* A sound row written into the table keeps every row of it sound.
LEMMA PutSound ==
  ASSUME IInv, [Next]_vars, NEW id \in Ids, NEW row, NEW others, Put(id, row, others),
         row # NoTx => Sound(born'[id], targets', row)
  PROVE  LedgerInv'
<1>1. ASSUME NEW i \in Ids, ledger'[i] # NoTx PROVE Sound(born'[i], targets', ledger'[i])
  <2>1. CASE i = id
    BY <1>1, <2>1 DEF Put, IInv, TypeOK
  <2>2. CASE i # id
    <3>1. ledger'[i] = ledger[i]
      BY <2>2 DEF Put, IInv, TypeOK
    <3>2. Sound(born[i], targets, ledger[i])
      BY <1>1, <3>1 DEF IInv, LedgerInv
    <3>. QED
      BY <3>1, <3>2, SoundKept
  <2>. QED
    BY <2>1, <2>2
<1>. QED
  BY <1>1 DEF LedgerInv

LEMMA LedgerStep == IInv /\ [Next]_vars => LedgerInv'
<1> SUFFICES ASSUME IInv, [Next]_vars PROVE LedgerInv'
  OBVIOUS
<1>1. ASSUME NEW id \in Ids, CreateTransaction(id) PROVE LedgerInv'
  <2>1. PICK f \in RowForms :
          LET row == [account |-> f.account, category |-> f.category, origin |-> "manual",
                      text |-> f.text, fixed |-> f.fixed, transfer |-> FALSE,
                      source |-> "manual", hash |-> NoHash] IN
          /\ Put(id, row, Reappliers)
          /\ born' = [born EXCEPT ![id] = IdentityOf(row, NoCategory)]
    BY <1>1 DEF CreateTransaction
  <2> DEFINE row == [account |-> f.account, category |-> f.category, origin |-> "manual",
                     text |-> f.text, fixed |-> f.fixed, transfer |-> FALSE,
                     source |-> "manual", hash |-> NoHash]
  <2>2. f \in RowForm
    OBVIOUS
  <2>3. row \in Tx /\ row.origin = "manual"
    BY <2>2 DEF Tx, RowForm, Origins
  <2>4. Put(id, row, Reappliers) /\ born' = [born EXCEPT ![id] = IdentityOf(row, NoCategory)]
    BY <2>1
  <2> HIDE DEF row
  <2>5. born'[id] = IdentityOf(row, NoCategory) /\ IdentityOf(row, NoCategory) # NoTx
    <3>1. IdentityOf(row, NoCategory) \in Identity
      BY <2>3, IdentityType
    <3>. QED
      BY <2>4, <3>1 DEF IInv, TypeOK
  <2>6. Sound(born'[id], targets', row)
    BY <2>3, <2>5 DEF Sound, Truthful, IdentityOf
  <2>. QED
    BY <2>4, <2>6, PutSound
<1>2. ASSUME NEW id \in Ids, DeleteTransaction(id) PROVE LedgerInv'
  BY <1>2, PutSound DEF DeleteTransaction
<1>3. ASSUME NEW id \in Ids, SetInternalTransfer(id) PROVE LedgerInv'
  <2>1. PICK mark \in BOOLEAN : Put(id, [ledger[id] EXCEPT !.transfer = mark], Reappliers)
    BY <1>3 DEF SetInternalTransfer
  <2>2. Sound(born'[id], targets', ledger[id])
    BY <1>3, SoundKept DEF SetInternalTransfer, IInv, LedgerInv
  <2>3. Sound(born'[id], targets', [ledger[id] EXCEPT !.transfer = mark])
    BY <2>2 DEF Sound, Truthful, Tx
  <2>. QED
    BY <2>1, <2>3, PutSound
<1>4. ASSUME NEW id \in Ids, ConfirmRow(id) PROVE LedgerInv'
  <2>1. CASE Put(id, offers[id].row, Reappliers)
    <3>1. Sound(IdentityOf(offers[id].row, offers[id].csvCategory), targets, offers[id].row)
      BY <1>4 DEF ConfirmRow, IInv, OfferInv
    <3>2. /\ born'[id] = IdentityOf(offers[id].row, offers[id].csvCategory)
          /\ targets' = targets
      BY <1>4 DEF ConfirmRow, IInv, TypeOK
    <3>. QED
      BY <2>1, <3>1, <3>2, PutSound
  <2>2. CASE UNCHANGED ledger
    BY <2>2, SoundKept DEF IInv, LedgerInv
  <2>. QED
    BY <1>4, <2>1, <2>2 DEF ConfirmRow
<1>5. ASSUME NEW id \in Ids, NEW r \in Reappliers, ReapplySave(r, id) PROVE LedgerInv'
  <2> DEFINE row == Recategorized(reapply[r].rules, reapply[r].before[id])
  <2>1. reapply[r] # Idle /\ id \in reapply[r].todo /\ Put(id, row, Reappliers \ {r})
    BY <1>5 DEF ReapplySave
  <2>2. reapply[r].rules \in Rules
    BY <2>1 DEF IInv, TypeOK, Reapplication
  <2>3. Sound(born[id], targets, reapply[r].before[id]) /\ Recorded(reapply[r].rules, targets)
    BY <2>1 DEF IInv, ReapplyInv, RulesInv
  <2>4. Sound(born[id], targets, row)
    BY <2>2, <2>3, RecategorizedSound
  <2> HIDE DEF row
  <2>5. Sound(born'[id], targets', row)
    BY <2>4, SoundKept
  <2>. QED
    BY <2>1, <2>5, PutSound
<1>6. ASSUME NEW e \in Editors, EditSave(e) PROVE LedgerInv'
  <2>1. PICK f \in RowForms : Put(edit[e].id, Edited(edit[e].row, f), Reappliers)
    BY <1>6 DEF EditSave
  <2>2. edit[e].id \in Ids /\ Sound(born[edit[e].id], targets, edit[e].row)
    BY <1>6 DEF EditSave, IInv, TypeOK, EditInv, Snapshot
  <2>3. Sound(born[edit[e].id], targets, Edited(edit[e].row, f))
    BY <2>2, EditedSound
  <2>4. Sound(born'[edit[e].id], targets', Edited(edit[e].row, f))
    BY <2>2, <2>3, SoundKept
  <2>. QED
    BY <2>1, <2>2, <2>4, PutSound
<1>7. CASE UNCHANGED ledger
  BY <1>7, SoundKept DEF IInv, LedgerInv
<1>8. CASE \/ \E id \in Ids, p \in Previewers : PreviewDecide(p, id)
           \/ \E e \in Editors : EditRead(e) \/ EditFail(e)
           \/ \E c \in Categories : CreateCategory(c)
           \/ \E i \in RuleIds : SaveRule(i) \/ DeleteRule(i)
           \/ \E p \in Previewers : PreviewRead(p) \/ PreviewList(p) \/ PreviewFail(p)
           \/ \E r \in Reappliers : \/ ReapplyRules(r) \/ ReapplyList(r)
                                   \/ ReapplyDone(r) \/ ReapplyFail(r)
           \/ UNCHANGED vars
  <2>1. UNCHANGED ledger
    BY <1>8 DEF PreviewDecide, EditRead, EditFail, CreateCategory, SaveRule, DeleteRule,
       PreviewRead, PreviewList, PreviewFail, ReapplyRules, ReapplyList, ReapplyDone, ReapplyFail, vars
  <2>. QED
    BY <1>7, <2>1
<1>. QED
  BY <1>1, <1>2, <1>3, <1>4, <1>5, <1>6, <1>8 DEF Next

LEMMA EditStep == IInv /\ [Next]_vars => EditInv'
<1> SUFFICES ASSUME IInv, [Next]_vars, NEW e \in Editors, edit'[e] # Idle
             PROVE  Sound(born'[edit'[e].id], targets', edit'[e].row)
  BY DEF EditInv
<1>1. \/ edit'[e] = edit[e]
      \/ \E id \in Ids : /\ ledger[id] # NoTx
                         /\ edit'[e] = [id |-> id, row |-> ledger[id]]
  <2>1. ASSUME NEW d \in Editors, EditRead(d) \/ EditSave(d) \/ EditFail(d)
        PROVE  \/ edit'[e] = edit[e]
               \/ \E id \in Ids : /\ ledger[id] # NoTx
                                  /\ edit'[e] = [id |-> id, row |-> ledger[id]]
    BY <2>1 DEF EditRead, EditSave, EditFail, IInv, TypeOK
  <2>2. ASSUME NEW id \in Ids, \/ CreateTransaction(id) \/ DeleteTransaction(id)
                              \/ SetInternalTransfer(id) \/ ConfirmRow(id)
        PROVE  UNCHANGED edit
    BY <2>2 DEF CreateTransaction, DeleteTransaction, SetInternalTransfer, ConfirmRow
  <2>3. ASSUME NEW id \in Ids, NEW p \in Previewers, PreviewDecide(p, id) PROVE UNCHANGED edit
    BY <2>3 DEF PreviewDecide
  <2>4. ASSUME NEW id \in Ids, NEW r \in Reappliers, ReapplySave(r, id) PROVE UNCHANGED edit
    BY <2>4 DEF ReapplySave
  <2>5. ASSUME NEW c \in Categories, CreateCategory(c) PROVE UNCHANGED edit
    BY <2>5 DEF CreateCategory
  <2>6. ASSUME NEW i \in RuleIds, SaveRule(i) \/ DeleteRule(i) PROVE UNCHANGED edit
    BY <2>6 DEF SaveRule, DeleteRule
  <2>7. ASSUME NEW p \in Previewers, PreviewRead(p) \/ PreviewList(p) \/ PreviewFail(p)
        PROVE  UNCHANGED edit
    BY <2>7 DEF PreviewRead, PreviewList, PreviewFail
  <2>8. ASSUME NEW r \in Reappliers,
               ReapplyRules(r) \/ ReapplyList(r) \/ ReapplyDone(r) \/ ReapplyFail(r)
        PROVE  UNCHANGED edit
    BY <2>8 DEF ReapplyRules, ReapplyList, ReapplyDone, ReapplyFail
  <2>9. CASE UNCHANGED vars
    BY <2>9 DEF vars
  <2>. QED
    BY <2>1, <2>2, <2>3, <2>4, <2>5, <2>6, <2>7, <2>8, <2>9 DEF Next
<1>2. CASE edit'[e] = edit[e]
  <2>1. edit[e].id \in Ids /\ Sound(born[edit[e].id], targets, edit[e].row)
    BY <1>2 DEF IInv, TypeOK, EditInv, Snapshot
  <2>. QED
    BY <1>2, <2>1, SoundKept
<1>3. ASSUME NEW id \in Ids, ledger[id] # NoTx, edit'[e] = [id |-> id, row |-> ledger[id]]
      PROVE  Sound(born'[edit'[e].id], targets', edit'[e].row)
  <2>1. Sound(born[id], targets, ledger[id])
    BY <1>3 DEF IInv, LedgerInv
  <2>2. Sound(born'[id], targets', ledger[id])
    BY <2>1, SoundKept
  <2>. QED
    BY <1>3, <2>2
<1>. QED
  BY <1>1, <1>2, <1>3

LEMMA OfferStep == IInv /\ [Next]_vars => OfferInv'
<1> SUFFICES ASSUME IInv, [Next]_vars, NEW id \in Ids, offers'[id] # NoTx
             PROVE  /\ born'[id] = NoTx
                    /\ Sound(IdentityOf(offers'[id].row, offers'[id].csvCategory), targets',
                             offers'[id].row)
  BY DEF OfferInv
<1> DEFINE Good == /\ born'[id] = NoTx
                   /\ Sound(IdentityOf(offers'[id].row, offers'[id].csvCategory), targets',
                            offers'[id].row)
<1>. SUFFICES Good
  OBVIOUS
<1>0. ASSUME offers'[id] = offers[id], born'[id] = born[id] PROVE Good
  <2>1. /\ born[id] = NoTx
        /\ Sound(IdentityOf(offers[id].row, offers[id].csvCategory), targets, offers[id].row)
    BY <1>0 DEF IInv, OfferInv
  <2>2. targets \subseteq targets'
    BY Growth
  <2>. QED
    BY <1>0, <2>1, <2>2, SoundGrows
<1>1. ASSUME NEW i \in Ids, CreateTransaction(i) PROVE Good
  <2>1. offers[i] = NoTx /\ UNCHANGED offers
    BY <1>1 DEF CreateTransaction, Fresh
  <2>2. born'[id] = born[id]
    BY <1>1, <2>1 DEF CreateTransaction, IInv, TypeOK
  <2>. QED
    BY <1>0, <2>1, <2>2
<1>2. ASSUME NEW i \in Ids, ConfirmRow(i) PROVE Good
  <2>1. i # id
    BY <1>2 DEF ConfirmRow, IInv, TypeOK
  <2>2. offers'[id] = offers[id] /\ born'[id] = born[id]
    BY <1>2, <2>1 DEF ConfirmRow, IInv, TypeOK
  <2>. QED
    BY <1>0, <2>2
<1>3. ASSUME NEW i \in Ids, NEW p \in Previewers, PreviewDecide(p, i) PROVE Good
  <2>1. CASE i # id
    BY <1>0, <1>3, <2>1 DEF PreviewDecide, history, IInv, TypeOK
  <2>2. CASE i = id
    <3>1. PICK line \in Lines :
            offers' = [offers EXCEPT ![id] = [row |-> Imported(preview[p].known, line),
                                              csvCategory |-> line.csvCategory]]
      BY <1>3, <2>2 DEF PreviewDecide
    <3>2. preview[p].known \in SUBSET Categories
      BY <1>3 DEF PreviewDecide, IInv, TypeOK, Reading
    <3>3. rules \in Rules /\ Recorded(rules, targets)
      BY DEF IInv, TypeOK, RulesInv
    <3>4. LET row == Imported(preview[p].known, line) IN
          Sound(IdentityOf(row, line.csvCategory), targets, row)
      BY <3>2, <3>3, ImportedSound
    <3>5. /\ offers'[id].row = Imported(preview[p].known, line)
          /\ offers'[id].csvCategory = line.csvCategory
      BY <3>1 DEF IInv, TypeOK
    <3>6. born'[id] = NoTx /\ targets' = targets
      BY <1>3, <2>2 DEF PreviewDecide, Fresh, history
    <3>. QED
      BY <3>4, <3>5, <3>6
  <2>. QED
    BY <2>1, <2>2
<1> HIDE DEF Good
<1>4. ASSUME NEW i \in Ids, DeleteTransaction(i) \/ SetInternalTransfer(i) PROVE Good
  BY <1>0, <1>4 DEF DeleteTransaction, SetInternalTransfer
<1>5. ASSUME NEW i \in Ids, NEW r \in Reappliers, ReapplySave(r, i) PROVE Good
  BY <1>0, <1>5 DEF ReapplySave
<1>6. ASSUME NEW e \in Editors, EditRead(e) \/ EditSave(e) \/ EditFail(e) PROVE Good
  BY <1>0, <1>6 DEF EditRead, EditSave, EditFail, history
<1>7. ASSUME NEW c \in Categories, CreateCategory(c) PROVE Good
  BY <1>0, <1>7 DEF CreateCategory, history
<1>8. ASSUME NEW i \in RuleIds, SaveRule(i) \/ DeleteRule(i) PROVE Good
  BY <1>0, <1>8 DEF SaveRule, DeleteRule, history
<1>9. ASSUME NEW p \in Previewers, PreviewRead(p) \/ PreviewList(p) \/ PreviewFail(p) PROVE Good
  BY <1>0, <1>9 DEF PreviewRead, PreviewList, PreviewFail, history
<1>10. ASSUME NEW r \in Reappliers,
              ReapplyRules(r) \/ ReapplyList(r) \/ ReapplyDone(r) \/ ReapplyFail(r)
       PROVE  Good
  BY <1>0, <1>10 DEF ReapplyRules, ReapplyList, ReapplyDone, ReapplyFail, history
<1>11. CASE UNCHANGED vars
  BY <1>0, <1>11 DEF vars, history
<1>. QED
  BY <1>1, <1>2, <1>3, <1>4, <1>5, <1>6, <1>7, <1>8, <1>9, <1>10, <1>11 DEF Next

LEMMA CategoryStep == IInv /\ [Next]_vars => CategoryInv'
<1> SUFFICES ASSUME IInv, [Next]_vars PROVE CategoryInv'
  OBVIOUS
<1>0. UNCHANGED <<categories, targets>> => CategoryInv'
  BY DEF IInv, CategoryInv
<1>1. ASSUME NEW c \in Categories, CreateCategory(c) PROVE CategoryInv'
  BY <1>1 DEF CreateCategory, history, IInv, CategoryInv
<1>2. ASSUME NEW i \in RuleIds, SaveRule(i) PROVE CategoryInv'
  BY <1>2 DEF SaveRule, IInv, CategoryInv
<1>3. ASSUME NEW i \in RuleIds, DeleteRule(i) PROVE CategoryInv'
  BY <1>0, <1>3 DEF DeleteRule, history
<1>4. ASSUME NEW id \in Ids, \/ CreateTransaction(id) \/ DeleteTransaction(id)
                            \/ SetInternalTransfer(id) \/ ConfirmRow(id)
      PROVE  CategoryInv'
  BY <1>0, <1>4 DEF CreateTransaction, DeleteTransaction, SetInternalTransfer, ConfirmRow
<1>5. ASSUME NEW id \in Ids, NEW p \in Previewers, PreviewDecide(p, id) PROVE CategoryInv'
  BY <1>0, <1>5 DEF PreviewDecide, history
<1>6. ASSUME NEW id \in Ids, NEW r \in Reappliers, ReapplySave(r, id) PROVE CategoryInv'
  BY <1>0, <1>6 DEF ReapplySave
<1>7. ASSUME NEW e \in Editors, EditRead(e) \/ EditSave(e) \/ EditFail(e) PROVE CategoryInv'
  BY <1>0, <1>7 DEF EditRead, EditSave, EditFail, history
<1>8. ASSUME NEW p \in Previewers, PreviewRead(p) \/ PreviewList(p) \/ PreviewFail(p) PROVE CategoryInv'
  BY <1>0, <1>8 DEF PreviewRead, PreviewList, PreviewFail, history
<1>9. ASSUME NEW r \in Reappliers,
             ReapplyRules(r) \/ ReapplyList(r) \/ ReapplyDone(r) \/ ReapplyFail(r)
      PROVE  CategoryInv'
  BY <1>0, <1>9 DEF ReapplyRules, ReapplyList, ReapplyDone, ReapplyFail, history
<1>10. CASE UNCHANGED vars
  BY <1>0, <1>10 DEF vars, history
<1>. QED
  BY <1>1, <1>2, <1>3, <1>4, <1>5, <1>6, <1>7, <1>8, <1>9, <1>10 DEF Next

LEMMA RulesStep == IInv /\ [Next]_vars => RulesInv'
<1> SUFFICES ASSUME IInv, [Next]_vars PROVE RulesInv'
  OBVIOUS
<1>0. targets \subseteq targets'
  BY Growth
<1>1. ASSUME UNCHANGED <<rules, listing, reapply>> PROVE RulesInv'
  BY <1>0, <1>1 DEF IInv, RulesInv, Recorded
<1>2. ASSUME NEW i \in RuleIds, SaveRule(i) PROVE RulesInv'
  <2>1. PICK f \in RuleForms : rules' = [rules EXCEPT ![i] = f] /\ f.category \in targets'
    BY <1>2 DEF SaveRule
  <2>2. Recorded(rules', targets')
    BY <1>0, <2>1 DEF IInv, TypeOK, Rules, RulesInv, Recorded
  <2>. QED
    BY <1>0, <1>2, <2>2 DEF SaveRule, IInv, RulesInv, Recorded
<1>3. ASSUME NEW i \in RuleIds, DeleteRule(i) PROVE RulesInv'
  <2>1. Recorded(rules', targets')
    BY <1>0, <1>3 DEF DeleteRule, IInv, TypeOK, Rules, RulesInv, Recorded
  <2>. QED
    BY <1>0, <1>3, <2>1 DEF DeleteRule, IInv, RulesInv, Recorded
<1>4. ASSUME NEW r \in Reappliers, ReapplyRules(r) PROVE RulesInv'
  <2>1. UNCHANGED <<rules, reapply, targets>> /\ listing' = [listing EXCEPT ![r] = [rules |-> rules]]
    BY <1>4 DEF ReapplyRules, history
  <2>2. ASSUME NEW q \in Reappliers, listing'[q] # Idle PROVE Recorded(listing'[q].rules, targets')
    BY <2>1, <2>2 DEF IInv, TypeOK, RulesInv
  <2>. QED
    BY <2>1, <2>2 DEF IInv, RulesInv
<1>5. ASSUME NEW r \in Reappliers, ReapplyList(r) PROVE RulesInv'
  <2>1. /\ UNCHANGED <<rules, targets>>
        /\ listing[r] # Idle
        /\ listing' = [listing EXCEPT ![r] = Idle]
        /\ reapply' = [reapply EXCEPT ![r] =
                         [rules |-> listing[r].rules, before |-> ledger,
                          todo |-> Changed(listing[r].rules, ledger)]]
    BY <1>5 DEF ReapplyList, history
  <2>2. ASSUME NEW q \in Reappliers, listing'[q] # Idle PROVE Recorded(listing'[q].rules, targets')
    BY <2>1, <2>2 DEF IInv, TypeOK, RulesInv
  <2>3. ASSUME NEW q \in Reappliers, reapply'[q] # Idle PROVE Recorded(reapply'[q].rules, targets')
    BY <2>1, <2>3 DEF IInv, TypeOK, RulesInv
  <2>. QED
    BY <2>1, <2>2, <2>3 DEF IInv, RulesInv
<1>6. ASSUME NEW id \in Ids, NEW r \in Reappliers, ReapplySave(r, id) PROVE RulesInv'
  <2>1. /\ UNCHANGED <<rules, listing, targets>> /\ reapply[r] # Idle
        /\ reapply' = [reapply EXCEPT ![r].todo = @ \ {id}]
    BY <1>6 DEF ReapplySave
  <2>2. ASSUME NEW q \in Reappliers, reapply'[q] # Idle PROVE Recorded(reapply'[q].rules, targets')
    <3>1. reapply[r] \in Reapplication
      BY <2>1 DEF IInv, TypeOK
    <3>2. reapply'[q].rules = reapply[q].rules /\ reapply[q] # Idle
      BY <2>1, <2>2, <3>1 DEF IInv, TypeOK, Reapplication
    <3>. QED
      BY <2>1, <3>2 DEF IInv, RulesInv
  <2>. QED
    BY <2>1, <2>2 DEF IInv, RulesInv
<1>7. ASSUME NEW r \in Reappliers, ReapplyDone(r) \/ ReapplyFail(r) PROVE RulesInv'
  <2>1. /\ UNCHANGED <<rules, targets>>
        /\ listing' = listing \/ listing' = [listing EXCEPT ![r] = Idle]
        /\ reapply' = [reapply EXCEPT ![r] = Idle]
    BY <1>7 DEF ReapplyDone, ReapplyFail
  <2>. QED
    BY <2>1 DEF IInv, TypeOK, RulesInv
<1>8. ASSUME NEW id \in Ids, \/ CreateTransaction(id) \/ DeleteTransaction(id)
                            \/ SetInternalTransfer(id) \/ ConfirmRow(id)
      PROVE  RulesInv'
  BY <1>1, <1>8 DEF CreateTransaction, DeleteTransaction, SetInternalTransfer, ConfirmRow
<1>9. ASSUME NEW id \in Ids, NEW p \in Previewers, PreviewDecide(p, id) PROVE RulesInv'
  BY <1>1, <1>9 DEF PreviewDecide
<1>10. ASSUME NEW e \in Editors, EditRead(e) \/ EditSave(e) \/ EditFail(e) PROVE RulesInv'
  BY <1>1, <1>10 DEF EditRead, EditSave, EditFail
<1>11. ASSUME NEW c \in Categories, CreateCategory(c) PROVE RulesInv'
  BY <1>1, <1>11 DEF CreateCategory
<1>12. ASSUME NEW p \in Previewers, PreviewRead(p) \/ PreviewList(p) \/ PreviewFail(p) PROVE RulesInv'
  BY <1>1, <1>12 DEF PreviewRead, PreviewList, PreviewFail
<1>13. CASE UNCHANGED vars
  BY <1>1, <1>13 DEF vars
<1>. QED
  BY <1>2, <1>3, <1>4, <1>5, <1>6, <1>7, <1>8, <1>9, <1>10, <1>11, <1>12, <1>13 DEF Next

\* What reapplication r claims of row id, in a table that holds row under it.
LEMMA ReapplyRow ==
  ASSUME IInv, [Next]_vars, NEW q \in Reappliers, reapply'[q] # Idle, reapply[q] # Idle,
         reapply'[q].rules = reapply[q].rules, reapply'[q].before = reapply[q].before,
         reapply'[q].todo \subseteq reapply[q].todo,
         \A id \in Ids \ touched'[q] :
           \/ /\ id \notin touched[q] /\ ledger'[id] = ledger[id]
              /\ (id \in reapply'[q].todo <=> id \in reapply[q].todo)
           \/ /\ id \in reapply[q].todo /\ id \notin reapply'[q].todo
              /\ ledger'[id] = Recategorized(reapply[q].rules, reapply[q].before[id])
  PROVE  LET before == reapply'[q].before
             after(id) == Recategorized(reapply'[q].rules, before[id]) IN
         /\ \A id \in Ids : before[id] # NoTx => Sound(born'[id], targets', before[id])
         /\ \A id \in reapply'[q].todo : before[id] # NoTx
         /\ \A id \in Ids \ touched'[q] :
              ledger'[id] = IF before[id] = NoTx \/ id \in reapply'[q].todo
                            THEN before[id] ELSE after(id)
<1>1. /\ \A id \in Ids : reapply[q].before[id] # NoTx =>
           Sound(born[id], targets, reapply[q].before[id])
      /\ \A id \in reapply[q].todo : reapply[q].before[id] # NoTx
      /\ \A id \in Ids \ touched[q] :
           ledger[id] = IF reapply[q].before[id] = NoTx \/ id \in reapply[q].todo
                        THEN reapply[q].before[id]
                        ELSE Recategorized(reapply[q].rules, reapply[q].before[id])
  BY DEF IInv, ReapplyInv
<1>2. \A id \in Ids : reapply[q].before[id] # NoTx =>
        Sound(born'[id], targets', reapply[q].before[id])
  BY <1>1, SoundKept
<1>. QED
  BY <1>1, <1>2

LEMMA ReapplyStep == IInv /\ [Next]_vars => ReapplyInv'
<1> SUFFICES ASSUME IInv, [Next]_vars, NEW q \in Reappliers, reapply'[q] # Idle
             PROVE  LET before == reapply'[q].before
                        after(id) == Recategorized(reapply'[q].rules, before[id]) IN
                    /\ \A id \in Ids : before[id] # NoTx => Sound(born'[id], targets', before[id])
                    /\ \A id \in reapply'[q].todo : before[id] # NoTx
                    /\ \A id \in Ids \ touched'[q] :
                         ledger'[id] = IF before[id] = NoTx \/ id \in reapply'[q].todo
                                       THEN before[id] ELSE after(id)
  BY DEF ReapplyInv
<1> DEFINE Claim == LET before == reapply'[q].before
                        after(id) == Recategorized(reapply'[q].rules, before[id]) IN
                    /\ \A id \in Ids : before[id] # NoTx => Sound(born'[id], targets', before[id])
                    /\ \A id \in reapply'[q].todo : before[id] # NoTx
                    /\ \A id \in Ids \ touched'[q] :
                         ledger'[id] = IF before[id] = NoTx \/ id \in reapply'[q].todo
                                       THEN before[id] ELSE after(id)
<1>. SUFFICES Claim
  OBVIOUS
\* Another request writes row i, which this reapplication counts as touched.
<1>0. ASSUME reapply'[q] = reapply[q], NEW i \in Ids, NEW row, NEW others, q \in others,
             Put(i, row, others)
      PROVE  Claim
  <2>1. touched'[q] = touched[q] \cup {i}
    BY <1>0 DEF Put
  <2>2. \A j \in Ids : j # i => ledger'[j] = ledger[j]
    BY <1>0 DEF Put, IInv, TypeOK
  <2>3. \A id \in Ids \ touched'[q] : id \notin touched[q] /\ ledger'[id] = ledger[id]
    BY <2>1, <2>2
  <2>. QED
    BY <1>0, <2>3, ReapplyRow
<1>1. ASSUME reapply'[q] = reapply[q], touched'[q] = touched[q], UNCHANGED ledger PROVE Claim
  BY <1>1, ReapplyRow
<1>2. ASSUME NEW r \in Reappliers, ReapplyList(r) PROVE Claim
  <2>1. CASE r # q
    <3>1. reapply'[q] = reapply[q]
      BY <1>2, <2>1 DEF ReapplyList, IInv, TypeOK
    <3>. QED
      BY <1>1, <1>2, <3>1 DEF ReapplyList, history
  <2>2. CASE r = q
    <3>1. /\ reapply'[q].rules = listing[q].rules /\ reapply'[q].before = ledger
          /\ reapply'[q].todo = Changed(listing[q].rules, ledger)
          /\ UNCHANGED <<ledger, touched, born, targets>>
      BY <1>2, <2>2 DEF ReapplyList, IInv, TypeOK, history
    <3>2. \A id \in Ids : ledger[id] # NoTx => Sound(born[id], targets, ledger[id])
      BY DEF IInv, LedgerInv
    <3>3. \A id \in Changed(listing[q].rules, ledger) : ledger[id] # NoTx
      BY DEF Changed
    <3>4. \A id \in Ids : \/ ledger[id] = NoTx \/ id \in Changed(listing[q].rules, ledger)
                           \/ Recategorized(listing[q].rules, ledger[id]) = ledger[id]
      BY DEF Changed
    <3>. QED
      BY <3>1, <3>2, <3>3, <3>4
  <2>. QED
    BY <2>1, <2>2
<1>3. ASSUME NEW id \in Ids, NEW r \in Reappliers, ReapplySave(r, id) PROVE Claim
  <2>1. CASE r # q
    <3>1. reapply'[q] = reapply[q]
      BY <1>3, <2>1 DEF ReapplySave, IInv, TypeOK
    <3>. QED
      BY <1>0, <1>3, <2>1, <3>1 DEF ReapplySave
  <2>2. CASE r = q
    <3>1. /\ reapply[q] # Idle /\ id \in reapply[q].todo
          /\ Put(id, Recategorized(reapply[q].rules, reapply[q].before[id]), Reappliers \ {q})
          /\ reapply' = [reapply EXCEPT ![q].todo = @ \ {id}]
      BY <1>3, <2>2 DEF ReapplySave
    <3>2. reapply[q] \in Reapplication
      BY <3>1 DEF IInv, TypeOK
    <3>3. /\ reapply'[q].rules = reapply[q].rules /\ reapply'[q].before = reapply[q].before
          /\ reapply'[q].todo = reapply[q].todo \ {id}
      BY <3>1, <3>2 DEF IInv, TypeOK, Reapplication
    <3>4. /\ touched'[q] = touched[q]
          /\ ledger'[id] = Recategorized(reapply[q].rules, reapply[q].before[id])
          /\ \A j \in Ids : j # id => ledger'[j] = ledger[j]
      BY <3>1 DEF Put, IInv, TypeOK
    <3>. HIDE DEF Claim
    <3>5. \A j \in Ids \ touched'[q] :
           \/ /\ j \notin touched[q] /\ ledger'[j] = ledger[j]
              /\ (j \in reapply'[q].todo <=> j \in reapply[q].todo)
           \/ /\ j \in reapply[q].todo /\ j \notin reapply'[q].todo
              /\ ledger'[j] = Recategorized(reapply[q].rules, reapply[q].before[j])
      BY <3>1, <3>3, <3>4
    <3>6. reapply'[q].todo \subseteq reapply[q].todo
      BY <3>3
    <3>. QED
      BY <3>1, <3>3, <3>5, <3>6, ReapplyRow DEF Claim
  <2>. QED
    BY <2>1, <2>2
<1>4. ASSUME NEW r \in Reappliers, ReapplyDone(r) \/ ReapplyFail(r) PROVE Claim
  <2>1. r # q
    BY <1>4 DEF ReapplyDone, ReapplyFail, IInv, TypeOK
  <2>2. reapply'[q] = reapply[q] /\ touched'[q] = touched[q] /\ UNCHANGED ledger
    BY <1>4, <2>1 DEF ReapplyDone, ReapplyFail, IInv, TypeOK
  <2>. QED
    BY <1>1, <2>2
<1> HIDE DEF Claim
<1>5. ASSUME NEW id \in Ids, CreateTransaction(id) PROVE Claim
  BY <1>0, <1>5 DEF CreateTransaction
<1>6. ASSUME NEW id \in Ids, DeleteTransaction(id) \/ SetInternalTransfer(id) PROVE Claim
  BY <1>0, <1>6 DEF DeleteTransaction, SetInternalTransfer
<1>7. ASSUME NEW id \in Ids, ConfirmRow(id) PROVE Claim
  BY <1>0, <1>1, <1>7 DEF ConfirmRow
<1>8. ASSUME NEW e \in Editors, EditSave(e) PROVE Claim
  <2>1. edit[e].id \in Ids
    BY <1>8 DEF EditSave, IInv, TypeOK, Snapshot
  <2>. QED
    BY <1>0, <1>8, <2>1 DEF EditSave
<1>9. ASSUME NEW e \in Editors, EditRead(e) \/ EditFail(e) PROVE Claim
  BY <1>1, <1>9 DEF EditRead, EditFail, history
<1>10. ASSUME NEW id \in Ids, NEW p \in Previewers, PreviewDecide(p, id) PROVE Claim
  BY <1>1, <1>10 DEF PreviewDecide, history
<1>11. ASSUME NEW c \in Categories, CreateCategory(c) PROVE Claim
  BY <1>1, <1>11 DEF CreateCategory, history
<1>12. ASSUME NEW i \in RuleIds, SaveRule(i) \/ DeleteRule(i) PROVE Claim
  BY <1>1, <1>12 DEF SaveRule, DeleteRule, history
<1>13. ASSUME NEW p \in Previewers, PreviewRead(p) \/ PreviewList(p) \/ PreviewFail(p) PROVE Claim
  BY <1>1, <1>13 DEF PreviewRead, PreviewList, PreviewFail, history
<1>14. ASSUME NEW r \in Reappliers, ReapplyRules(r) PROVE Claim
  BY <1>1, <1>14 DEF ReapplyRules, history
<1>15. CASE UNCHANGED vars
  BY <1>1, <1>15 DEF vars, history
<1>. QED
  BY <1>2, <1>3, <1>4, <1>5, <1>6, <1>7, <1>8, <1>9, <1>10, <1>11, <1>12, <1>13, <1>14,
     <1>15 DEF Next

LEMMA InvInit == Init => IInv
<1> SUFFICES ASSUME Init PROVE IInv
  OBVIOUS
<1>1. ASSUME NEW id \in Ids, ledger[id] # NoTx PROVE Sound(born[id], targets, ledger[id])
  <2> DEFINE row == ledger[id]
  <2>1. row \in MigratedRows
    BY <1>1 DEF Init
  <2>2. /\ row \in Tx
        /\ row.origin = IF row.source = "csv" THEN "legacy_preserved" ELSE "manual"
    BY <2>1
  <2>3. born[id] = IdentityOf(row, row.category)
    BY <1>1 DEF Init
  <2> HIDE DEF row
  <2>4. IdentityOf(row, row.category) \in Identity
    BY <2>2, IdentityType DEF Tx
  <2>5. born[id] # NoTx /\ born[id].given = row.category
    BY <2>3, <2>4 DEF IdentityOf
  <2>6. Sound(born[id], targets, row)
    BY <2>2, <2>3, <2>5 DEF Sound, Truthful, IdentityOf
  <2>. QED
    BY <2>6 DEF row
<1>2. LedgerInv
  BY <1>1 DEF LedgerInv
<1>3. EditInv /\ OfferInv /\ CategoryInv /\ RulesInv /\ ReapplyInv
  BY DEF Init, CategoryInv, EditInv, OfferInv, RulesInv, Recorded, ReapplyInv
<1>. QED
  BY <1>2, <1>3, TypeInit DEF IInv

LEMMA InvStep == IInv /\ [Next]_vars => IInv'
BY TypeStep, LedgerStep, EditStep, OfferStep, CategoryStep, RulesStep, ReapplyStep DEF IInv

-----------------------------------------------------------------------------
(* The theorems.                                                           *)

\* However creations, edits, marks, deletions, imports, rule changes and
\* reapplications interleave, the rows they hold and the rows of the table stay
\* sound.
THEOREM Invariance == Spec => []IInv
<1>1. Init => IInv
  BY InvInit
<1>2. IInv /\ [Next]_vars => IInv'
  BY InvStep
<1>. QED
  BY <1>1, <1>2, PTL DEF Spec

\* The state of the ledger is well typed.
THEOREM TypeCorrect == Spec => []TypeOK
<1>1. IInv => TypeOK
  BY DEF IInv
<1>. QED
  BY <1>1, Invariance, PTL

\* Category origins tell the truth, whatever stale row was written back last.
THEOREM OriginsAreTruthful == Spec => []OriginTruthful
<1>1. IInv => OriginTruthful
  BY DEF IInv, LedgerInv, Sound, OriginTruthful
<1>. QED
  BY <1>1, Invariance, PTL

\* Source and import hash of a row never change.
THEOREM IdentitiesAreKept == Spec => []IdentityKept
<1>1. IInv => IdentityKept
  BY DEF IInv, LedgerInv, Sound, IdentityKept
<1>. QED
  BY <1>1, Invariance, PTL

\* A reapplication that succeeds has applied the rules it listed exactly to the
\* rows it listed, except those others wrote meanwhile.
THEOREM ReapplicationIsExact == Spec => ReapplicationExact
<1>1. ASSUME IInv, NEW r \in Reappliers, ReapplyDone(r), NEW id \in Ids \ touched[r]
      PROVE  IF reapply[r].before[id] = NoTx THEN ledger[id] = NoTx
             ELSE /\ ledger[id] = Recategorized(reapply[r].rules, reapply[r].before[id])
                  /\ Recategorized(reapply[r].rules, ledger[id]) = ledger[id]
  <2>1. reapply[r] # Idle /\ reapply[r].todo = {}
    BY <1>1 DEF ReapplyDone, ReapplyEnded
  <2>2. ledger[id] = IF reapply[r].before[id] = NoTx THEN reapply[r].before[id]
                     ELSE Recategorized(reapply[r].rules, reapply[r].before[id])
    BY <1>1, <2>1 DEF IInv, ReapplyInv
  <2>3. reapply[r].rules \in Rules /\ reapply[r].before[id] \in Tx \cup {NoTx}
    <3>1. reapply[r] \in Reapplication
      BY <1>1, <2>1 DEF IInv, TypeOK
    <3>. QED
      BY <1>1, <3>1 DEF Reapplication
  <2>4. reapply[r].before[id] # NoTx =>
          Recategorized(reapply[r].rules, Recategorized(reapply[r].rules, reapply[r].before[id]))
            = Recategorized(reapply[r].rules, reapply[r].before[id])
    BY <2>3, RecategorizedTwice
  <2>. QED
    BY <2>2, <2>4
<1>2. IInv /\ [Next]_vars =>
        [\A r \in Reappliers : ReapplyDone(r) =>
           \A id \in Ids \ touched[r] :
             IF reapply[r].before[id] = NoTx THEN ledger[id] = NoTx
             ELSE /\ ledger[id] = Recategorized(reapply[r].rules, reapply[r].before[id])
                  /\ Recategorized(reapply[r].rules, ledger[id]) = ledger[id]]_vars
  BY <1>1
<1>. QED
  BY <1>2, Invariance, PTL DEF Spec, ReapplicationExact

\* What a preview decides about a row, the same rules would not change later.
THEOREM PreviewsAgree == Spec => PreviewAgrees
<1>1. ASSUME IInv, NEW p \in Previewers, NEW id \in Ids, PreviewDecide(p, id),
             preview[p].known = categories
      PROVE  Recategorized(rules, offers'[id].row) = offers'[id].row
  <2>1. PICK line \in Lines :
          offers' = [offers EXCEPT ![id] = [row |-> Imported(preview[p].known, line),
                                            csvCategory |-> line.csvCategory]]
    BY <1>1 DEF PreviewDecide
  <2>2. offers'[id].row = Imported(categories, line)
    BY <1>1, <2>1 DEF IInv, TypeOK
  <2>3. categories \in SUBSET Categories /\ rules \in Rules /\ Recorded(rules, categories)
    BY <1>1 DEF IInv, TypeOK, RulesInv, CategoryInv, Recorded
  <2>. QED
    BY <2>2, <2>3, ImportedAgrees
<1>2. IInv /\ [Next]_vars =>
        [\A p \in Previewers : \A id \in Ids :
           PreviewDecide(p, id) /\ preview[p].known = categories =>
             Recategorized(rules, offers'[id].row) = offers'[id].row]_vars
  BY <1>1
<1>. QED
  BY <1>2, Invariance, PTL DEF Spec, PreviewAgrees
=============================================================================
