--------------------------- MODULE Categorization ---------------------------
(***************************************************************************)
(* Categorization rules: which rule wins for a row, what the winner does   *)
(* to a line that is being imported, and what it does to a row that is     *)
(* already in the ledger.                                                  *)
(*                                                                         *)
(* Data.  Description, payee and purpose of a row are abstracted to the    *)
(* set of search texts that occur, once both sides are normalised, in at   *)
(* least one of them: this is all that matching reads.  Rule ids are       *)
(* compared by code point; here they are numbers.  Every form of a rule     *)
(* saves it enabled and nothing disables one, so that flag is left out.    *)
(***************************************************************************)
EXTENDS Integers

CONSTANTS
  Accounts,     \* account ids
  Categories,   \* category ids
  Fallback,     \* 'category-other'
  Searches,     \* normalised search texts of rules
  RuleIds,      \* ids of rules, ordered as compareCodePoints orders them
  AnyAccount,   \* accountId = null: the rule is for every account
  NoRule,       \* the table has no rule of that id, or no rule matches
  NoCategory    \* no category has the name the CSV line gives

ASSUME FallbackAssumption == Fallback \in Categories
ASSUME RuleIdsAssumption == RuleIds \subseteq Nat
ASSUME NoCategoryAssumption == NoCategory \notin Categories

\* The tri-state actions of a rule: true, false or null.
Actions == {"mark", "unmark", "leave"}

Rule == [search : Searches, category : Categories, account : Accounts \cup {AnyAccount},
         fixed : Actions, transfer : Actions, priority : Nat]

ASSUME NoRuleAssumption == NoRule \notin Rule /\ NoRule \notin RuleIds

Origins == {"manual", "csv_mapped", "rule", "fallback", "legacy_preserved"}

\* Origins whose category reapplication leaves alone.
Protected == {"manual", "csv_mapped", "legacy_preserved"}

Perform(action, old) ==
  CASE action = "mark" -> TRUE
    [] action = "unmark" -> FALSE
    [] action = "leave" -> old

Applies(rule, account, text) ==
  /\ rule.account \in {AnyAccount, account}
  /\ rule.search \in text

\* Lower priority first, then the smaller id.
Precedes(rules, i, j) ==
  \/ rules[i].priority < rules[j].priority
  \/ rules[i].priority = rules[j].priority /\ i <= j

Matching(rules, account, text) ==
  {i \in RuleIds : rules[i] # NoRule /\ Applies(rules[i], account, text)}

\* The id of the winning rule, or NoRule.
Match(rules, account, text) ==
  LET matching == Matching(rules, account, text) IN
  IF matching = {} THEN NoRule
  ELSE CHOOSE i \in matching : \A j \in matching : Precedes(rules, i, j)

\* Fault: the state actions belong to the rule's category.
StateOf_WithCategory(rules, m, mapped) ==
  [fixed |-> IF m = NoRule \/ mapped THEN FALSE ELSE Perform(rules[m].fixed, FALSE),
   transfer |-> IF m = NoRule \/ mapped THEN FALSE ELSE Perform(rules[m].transfer, FALSE)]

\* The state actions of the winner m on a new row, whether or not the CSV line
\* maps to a category of its own.
StateOf(rules, m, mapped) ==
  [fixed |-> IF m = NoRule THEN FALSE ELSE Perform(rules[m].fixed, FALSE),
   transfer |-> IF m = NoRule THEN FALSE ELSE Perform(rules[m].transfer, FALSE)]

\* Fault: a category name the table does not know is kept.
Decide_Unknown(known, rules, account, text, csvCategory) ==
  [category |-> csvCategory, origin |-> "csv_mapped", fixed |-> FALSE, transfer |-> FALSE]

\* What the preview decides for a line: the category its own name maps to, else
\* the winner's if it is among the categories the request has read, else the
\* fallback.
Decide(known, rules, account, text, csvCategory) ==
  LET m == Match(rules, account, text)
      state == StateOf(rules, m, csvCategory \in known)
      decided(c, o) == [category |-> c, origin |-> o,
                        fixed |-> state.fixed, transfer |-> state.transfer] IN
  IF csvCategory \in known THEN decided(csvCategory, "csv_mapped")
  ELSE IF m # NoRule /\ rules[m].category \in known
       THEN decided(rules[m].category, "rule")
  ELSE decided(Fallback, "fallback")

\* applyCategorizationRules on one row.
Recategorized(rules, row) ==
  LET m == Match(rules, row.account, row.text) IN
  IF m = NoRule THEN row
  ELSE [row EXCEPT
          !.category = IF row.origin \in Protected THEN @ ELSE rules[m].category,
          !.origin = IF row.origin \in Protected THEN @ ELSE "rule",
          !.fixed = Perform(rules[m].fixed, @),
          !.transfer = Perform(rules[m].transfer, @)]
=============================================================================
