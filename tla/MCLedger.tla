------------------------------ MODULE MCLedger ------------------------------
(* Instances of the ledger model for TLC.                                  *)
EXTENDS LedgerProperties

CONSTANTS a1, home, other, s1, h1

\* The form either keeps the row where the search text matches or rewrites it.
McRowForms ==
  {[account |-> a1, category |-> c, text |-> {s1}, fixed |-> FALSE] : c \in Categories}

\* Two forms that disagree in every respect.
McRuleForms ==
  {[search |-> s1, category |-> home, account |-> AnyAccount, fixed |-> "leave",
    transfer |-> "mark", priority |-> 1],
   [search |-> s1, category |-> other, account |-> a1, fixed |-> "mark",
    transfer |-> "leave", priority |-> 0]}

\* A line without a category of its own, and one that names a category.
McLines ==
  {[account |-> a1, text |-> {s1}, hash |-> h1, csvCategory |-> c] :
     c \in {NoCategory, home}}

McMigrated ==
  {[account |-> a1, category |-> other, origin |-> "legacy_preserved", text |-> {s1},
    fixed |-> FALSE, transfer |-> FALSE, source |-> "csv", hash |-> h1]}

=============================================================================
