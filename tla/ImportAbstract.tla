--------------------------- MODULE ImportAbstract ---------------------------
(***************************************************************************)
(* What CSV import promises, without requests, locks or partial work: a    *)
(* previewed batch is confirmed at most once, in one step that either adds *)
(* every accepted row or, when every row has been imported before, none;   *)
(* imported rows appear in no other way and stay unique per account.       *)
(***************************************************************************)
CONSTANTS Accounts, Contents, BatchIds, NoRow, NoOffer

VARIABLES
  offered,      \* offered[b]: account and accepted contents of batch b
  confirmed,    \* batches that were confirmed
  ledger,       \* ledger[b][c]: account of row c of batch b
  held          \* held[a]: contents ever imported for account a

vars == <<offered, confirmed, ledger, held>>

Offer == [account : Accounts, rows : SUBSET Contents]

Init ==
  /\ offered = [b \in BatchIds |-> NoOffer]
  /\ confirmed = {}
  /\ ledger = [b \in BatchIds |-> [c \in Contents |-> NoRow]]
  /\ held = [a \in Accounts |-> {}]

\* The content c of batch b and the content d of another batch carry the same
\* hash exactly when they are equal and were previewed for the same account.
Unique(rows) ==
  \A b1, b2 \in BatchIds : \A c \in Contents :
    (/\ rows[b1][c] # NoRow
     /\ rows[b1][c] = rows[b2][c]
     /\ offered[b1].account = offered[b2].account) => b1 = b2

Preview(b) ==
  /\ offered[b] = NoOffer
  /\ \E o \in Offer : offered' = [offered EXCEPT ![b] = o]
  /\ UNCHANGED <<confirmed, ledger, held>>

ConfirmAll(b) ==
  LET a == offered[b].account IN
  /\ offered[b] # NoOffer
  /\ b \notin confirmed
  /\ confirmed' = confirmed \cup {b}
  /\ ledger' = [ledger EXCEPT ![b] =
                  [c \in Contents |-> IF c \in offered[b].rows THEN a ELSE NoRow]]
  /\ Unique(ledger')
  /\ held' = [held EXCEPT ![a] = @ \cup offered[b].rows]
  /\ UNCHANGED offered

\* Nothing is new: every accepted row is one that some confirmation imported.
ConfirmNone(b) ==
  /\ offered[b] # NoOffer
  /\ b \notin confirmed
  /\ offered[b].rows \subseteq held[offered[b].account]
  /\ confirmed' = confirmed \cup {b}
  /\ UNCHANGED <<offered, ledger, held>>

\* Maintenance books a row on an account, or removes it.  Only rows of a
\* confirmed batch exist to be maintained.
Maintain(b, c) ==
  /\ b \in confirmed
  /\ c \in offered[b].rows
  /\ \E a \in Accounts \cup {NoRow} : ledger' = [ledger EXCEPT ![b][c] = a]
  /\ Unique(ledger')
  /\ UNCHANGED <<offered, confirmed, held>>

Next ==
  \E b \in BatchIds :
    \/ Preview(b) \/ ConfirmAll(b) \/ ConfirmNone(b)
    \/ \E c \in Contents : Maintain(b, c)

Spec == Init /\ [][Next]_vars
=============================================================================
