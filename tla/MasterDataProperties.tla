----------------------- MODULE MasterDataProperties -----------------------
(***************************************************************************)
(* Correctness of start-up and of the maintenance of master data.          *)
(***************************************************************************)
EXTENDS MasterData

\* Once the index exists no two categories share a normalized name, although
\* every save looks for the name in one statement and writes it in a later one,
\* and a deactivation writes back a name that may have been given away since
\* (FF-CAT-004-AC02).
CategoryNamesUnique == IndexedBy \in recorded => ~Collision

\* A migration is in the database if and only if it is recorded, at whichever
\* step a start-up dies, so no start-up repeats or skips one.
MigrationsOnce == applied = recorded

\* Handlers only ever run on a complete schema with all labels, accounts and
\* categories of the inventory: pages look labels up and imports fall back to a
\* category without checking that they exist.
ServingIsSeeded ==
  Serving => /\ recorded = 1..Migrations
             /\ \A i \in 1..Len(Seeds) : Seeded(i)

\* No start-up finds the name of a missing seed taken by another category, which
\* would keep the application down, whatever users rename and whichever locale
\* an interrupted start-up is repeated with.
StartupNeverRefused == ~refused

\* Start-ups, interrupted or repeated, never change a row that exists: neither
\* an edited label nor a deactivation is reset (FF-MDM-002-AC01, FF-MDM-005-AC01).
StartupKeepsRows ==
  [][Main => /\ \A o \in Owners : Exists(labels, o) => labels'[o] = labels[o]
             /\ \A a \in Accounts : Exists(accounts, a) => accounts'[a] = accounts[a]
             /\ \A c \in Categories :
                  Exists(categories, c) => categories'[c] = categories[c]]_vars

\* Start-ups do not fail for ever: after the last crash one succeeds, whatever the
\* crashes left behind, unless the container is not started any more or a collision
\* from before the index waits for the operator (migrate, seedMasterData).
StartupServes == []<>(app = "serving" \/ Collision) \/ <>[](app = "down")

-----------------------------------------------------------------------------
(* The inductive invariant.                                                *)

\* main is past the migrations only when all are recorded, and past a seed only
\* when its row exists.
BootInv ==
  /\ MigrationsOnce
  /\ open # 0 => app = "migrating" /\ open = at /\ at \notin recorded
  /\ open = IndexedBy => ~Collision
  /\ app = "migrating" => at <= Migrations + 1 /\ 1..(at - 1) \subseteq recorded
  /\ app \in {"seeding", "cleaning", "serving"} => recorded = 1..Migrations
  /\ app = "seeding" => at <= Len(Seeds) + 1 /\ \A i \in 1..(at - 1) : Seeded(i)
  /\ app \in {"cleaning", "serving"} => \A i \in 1..Len(Seeds) : Seeded(i)
  /\ app # "serving" => requests = [r \in Requests |-> Idle]

\* As long as a seed is missing, every category is a seed under the name one of
\* the catalogues gives it.
SeedInv ==
  \/ \A i \in 1..Len(Seeds) : Seeded(i)
  \/ \A c \in Categories : Exists(categories, c) =>
       \E i \in 1..Len(Seeds), l \in Locales :
         /\ Seeds[i].table = "category" /\ Seeds[i].id = c
         /\ categories[c].name = SeedName[l][i]

IInv ==
  /\ TypeOK
  /\ BootInv
  /\ SeedInv
  /\ StartupNeverRefused
  /\ CategoryNamesUnique
=============================================================================
