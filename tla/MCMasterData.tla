--------------------------- MODULE MCMasterData ---------------------------
(* An instance of the master data model for TLC.                           *)
EXTENDS MasterDataProperties, TLC

CONSTANTS a1, a2, c1, c2, o1, de, en, nX, nY, nB, tA, lA, lB

\* One label, two accounts and two categories; a2 and c2 are no seeds.  nX and nY
\* are two spellings of one name.
MCKey == (nX :> "x" @@ nY :> "x" @@ nB :> "b")
MCSeeds == << [table |-> "label", id |-> o1, owner |-> o1],
              [table |-> "account", id |-> a1, owner |-> o1],
              [table |-> "category", id |-> c1, owner |-> o1] >>
MCSeedName == (de :> <<lA, tA, nX>> @@ en :> <<lB, tA, nB>>)
=============================================================================
