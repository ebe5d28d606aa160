------------------------------ MODULE MCImport ------------------------------
(* Instances of the CSV import model for TLC.                              *)
EXTENDS ImportProperties, TLC

\* No definition names a batch id, account, user or request.  Liveness runs use
\* no symmetry, and an oversized content is named, so contents are kept apart.
RequestSymmetry ==
  Permutations(BatchIds) \cup Permutations(Accounts) \cup Permutations(Users)
    \cup Permutations(Confirmers)
=============================================================================
