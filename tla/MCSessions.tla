----------------------------- MODULE MCSessions -----------------------------
(* Instances of the session model for TLC.                                 *)
EXTENDS SessionsProperties, TLC

\* No definition names a request slot, so permuting them is sound.
RequestSymmetry == Permutations(Requests)
=============================================================================
