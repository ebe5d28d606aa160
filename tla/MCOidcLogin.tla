---------------------------- MODULE MCOidcLogin -----------------------------
(* Instances of the login model for TLC.                                   *)
EXTENDS OidcLoginProperties
=============================================================================
