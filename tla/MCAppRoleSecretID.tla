--------------------------- MODULE MCAppRoleSecretID ---------------------------
(***************************************************************************)
(* Instances of AppRoleSecretID for TLC.                                   *)
(***************************************************************************)
EXTENDS AppRoleSecretID, TLC

\* Workers are interchangeable, and so are the identifiers Vault draws.
Symmetry == Permutations(Workers) \cup Permutations(Ids \ Legacy)
=============================================================================
