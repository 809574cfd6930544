----------------------------- MODULE MCKVSecret -----------------------------
(***************************************************************************)
(* Instances of KVSecret for TLC.                                          *)
(***************************************************************************)
EXTENDS KVSecret

\* No identifier is handed out by Vault: secrets have paths.
NoIds == {}
=============================================================================
