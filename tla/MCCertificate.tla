--------------------------- MODULE MCCertificate ---------------------------
(***************************************************************************)
(* Instances of Certificate for TLC.                                       *)
(***************************************************************************)
EXTENDS Certificate
=============================================================================
