---------------------------- MODULE MCPKIConfig ----------------------------
(***************************************************************************)
(* Instances of PKIConfig for TLC.                                         *)
(***************************************************************************)
EXTENDS PKIConfig, TLC

\* No identifier is handed out by Vault: the mount has a path.
NoIds == {}

\* Each answer for what is unset, and each form of a duration.
SomeAnswers ==
    {[unset |-> "default", verbatim |-> FALSE],
     [unset |-> "missing", verbatim |-> TRUE],
     [unset |-> "notfound", verbatim |-> FALSE]}
=============================================================================
