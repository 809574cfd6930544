---------------------------- MODULE MCConnection ----------------------------
(***************************************************************************)
(* Instances of Connection for TLC.                                        *)
(***************************************************************************)
EXTENDS Connection

\* No identifier is handed out by Vault.
NoIds == {}

\* The default leads everybody to the first Vault, but a namespace has its
\* own; another ProviderConfig is there in that namespace only.
OneSetting ==
    {[at \in Places \X Names |->
         IF at = <<"system", "default">> THEN "v1"
         ELSE IF at = <<"system", "other">> THEN "none" ELSE "v2"]}
=============================================================================
