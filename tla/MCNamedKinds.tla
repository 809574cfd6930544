---------------------------- MODULE MCNamedKinds ----------------------------
(***************************************************************************)
(* Instances of NamedKinds for TLC.                                        *)
(***************************************************************************)
EXTENDS NamedKinds

\* No identifier is handed out by Vault: the objects have names.
NoIds == {}

\* Every kind; each of the ways to answer with the kinds that have durations, a
\* field that Update does not write, or an Update that may fail.
SomeKinds ==
    {k \in AllKinds :
        \/ k.answers \in {"normal", "set"}
        \/ k.durations # {}
        \/ "fixed" \in k.fields
        \/ k.style = "tune"}
=============================================================================
