------------------------------ MODULE MCToken ------------------------------
(***************************************************************************)
(* Instances of Token for TLC.                                             *)
(***************************************************************************)
EXTENDS Token

\* A threshold that can be known, one that cannot, and no known end; and a
\* Vault that does not answer 404 for an accessor it does not know.
SomeTraits ==
    {{"timed", "dated"}, {"dated"}, {}, {"timed", "dated", "strict"}}
=============================================================================
