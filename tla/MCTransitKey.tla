---------------------------- MODULE MCTransitKey ----------------------------
(***************************************************************************)
(* Instances of TransitKey for TLC.                                        *)
(***************************************************************************)
EXTENDS TransitKey, TLC

Want(target, minimum, period, form) ==
    [target |-> target, minimum |-> minimum, period |-> period, form |-> form]

\* No target, a target on its own, with a least version on the way to it and
\* with one that is the target, and a key of another form; with periods that can
\* be parsed and one that cannot.
SomeWants ==
    {Want(0, 1, "long", "a"), Want(2, 0, "unset", "a"), Want(3, 1, "short", "a"),
     Want(3, 3, "odd", "a"), Want(2, 0, "odd", "a"), Want(2, 0, "long", "b")}

\* One target, for processes that race.
OneWant == {Want(3, 1, "short", "a")}

\* Workers are interchangeable.
Symmetry == Permutations(Workers)

\* No identifier is handed out by Vault: the key has a name.
NoIds == {}
=============================================================================
