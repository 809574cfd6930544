---------------------------- MODULE Credentials ----------------------------
(***************************************************************************)
(* What a controller that keeps a generated credential promises, without   *)
(* saying how: Vault hands out each identifier once; a credential is held  *)
(* by the resource until it ends, or it is lost, and then it is never      *)
(* found again; and there are never more lost credentials that still work  *)
(* than there have been mishaps.                                           *)
(***************************************************************************)
EXTENDS Naturals, FiniteSets

CONSTANT Ids   \* the credentials Vault can hand out

VARIABLES
    state,     \* where each credential is in its life
    mishaps    \* what has gone wrong so far

vars == <<state, mishaps>>

TypeOK ==
    /\ state \in [Ids -> {"new", "held", "lost", "dead"}]
    /\ mishaps \in Nat

Lost == {id \in Ids : state[id] = "lost"}

Init ==
    /\ state = [id \in Ids |-> "new"]
    /\ mishaps = 0

Become(id, to) == state' = [state EXCEPT ![id] = to]

\* Mishaps pay for what is lost, when it is lost or before.
Paid == mishaps' \in Nat /\ mishaps' >= mishaps /\ Cardinality(Lost') <= mishaps'

Issue(id) == state[id] = "new" /\ Become(id, "held")

\* Vault's answer with the credential does not arrive.
Spill(id) == state[id] = "new" /\ Become(id, "lost")

Lose(id) == state[id] = "held" /\ Become(id, "lost")

\* It is destroyed, or its time to live ends.
End(id) == state[id] \in {"held", "lost"} /\ Become(id, "dead")

Mishap == UNCHANGED state

Next ==
    /\ \/ \E id \in Ids : Issue(id) \/ Spill(id) \/ Lose(id) \/ End(id)
       \/ Mishap
    /\ Paid

Spec == Init /\ [][Next]_vars

LostIsPaid == Cardinality(Lost) <= mishaps
=============================================================================
