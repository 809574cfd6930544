----------------------------- MODULE TransitKey -----------------------------
(***************************************************************************)
(* The TransitKey controller (internal/controller/transitkey/              *)
(* transitkey.go) over the managed reconciler: an encryption key of Vault  *)
(* is created, configured, rotated until its latest version reaches the    *)
(* one the specification asks for, and deleted.                            *)
(*                                                                         *)
(* A specification has a target version, a least version (the minimum      *)
(* versions for encryption and decryption), a period of the automatic      *)
(* rotation and a form (the type and what else is fixed at creation); 0 is *)
(* a version that is not set.  The identifiers of Managed are not used.    *)
(***************************************************************************)
EXTENDS Specified

CONSTANTS
    Wants,        \* the specifications the user may give
    Forms,        \* the forms a key can have
    MaxTampers,   \* bound on the changes made in Vault by others
    MaxRefusals   \* bound on the requests Vault answers with an error

\* "odd" is a period that Vault understands and Go cannot parse, such as "30d".
Periods == {"unset", "short", "long", "odd"}

ASSUME TransitKeyAssumption ==
    /\ Wants \subseteq [target : Nat, minimum : Nat, period : Periods,
                       form : Forms]
    /\ {MaxTampers, MaxRefusals} \subseteq Nat

VARIABLES
    key,       \* the key in Vault; its latest version is 0 while there is none
    seen,      \* per worker on its way to Update, the latest version as the
               \* status says, with the rotations Update has made since
    asked,     \* the highest version there was a reason for so far
    tampers,   \* changes made in Vault by others so far
    refusals   \* requests Vault has answered with an error

keyVars == <<key, seen, asked, tampers, refusals>>
vars == <<managedVars, specVars, keyVars>>

Tracking == {w \in Workers : pc[w] \in {"finalizer", "update", "rotate"}}

\* Vault gives a period back in seconds: "odd" is a number like any other, and
\* "unset" the default.
Keys == [latest : Nat, minimum : Nat, period : Periods, form : Forms,
         deletable : BOOLEAN]

NoKey(form) == [latest |-> 0, minimum |-> 0, period |-> "unset",
                form |-> form, deletable |-> FALSE]

ExistsRotated == key.latest > 1

Exists == key.latest > 0

\* The type of the state.  A worker in the loop has rotations left to make.
TypeOK ==
    /\ ManagedTypeOK
    /\ SpecifiedTypeOK(Wants)
    /\ key \in Keys
    /\ seen \in [Tracking -> Nat]
    /\ \A w \in Workers : pc[w] = "rotate" => seen[w] < specCopy[w].target
    /\ asked \in Nat
    /\ tampers \in 0 .. MaxTampers
    /\ refusals \in 0 .. MaxRefusals

Larger(m, n) == IF m >= n THEN m ELSE n

\* Somebody may have made the key before, with or without leave to delete it.
Init ==
    /\ ManagedInit(NewObject)
    /\ conn = NoId
    /\ spec \in Wants
    /\ SpecifiedInit
    /\ key \in [latest : 1 .. 2, minimum : {0}, period : {"unset"}, form : Forms,
                deletable : BOOLEAN] \cup {NoKey(spec.form)}
    /\ seen = <<>>
    /\ asked = Larger(Larger(spec.target, key.latest), 1)
    /\ tampers = 0
    /\ refusals = 0

----------------------------------------------------------------------------
\* What the workers remember: the specification of their reconcile and the
\* latest version of the last Observe, counted up by those that rotate.
Remember(rotating) ==
    /\ CarrySpec
    /\ seen' = [w \in Tracking' |->
                   IF pc[w] = "observe" THEN key.latest
                   ELSE IF w \in rotating THEN seen[w] + 1
                   ELSE seen[w]]

Refuse ==
    /\ refusals < MaxRefusals
    /\ refusals' = refusals + 1

TargetNotMet(w) == specCopy[w].target # 0 /\ key.latest # specCopy[w].target

TargetIgnored(w) == FALSE

\* The target is a lower limit: a key that is past it is left alone.
BehindTarget(w) == key.latest < specCopy[w].target

\* A period that is not set, or that cannot be parsed, is not compared.
PeriodMet(want) == want \in {"unset", "odd", key.period}

UpToDate(w) ==
    /\ PeriodMet(specCopy[w].period)
    /\ specCopy[w].minimum \in {0, key.minimum}
    /\ specCopy[w].form = key.form
    /\ ~BehindTarget(w)

Observe(w) ==
    /\ pc[w] = "observe"
    /\ Decide(w, Exists, Exists /\ UpToDate(w))
    /\ UNCHANGED <<api, conn, cache, current, mr, fresh, secret, faults,
                   overrides, discarded, spec, edits, key, asked, tampers,
                   refusals>>
    /\ Remember({})

\* Vault leaves a key that is there as it is.  The least versions are not
\* among the parameters of Create.  Whether deletion_allowed counts at this
\* point is Vault's choice.
MakeKey(w) ==
    IF Exists THEN UNCHANGED key
    ELSE \E deletable \in BOOLEAN :
            key' = [latest |-> 1, minimum |-> 0, period |-> specCopy[w].period,
                    form |-> specCopy[w].form, deletable |-> deletable]

Create(w) ==
    /\ pc[w] = "create"
    /\ MakeKey(w)
    /\ Goto(w, "annotate")
    /\ UNCHANGED <<api, conn, cache, current, mr, fresh, plan, secret, faults,
                   overrides, discarded, spec, edits, asked, tampers, refusals>>
    /\ Remember({})

\* The key is created and the answer is lost.
CreateUnanswered(w) ==
    /\ pc[w] = "create"
    /\ Fault
    /\ MakeKey(w)
    /\ Goto(w, "annotateFailed")
    /\ UNCHANGED <<api, conn, cache, current, mr, fresh, plan, secret,
                   overrides, discarded, spec, edits, asked, tampers, refusals>>
    /\ Remember({})

CreateRefused(w) ==
    /\ pc[w] = "create"
    /\ Refuse
    /\ Goto(w, "annotateFailed")
    /\ UNCHANGED <<api, conn, cache, current, mr, fresh, plan, secret, faults,
                   overrides, discarded, spec, edits, key, asked, tampers>>
    /\ Remember({})

RotationsAtLeastOne(w, count) == count <= specCopy[w].target

\* Another rotation is due when `count` is what the worker makes of the latest
\* version: the number of rotations is fixed before the first one.
RotationsLeft(w, count) == count < specCopy[w].target

\* Update, first request.  Vault refuses a least version that the key has not
\* reached, and Update ends there; without anything to configure there is no
\* request.
Configure(w) ==
    /\ pc[w] = "update"
    /\ LET minimum == specCopy[w].minimum
           period == specCopy[w].period
           sent == minimum # 0 \/ period # "unset"
           accepted == ~sent \/ (Exists /\ minimum <= key.latest)
       IN  /\ key' = IF ~sent \/ ~accepted THEN key
                     ELSE [key EXCEPT
                              !.minimum = IF minimum # 0 THEN minimum ELSE @,
                              !.period = IF period # "unset" THEN period ELSE @]
           /\ Goto(w, IF accepted /\ RotationsLeft(w, seen[w])
                      THEN "rotate" ELSE "status")
    /\ UNCHANGED <<api, conn, cache, current, mr, fresh, plan, secret, faults,
                   overrides, discarded, spec, edits, asked, tampers, refusals>>
    /\ Remember({})

\* One more request of Update.  A key that has gone meanwhile ends the loop.
Rotate(w) ==
    /\ pc[w] = "rotate"
    /\ key' = IF Exists THEN [key EXCEPT !.latest = @ + 1] ELSE key
    /\ Goto(w, IF Exists /\ RotationsLeft(w, seen[w] + 1)
               THEN "rotate" ELSE "status")
    /\ UNCHANGED <<api, conn, cache, current, mr, fresh, plan, secret, faults,
                   overrides, discarded, spec, edits, asked, tampers, refusals>>
    /\ Remember({w})

\* The key is rotated and the answer is lost: the loop ends with an error.
RotateUnanswered(w) ==
    /\ pc[w] = "rotate"
    /\ Exists
    /\ Fault
    /\ key' = [key EXCEPT !.latest = @ + 1]
    /\ Goto(w, "status")
    /\ UNCHANGED <<api, conn, cache, current, mr, fresh, plan, secret,
                   overrides, discarded, spec, edits, asked, tampers, refusals>>
    /\ Remember({})

\* Vault deletes only a key that allows it; anything else is an error.
Delete(w) ==
    /\ pc[w] = "delete"
    /\ key' = IF key.deletable THEN NoKey(key.form) ELSE key
    /\ Goto(w, "status")
    /\ UNCHANGED <<api, conn, cache, current, mr, fresh, plan, secret, faults,
                   overrides, discarded, spec, edits, asked, tampers, refusals>>
    /\ Remember({})

\* Observe, Update and Delete give an error back: the request has done nothing
\* and the rotations before it stand.
CallRefused(w) ==
    /\ pc[w] \in {"observe", "update", "rotate", "delete"}
    /\ Refuse
    /\ Goto(w, "status")
    /\ UNCHANGED <<api, conn, cache, current, mr, fresh, plan, secret, faults,
                   overrides, discarded, spec, edits, key, asked, tampers>>
    /\ Remember({})

----------------------------------------------------------------------------
\* The environment

EditSpec ==
    /\ \E want \in Wants :
          /\ Edit(want)
          /\ asked' = Larger(asked, want.target)
    /\ UNCHANGED <<key, seen, tampers, refusals>>

\* Vault's automatic rotation or an operator rotates the key, or an operator
\* removes it.
Tamper ==
    /\ Exists
    /\ tampers < MaxTampers
    /\ tampers' = tampers + 1
    /\ \/ key' = [key EXCEPT !.latest = @ + 1]
       \/ key' = NoKey(key.form)
    /\ UNCHANGED <<managedVars, specVars, seen, asked, refusals>>

----------------------------------------------------------------------------
ControllerStep(w) ==
    \/ Observe(w)
    \/ Create(w)
    \/ CreateRefused(w)
    \/ Configure(w)
    \/ Rotate(w)
    \/ Delete(w)
    \/ CallRefused(w)

ControllerFault(w) ==
    \/ CreateUnanswered(w)
    \/ RotateUnanswered(w)

Aside == Remember({}) /\ UNCHANGED <<spec, edits, key, asked, tampers, refusals>>

Managing(w) ==
    /\ ReconcilerStep(w) \/ ReconcilerFault(w) \/ SyncCache(w)
    /\ Aside

User ==
    \/ EditSpec
    \/ RequestDelete /\ Aside

Next ==
    \/ \E w \in Workers : Managing(w)
    \/ \E w \in Workers : ControllerStep(w)
    \/ \E w \in Workers : ControllerFault(w)
    \/ User
    \/ Tamper

Spec == Init /\ [][Next]_vars

\* A process keeps working on a queued resource and its cache catches up.
\* Nothing obliges Vault, the user or a failure to act.
Progress(w) ==
    \/ ReconcilerStep(w) /\ Aside
    \/ ControllerStep(w)

Fairness ==
    \A w \in Workers :
        /\ WF_vars(Progress(w))
        /\ WF_vars(SyncCache(w) /\ Aside)

FairSpec == Spec /\ Fairness

----------------------------------------------------------------------------
\* A key is rotated past what was asked for only by others, and by processes
\* that observed it at the same time: each of the latter adds at most one
\* whole way from the first version to the highest target.  Lost answers, errors
\* in the middle of the loop, outdated specifications and crashes add nothing.
RotationsBounded ==
    key.latest <= asked + tampers + (Cardinality(Workers) - 1) * (asked - 1)

\* Vault refuses the least version the specification asks for.
Held == spec.minimum > key.latest

TargetMet == key.latest >= spec.target

\* Once edits and tampering stop, a wanted key is there, has reached its
\* target and is configured, unless its least version holds everything up; all
\* but a period that Go cannot parse, which may stay unwritten.  Then the updates
\* stop too, but for a key of another form and for that least version: rotations
\* by others and a target that was passed cause none.
KeySettles ==
    <>[](/\ Wanted =>
               /\ Exists
               /\ \/ Held
                  \/ /\ TargetMet
                     /\ spec.minimum \in {0, key.minimum}
                     /\ spec.period \in {"unset", "odd", key.period}
         /\ \A w \in Workers : pc[w] = "update" => Held \/ spec.form # key.form)

\* Unless a process goes ahead over a creation that another may still be at, the
\* finalizer is removed only when there is no key: one that Vault has not deleted,
\* or that another process has made meanwhile, keeps the resource.
GoneBeforeReleased == [][Released /\ Undisputed' => key.latest = 0]_vars

\* A deletion that has been asked for ends, unless the key forbids it.
DeletionCompletes == api.deleting ~> ~api.present \/ (Exists /\ ~key.deletable)

\* "When set, the controller rotates the key until its latest version reaches
\* this value": once edits and tampering stop, the target is met.
RotatesToTarget == <>[](Wanted => TargetMet)
=============================================================================
