----------------------------- MODULE NamedKinds -----------------------------
(***************************************************************************)
(* The controllers of the kinds that live in Vault under a name or a path  *)
(* of their specification (policies, mounts, roles, quotas, the            *)
(* configurations of auth methods, ...) over the managed reconciler.       *)
(*                                                                         *)
(* Kinds differ in which fields Observe compares and which ones Create and *)
(* Update write (VaultKinds); one field stands for all those of a class.   *)
(* A field that is not set in the specification is neither compared nor    *)
(* written.  The identifiers of Managed are not used: Ids is empty.        *)
(***************************************************************************)
EXTENDS Specified, VaultKinds

CONSTANTS
    Kinds,        \* the kinds the resource may be of
    Names,        \* names or paths the specification may give
    MaxUpsets     \* bound on changes made in Vault by others, and refusals

Compared == {"kept", "fixed"}
Created  == Classes
Updated  == {"kept", "written"}

ASSUME NamedKindsAssumption ==
    /\ Kinds \subseteq AllKinds
    /\ Names # {}
    /\ MaxUpsets \in Nat

VARIABLES
    kind,       \* the kind of the resource
    vault,      \* the objects in Vault, by name
    owned,      \* the names whose object this resource has written
    renames,    \* edits of the name so far
    upsets      \* changes made in Vault by others, and requests it has refused

counters == <<edits, renames, upsets>>
vars == <<managedVars, specVars, kind, vault, owned, renames, upsets>>

\* "shuffled" is "new" in a form Vault need not give back, such as a list in
\* another order, and "odd" as a duration that Go cannot parse, such as "1d" or
\* a number of seconds; "default" is what Vault stores for a field nobody set.
Values == {"unset", "old", "new", "shuffled", "odd"}

Canonical(value) ==
    IF kind.answers # "verbatim" /\ value \in {"shuffled", "odd"} THEN "new"
                                                                 ELSE value

Stored == {"default"} \cup {Canonical(value) : value \in Values \ {"unset"}}

SpecOf(k) ==
    {want \in [k.fields -> Values] :
        \A f \in k.fields : /\ want[f] = "unset" => f \in k.optional
                            /\ want[f] = "odd" => f \in k.durations}

Specs == [name : Names, want : SpecOf(kind)]

\* The type of the state.  A name the resource has written holds an object,
\* and the objects hold what Vault can store.
TypeOK ==
    /\ ManagedTypeOK
    /\ kind \in Kinds
    /\ SpecifiedTypeOK(Specs)
    /\ DOMAIN vault \subseteq Names
    /\ \A n \in DOMAIN vault : vault[n] \in [kind.fields -> Stored]
    /\ owned \subseteq DOMAIN vault
    /\ renames \in 0 .. edits
    /\ upsets \in 0 .. MaxUpsets

\* An object someone else has made may be there before the resource.
Init ==
    /\ ManagedInit(NewObject)
    /\ conn = NoId
    /\ kind \in Kinds
    /\ spec = [name |-> CHOOSE n \in Names : TRUE,
               want |-> [f \in kind.fields |-> "old"]]
    /\ SpecifiedInit
    /\ vault \in {<<>>, [n \in {spec.name} |->
                            [f \in kind.fields |-> "default"]]}
    /\ owned = {}
    /\ renames = 0 /\ upsets = 0

----------------------------------------------------------------------------
Upset ==
    /\ upsets < MaxUpsets
    /\ upsets' = upsets + 1

DriftedUnset(want, got) == want # got

NeverDrifted(want, got) == FALSE

\* DriftedString and its siblings: a field does not drift that is unset, that is
\* missing from Vault's answer or of another type there, or that holds on either
\* side a duration that cannot be parsed.
Drifted(want, got) ==
    /\ want \notin {"unset", "odd"}
    /\ got \notin {"missing", "odd"}
    /\ want # got

\* What Vault answers for a field of an object.
LeftOut(name, f) ==
    \/ kind.answers = "never"
    \/ /\ kind.answers = "set"
       /\ f \in kind.optional
       /\ vault[name][f] = "default"
Answer(name, f) == IF LeftOut(name, f) THEN "missing" ELSE vault[name][f]

UpToDate(w) ==
    \A f \in kind.fields \cap Compared :
        ~Drifted(specCopy[w].want[f], Answer(specCopy[w].name, f))

ExistsUpToDate(w) == specCopy[w].name \in DOMAIN vault /\ UpToDate(w)

Exists(w) == specCopy[w].name \in DOMAIN vault

\* Only an answer 404 says that there is nothing.
Unknown(w) == kind.style = "strict" /\ ~Exists(w)

Observe(w) ==
    /\ pc[w] = "observe"
    /\ ~Unknown(w)
    /\ Decide(w, Exists(w), Exists(w) /\ UpToDate(w))
    /\ UNCHANGED <<api, conn, cache, current, mr, fresh, secret, faults,
                   overrides, discarded, kind, spec, vault, owned, counters>>
    /\ CarrySpec

WrittenUnset(w, prior, fields) ==
    [f \in kind.fields |-> IF f \in fields THEN Canonical(specCopy[w].want[f])
                                           ELSE prior[f]]

\* The object once the given fields of the specification are written to it.
Written(w, prior, fields) ==
    [f \in kind.fields |->
        IF f \in fields /\ specCopy[w].want[f] # "unset"
        THEN Canonical(specCopy[w].want[f])
        ELSE prior[f]]

\* The fields nobody has set hold Vault's defaults.
Write(w, fields) ==
    LET name == specCopy[w].name
        prior == IF Exists(w) THEN vault[name]
                              ELSE [f \in kind.fields |-> "default"]
    IN  /\ vault' = [n \in DOMAIN vault \cup {name} |->
                        IF n = name THEN Written(w, prior, fields)
                                    ELSE vault[n]]
        /\ owned' = owned \cup {name}

Remove(name) ==
    /\ vault' = [n \in DOMAIN vault \ {name} |-> vault[n]]
    /\ owned' = owned \ {name}

\* Enabling what is there and renewing what is not there are errors.
Creatable(w) ==
    IF Exists(w) THEN kind.style \in {"put"} \cup LeaseStyles
                 ELSE kind.style \notin LeaseStyles

Create(w) ==
    /\ pc[w] = "create"
    /\ Creatable(w)
    /\ Write(w, Created)
    /\ Goto(w, "annotate")
    /\ UNCHANGED <<api, conn, cache, current, mr, fresh, plan, secret, faults,
                   overrides, discarded, kind, spec, counters>>
    /\ CarrySpec

\* The object is created and the answer is lost.
CreateUnanswered(w) ==
    /\ pc[w] = "create"
    /\ Fault
    /\ Creatable(w)
    /\ Write(w, Created)
    /\ Goto(w, "annotateFailed")
    /\ UNCHANGED <<api, conn, cache, current, mr, fresh, plan, secret,
                   overrides, discarded, kind, spec, counters>>
    /\ CarrySpec

\* Vault refuses, because it cannot serve or because the path is in use.
CreateRefused(w) ==
    /\ pc[w] = "create"
    /\ Upset \/ (~Creatable(w) /\ UNCHANGED upsets)
    /\ Goto(w, "annotateFailed")
    /\ UNCHANGED <<api, conn, cache, current, mr, fresh, plan, secret, faults,
                   overrides, discarded, kind, spec, vault, owned, edits,
                   renames>>
    /\ CarrySpec

\* Update of what can only be enabled is Create; to tune what is not there is
\* an error.  (A lease is never updated: Observe finds every one up to date.)
Update(w) ==
    /\ pc[w] = "update"
    /\ \/ kind.style = "put" /\ Write(w, Updated)
       \/ kind.style = "tune" /\ Exists(w) /\ Write(w, Updated)
       \/ kind.style = "enable" /\ ~Exists(w) /\ Write(w, Created)
       \/ /\ kind.style = (IF Exists(w) THEN "enable" ELSE "tune")
          /\ UNCHANGED <<vault, owned>>
    /\ Goto(w, "status")
    /\ UNCHANGED <<api, conn, cache, current, mr, fresh, plan, secret, faults,
                   overrides, discarded, kind, spec, counters>>
    /\ CarrySpec

Delete(w) ==
    /\ pc[w] = "delete"
    /\ IF kind.deletes THEN Remove(specCopy[w].name)
                       ELSE UNCHANGED <<vault, owned>>
    /\ Goto(w, "status")
    /\ UNCHANGED <<api, conn, cache, current, mr, fresh, plan, secret, faults,
                   overrides, discarded, kind, spec, counters>>
    /\ CarrySpec

\* Observe, Update and Delete give an error back without having done anything.
CallRefused(w) ==
    /\ pc[w] \in {"observe", "update", "delete"}
    /\ Upset \/ (pc[w] = "observe" /\ Unknown(w) /\ UNCHANGED upsets)
    /\ Goto(w, "status")
    /\ UNCHANGED <<api, conn, cache, current, mr, fresh, plan, secret, faults,
                   overrides, discarded, kind, spec, vault, owned, edits,
                   renames>>
    /\ CarrySpec

----------------------------------------------------------------------------
\* The environment

\* The user changes a field or the name.  Nothing in the API forbids it: the
\* fields with durations are strings of any form.  The form of a value matters
\* only where it is compared.
EditSpec ==
    /\ \/ \E f \in kind.fields, value \in Values :
             /\ value = "unset" => f \in kind.optional
             /\ value = "odd" => f \in kind.durations
             /\ value = "shuffled" => f \in Compared
             /\ Edit([spec EXCEPT !.want[f] = value])
             /\ UNCHANGED renames
       \/ \E n \in Names :
             /\ Edit([spec EXCEPT !.name = n])
             /\ renames' = renames + 1
    /\ UNCHANGED <<kind, vault, owned, upsets>>

\* An operator removes, resets or makes the object of the specification
\* behind the provider's back, while there is a resource to notice.
Tamper ==
    /\ api.present
    /\ Upset
    /\ \/ spec.name \in DOMAIN vault /\ Remove(spec.name)
       \/ /\ spec.name \in DOMAIN vault
          /\ \E f \in kind.fields :
                vault' = [vault EXCEPT ![spec.name][f] = "default"]
          /\ UNCHANGED owned
       \/ /\ spec.name \notin DOMAIN vault
          /\ vault' = [n \in DOMAIN vault \cup {spec.name} |->
                          IF n = spec.name THEN [f \in kind.fields |-> "default"]
                                           ELSE vault[n]]
          /\ UNCHANGED owned
    /\ UNCHANGED <<managedVars, specVars, kind, renames>>

----------------------------------------------------------------------------
ControllerStep(w) ==
    \/ Observe(w)
    \/ Create(w)
    \/ CreateRefused(w)
    \/ Update(w)
    \/ Delete(w)
    \/ CallRefused(w)

Unmanaged == UNCHANGED <<kind, spec, vault, owned, counters>>

Managing(w) ==
    /\ ReconcilerStep(w) \/ ReconcilerFault(w) \/ SyncCache(w)
    /\ CarrySpec
    /\ Unmanaged

User ==
    \/ EditSpec
    \/ RequestDelete /\ CarrySpec /\ Unmanaged

Next ==
    \/ \E w \in Workers : Managing(w)
    \/ \E w \in Workers : ControllerStep(w)
    \/ \E w \in Workers : CreateUnanswered(w)
    \/ User
    \/ Tamper

Spec == Init /\ [][Next]_vars

\* A process keeps working on a queued resource and its cache catches up.
\* Nothing obliges Vault, the user or a failure to act.
Progress(w) ==
    \/ ReconcilerStep(w) /\ CarrySpec /\ Unmanaged
    \/ ControllerStep(w)

Fairness ==
    \A w \in Workers :
        /\ WF_vars(Progress(w))
        /\ WF_vars(SyncCache(w) /\ CarrySpec /\ Unmanaged)

FairSpec == Spec /\ Fairness

----------------------------------------------------------------------------
\* The stored specification asks for a value and the object does not hold it.
Missed(f) ==
    /\ spec.want[f] # "unset"
    /\ spec.name \in DOMAIN vault => vault[spec.name][f] # Canonical(spec.want[f])

\* Observe cannot tell: Vault does not answer the field, or one of the two
\* durations cannot be parsed.
Incomparable(f) ==
    \/ LeftOut(spec.name, f)
    \/ "odd" \in {spec.want[f], vault[spec.name][f]}

\* Once edits and tampering stop, the object of a wanted resource is there
\* under the name of the last edit, with the last edit of every field that is
\* both compared and updated, whatever failed and whatever cache was read;
\* all but a field that Vault does not answer and a duration that Go cannot
\* parse, which need not be corrected.  A lease that is gone cannot be made
\* again.  Then the updates stop too, except for a field that Update does not
\* write and for a value that Vault gives back in another form.
SpecSettles ==
    <>[](/\ Wanted /\ kind.style \notin LeaseStyles =>
               /\ spec.name \in DOMAIN vault
               /\ \A f \in kind.fields \cap Compared \cap Updated :
                    ~Missed(f) \/ Incomparable(f)
         /\ \A w \in Workers : pc[w] = "update" =>
               \E f \in kind.fields \cap Compared :
                   \/ f \notin Updated /\ Missed(f)
                   \/ spec.want[f] = "shuffled" /\ kind.answers # "verbatim")

\* What the resource has written stays behind in Vault only under a name the
\* specification was changed away from, one object per change.  The last object
\* is no exception with one process; with two, one of them can write it again
\* after the other has deleted it and removed the finalizer.
Strays == owned \ (IF api.present THEN {spec.name} ELSE {})
Rewritten == IF api.present \/ Cardinality(Workers) = 1 THEN 0 ELSE 1
StraysAccounted == Cardinality(Strays) <= renames + Rewritten

\* With one process, the finalizer is removed only when what the resource has
\* written under its present name is not there any more, whatever fails and
\* whatever cache is read; what others have made there since is theirs.
GoneBeforeReleased == [][Released => spec.name \notin owned]_vars

\* A deletion that has been asked for ends: none is pending for ever, unless the
\* kind's Delete does nothing and its configuration is still there, or the lease
\* is gone and Vault does not say so.
DeletionCompletes ==
    <>[](api.present /\ api.deleting =>
            \/ ~kind.deletes /\ spec.name \in DOMAIN vault
            \/ kind.style = "strict" /\ spec.name \notin DOMAIN vault)
=============================================================================
