--------------------------- MODULE AppRoleSecretID ---------------------------
(***************************************************************************)
(* The AppRoleSecretID controller                                          *)
(* (internal/controller/approlesecretid/approlesecretid.go) over the       *)
(* managed reconciler: a SecretID is generated in Vault, its accessor is   *)
(* kept in the external-name annotation, the SecretID itself goes to the   *)
(* connection secret and nowhere else.                                     *)
(*                                                                         *)
(* An identifier stands for a SecretID together with its accessor.  Update *)
(* has no action: Observe reports every existing SecretID as up to date,   *)
(* so the reconciler never calls it.  status.atProvider.secretId is read   *)
(* by the code and written by none of it, so it is always empty here; the  *)
(* role id in the status is left out.                                      *)
(***************************************************************************)
EXTENDS Managed

CONSTANTS
    Legacy,       \* credentials published before the annotation was lost
    MaxRefusals   \* bound on the requests Vault answers with an error

ASSUME SecretIDAssumption ==
    /\ Legacy \subseteq Ids
    /\ MaxRefusals \in Nat

VARIABLES
    live,       \* the credentials Vault accepts
    generated,  \* the credentials this provider has generated
    refusals    \* requests Vault has answered with an error

vars == <<managedVars, live, generated, refusals>>

\* The type of the state.
TypeOK ==
    /\ ManagedTypeOK
    /\ live \subseteq Ids
    /\ generated \subseteq Ids
    /\ refusals \in 0 .. MaxRefusals

\* A new resource, or a managed one whose annotation is lost while its
\* connection secret still holds a credential.
Init ==
    /\ \/ ManagedInit(NewObject) /\ conn = NoId
       \/ ManagedInit([NewObject EXCEPT !.finalizer = TRUE]) /\ conn \in Legacy
    /\ live = {conn} \ {NoId}
    /\ generated = {}
    /\ refusals = 0

----------------------------------------------------------------------------
\* The accessor Observe looks up and Delete destroys: the external name or,
\* while that is the default, what the connection secret holds (getSecretID).
AnnotationOnly(object, published) == object.name

SecretOnly(object, published) == published

Accessor(object, published) ==
    IF object.name # NoId THEN object.name ELSE published

Refuse ==
    /\ refusals < MaxRefusals
    /\ refusals' = refusals + 1

\* Observe reports every SecretID that exists as up to date, so that no
\* reconcile comes to the Update of the controller.
UpToDate(w) == TRUE

Observe(w) ==
    /\ pc[w] = "observe"
    /\ Decide(w, Accessor(mr[w], conn) \in live, UpToDate(w))
    /\ UNCHANGED <<api, conn, cache, current, mr, fresh, secret,
                   faults, overrides, discarded, live, generated, refusals>>

NoExternalName(w, id) == mr

SetExternalName(w, id) == [mr EXCEPT ![w].name = id]

\* Create, first request.  The external name is set before anything else can
\* fail.
Generate(w) ==
    /\ pc[w] = "create"
    /\ \E id \in Ids \ (generated \cup Legacy) :
          /\ live' = live \cup {id}
          /\ generated' = generated \cup {id}
          /\ mr' = SetExternalName(w, id)
          /\ secret' = [secret EXCEPT ![w] = id]
    /\ Goto(w, "readrole")
    /\ UNCHANGED <<api, conn, cache, current, fresh, plan,
                   faults, overrides, discarded, refusals>>

\* The SecretID is generated and the answer is lost.
GenerateUnanswered(w) ==
    /\ pc[w] = "create"
    /\ Fault
    /\ \E id \in Ids \ (generated \cup Legacy) :
          /\ live' = live \cup {id}
          /\ generated' = generated \cup {id}
    /\ Goto(w, "annotateFailed")
    /\ UNCHANGED <<api, conn, cache, current, mr, fresh, plan, secret,
                   overrides, discarded, refusals>>

\* Create, second request.
ReadRoleID(w) ==
    /\ pc[w] = "readrole"
    /\ Goto(w, "annotate")
    /\ UNCHANGED <<api, conn, cache, current, mr, fresh, plan, secret,
                   faults, overrides, discarded, live, generated, refusals>>

\* A failed Create returns no connection details.  The external name it has
\* set is stored all the same.
CreateRefused(w) ==
    /\ pc[w] \in {"create", "readrole"}
    /\ Refuse
    /\ secret' = [secret EXCEPT ![w] = NoId]
    /\ Goto(w, "annotateFailed")
    /\ UNCHANGED <<api, conn, cache, current, mr, fresh, plan,
                   faults, overrides, discarded, live, generated>>

\* A credential Vault no longer knows is an error here; the status is stored
\* and the resource requeued in both cases.
Delete(w) ==
    /\ pc[w] = "delete"
    /\ live' = live \ {Accessor(mr[w], conn)}
    /\ Goto(w, "status")
    /\ UNCHANGED <<api, conn, cache, current, mr, fresh, plan, secret,
                   faults, overrides, discarded, generated, refusals>>

\* Observe and Delete give an error back without having done anything.
CallRefused(w) ==
    /\ pc[w] \in {"observe", "delete"}
    /\ Refuse
    /\ Goto(w, "status")
    /\ UNCHANGED <<api, conn, cache, current, mr, fresh, plan, secret,
                   faults, overrides, discarded, live, generated>>

\* getSecretID takes a connection secret it cannot read for an empty one:
\* Observe then reports that nothing exists, and Delete destroys nothing.
SecretUnread(w) ==
    /\ pc[w] \in {"observe", "delete"}
    /\ mr[w].name = NoId
    /\ Fault
    /\ IF pc[w] = "observe" THEN Decide(w, FALSE, UpToDate(w))
       ELSE Goto(w, "status") /\ UNCHANGED plan
    /\ UNCHANGED <<api, conn, cache, current, mr, fresh, secret,
                   overrides, discarded, live, generated, refusals>>

\* A credential's time to live ends.  The bound leaves an identifier for the
\* replacement and for each credential a failure can still cost.
Expire(id) ==
    /\ id \in live
    /\ Cardinality(Ids \ (generated \cup Legacy)) > MaxFaults - faults
    /\ live' = live \ {id}
    /\ UNCHANGED <<managedVars, generated, refusals>>

----------------------------------------------------------------------------
ControllerStep(w) ==
    \/ Observe(w)
    \/ Generate(w)
    \/ ReadRoleID(w)
    \/ CreateRefused(w)
    \/ Delete(w)
    \/ CallRefused(w)

ControllerFault(w) ==
    \/ GenerateUnanswered(w)
    \/ SecretUnread(w)

Managing(w) ==
    /\ ReconcilerStep(w) \/ ReconcilerFault(w) \/ SyncCache(w)
    /\ UNCHANGED <<live, generated, refusals>>

User ==
    /\ UserStep
    /\ UNCHANGED <<live, generated, refusals>>

Next ==
    \/ \E w \in Workers : Managing(w)
    \/ \E w \in Workers : ControllerStep(w)
    \/ \E w \in Workers : ControllerFault(w)
    \/ User
    \/ \E id \in Ids : Expire(id)

Spec == Init /\ [][Next]_vars

\* A process keeps working on a queued resource and its cache catches up.
\* Nothing obliges Vault, the user or a failure to act.
Progress(w) ==
    \/ ReconcilerStep(w) /\ UNCHANGED <<live, generated, refusals>>
    \/ ControllerStep(w)

Fairness ==
    \A w \in Workers :
        /\ WF_vars(Progress(w))
        /\ WF_vars(SyncCache(w) /\ UNCHANGED <<live, generated, refusals>>)

FairSpec == Spec /\ Fairness

----------------------------------------------------------------------------
Creating(w) == pc[w] \in {"create", "readrole", "annotate", "annotateFailed"}

InHand == {mr[w].name : w \in {v \in Workers : Creating(v)}}

Recorded == IF api.present THEN {api.name} ELSE {}

\* Credentials that work and that neither the resource nor a worker knows:
\* nothing will ever destroy them.
Orphans == (live \cap generated) \ (InHand \cup Recorded)

\* A working credential is lost only to an infrastructure failure, or to a
\* reconcile that went ahead while a creation was pending, and each of these
\* costs at most one: the order "set the external name, then read the role
\* id", the optimistic lock before Create and the accessor-first Delete.
LeaksAccounted == Cardinality(Orphans) <= faults + overrides

\* The life of a credential as this module tells it.
LifeOf(id) ==
    IF id \notin generated THEN "new"
    ELSE IF id \notin live THEN "dead"
    ELSE IF id \in Orphans THEN "lost"
    ELSE "held"

Abstract == INSTANCE Credentials WITH
    Ids <- Ids \ Legacy,
    state <- [id \in Ids \ Legacy |-> LifeOf(id)],
    mishaps <- faults + overrides

\* The controller implements the store of credentials: whatever the processes
\* do at the same time, a SecretID is issued once, is held until it ends or is
\* lost, is not found again once it is lost, and every loss is paid for.
ImplementsCredentials == Abstract!Spec

\* A credential found in the connection secret of a resource without an
\* external name is adopted, and no second one is generated beside it, unless
\* a failure hid the first one.
LegacyAdopted ==
    conn \in Legacy \cap live /\ faults = 0 => generated = {}

\* As long as no process goes ahead over the creation of another, a published
\* credential that works is the one the resource leads to, and it is destroyed
\* before the resource is gone; a failure can make the provider forget only an
\* adopted one.
PublishedIsTracked ==
    Undisputed /\ conn \in live =>
        \/ api.present /\ Accessor(api, conn) = conn
        \/ conn \in Legacy /\ faults > 0

\* Whatever fails, whichever process does it and whatever has happened to the
\* connection secret, the finalizer is removed only when the SecretID of the
\* external name does not work any more.
DestroyedBeforeReleased == [][Released => api.name \notin live]_vars

\* A deletion that has been asked for ends, whatever failed before it.
DeletionCompletes == api.deleting ~> ~api.present

\* While the resource is wanted it ends up with a working credential.
CredentialProvided ==
    <>[](api.present /\ ~api.deleting => Accessor(api, conn) \in live)

\* "The generated SecretID and accessor are automatically written to a
\* Kubernetes connection secret": at rest, without any infrastructure failure
\* and with nobody deleting that secret, a working credential is published.
RecordedIsPublished ==
    (\A w \in Workers : pc[w] = "idle") /\ faults = 0
        /\ api.present /\ api.name \in live => conn = api.name

SpecSecretKept == Init /\ [][Next /\ ~DeleteSecret]_vars
=============================================================================
