------------------------------ MODULE Managed ------------------------------
(***************************************************************************)
(* The reconciler of crossplane-runtime (managed.Reconciler) as the        *)
(* controllers of internal/controller use it: one managed resource, the    *)
(* API server that stores it, the informer caches it is read from, the     *)
(* connection secret, and the workers (provider processes) that reconcile  *)
(* it.  The library's source is not part of the repository: its actions    *)
(* are external, and only the options the controllers choose are theirs.   *)
(*                                                                         *)
(* A controller extends this module with the state it keeps in Vault and   *)
(* with its Observe, Create, Update and Delete, each Vault request one     *)
(* step.  Between two steps of a worker anything may happen: another       *)
(* worker, the user, Vault, the end of the process.                        *)
(***************************************************************************)
EXTENDS Naturals, FiniteSets

CONSTANTS
    Workers,      \* provider processes; leader election is off by default
    Ids,          \* identifiers Vault can hand out (accessors, serials)
    NoId,         \* "nothing recorded"
    MaxFaults,    \* bound on the infrastructure failures of a behaviour
    MaxOverrides  \* bound on the reconciles that override a pending creation

ASSUME ManagedAssumption ==
    /\ IsFiniteSet(Workers)
    /\ NoId \notin Ids
    /\ MaxFaults \in Nat
    /\ MaxOverrides \in Nat

VARIABLES
    api,       \* the managed resource as the API server stores it
    conn,      \* the credential in the connection secret
    cache,     \* per worker, the resource as its informer cache holds it
    current,   \* the workers whose cache holds the latest resource version
    mr,        \* per worker, the copy the current reconcile works on
    fresh,     \* the workers whose copy has the latest resource version
    pc,        \* per worker, the next step of the current reconcile
    plan,      \* per worker, where to continue once the finalizer is set
    secret,    \* per worker, the connection details Create or Update returned
    faults,    \* crashes, lost answers, failed API calls and statuses reset
    overrides, \* reconciles that went ahead over a pending creation
    discarded  \* identifiers lost with a status that was not stored

managedVars == <<api, conn, cache, current, mr, fresh, pc, plan, secret,
                 faults, overrides, discarded>>

IdOrNone == Ids \cup {NoId}

\* `name` is the external-name annotation (NoId while it is the default, the
\* resource's own name), `status` the identifier under status.atProvider, and
\* `pending` says the external-create-pending annotation is the latest one.
Object == [present : BOOLEAN, deleting : BOOLEAN, finalizer : BOOLEAN,
           pending : BOOLEAN, name : IdOrNone, status : IdOrNone]

Steps == {"idle", "observe", "finalizer", "pend", "create", "readrole",
          "annotate", "annotateFailed", "publish", "update", "rotate",
          "issue", "readurls", "readcrl", "urls", "crl", "updatecrl", "write",
          "status", "delete", "unfinalize"}

ManagedTypeOK ==
    /\ api \in Object
    /\ conn \in IdOrNone
    /\ cache \in [Workers -> Object]
    /\ current \subseteq Workers
    /\ mr \in [Workers -> Object]
    /\ fresh \subseteq Workers
    /\ pc \in [Workers -> Steps]
    /\ plan \in [Workers -> {"pend", "update", "status"}]
    /\ secret \in [Workers -> IdOrNone]
    /\ faults \in 0 .. MaxFaults
    /\ overrides \in 0 .. MaxOverrides
    /\ discarded \in Nat

NewObject == [present |-> TRUE, deleting |-> FALSE, finalizer |-> FALSE,
              pending |-> FALSE, name |-> NoId, status |-> NoId]

ManagedInit(object) ==
    /\ api = object
    /\ cache = [w \in Workers |-> object]
    /\ current = Workers
    /\ mr = [w \in Workers |-> object]
    /\ fresh = {}
    /\ pc = [w \in Workers |-> "idle"]
    /\ plan = [w \in Workers |-> "status"]
    /\ secret = [w \in Workers |-> NoId]
    /\ faults = 0
    /\ overrides = 0
    /\ discarded = 0

----------------------------------------------------------------------------
\* Vocabulary of the actions

NeedsCompletedCreate == FALSE

\* Every Setup passes managed.WithDeterministicExternalName(true): a creation
\* that was begun and never reported does not stop the reconciler.
DeterministicExternalName == TRUE

Goto(w, step) == pc' = [pc EXCEPT ![w] = step]

\* The reconcile ends: what the worker had in memory is gone.
Finish(w) ==
    /\ Goto(w, "idle")
    /\ mr' = [mr EXCEPT ![w] = NewObject]
    /\ secret' = [secret EXCEPT ![w] = NoId]

\* A stored change gets a new resource version: every cache and every copy
\* but those of `latest` is outdated.
Store(object, latest) ==
    /\ api' = object
    /\ current' = {}
    /\ fresh' = latest

Fault ==
    /\ faults < MaxFaults
    /\ faults' = faults + 1

\* Count one more reconcile that ignores the pending creation of its copy.
CountOverride(w) ==
    IF mr[w].pending
    THEN overrides < MaxOverrides /\ overrides' = overrides + 1
    ELSE UNCHANGED overrides

\* Count one more new identifier of a copy whose status is dropped.
CountDiscarded(w) ==
    discarded' = IF mr[w].status # api.status /\ secret[w] # NoId
                 THEN discarded + 1 ELSE discarded

----------------------------------------------------------------------------
\* The reconcile loop

Reconcile(w) ==
    /\ pc[w] = "idle"
    /\ cache[w].present
    /\ DeterministicExternalName \/ ~cache[w].pending
    /\ mr' = [mr EXCEPT ![w] = cache[w]]
    /\ fresh' = IF w \in current THEN fresh \cup {w} ELSE fresh \ {w}
    /\ Goto(w, "observe")
    /\ UNCHANGED <<api, conn, cache, current, plan, secret,
                   faults, overrides, discarded>>

\* What the reconciler does with the answer of Observe.
Decide(w, exists, upToDate) ==
    /\ Goto(w, IF mr[w].deleting
               THEN IF exists THEN "delete" ELSE "unfinalize"
               ELSE "finalizer")
    /\ plan' = [plan EXCEPT ![w] = IF ~exists THEN "pend"
                                   ELSE IF upToDate THEN "status"
                                   ELSE "update"]

AddFinalizer(w) ==
    /\ pc[w] = "finalizer"
    /\ \/ /\ mr[w].finalizer
          /\ UNCHANGED <<api, current, fresh, mr>>
       \/ /\ ~mr[w].finalizer
          /\ w \in fresh
          /\ Store([api EXCEPT !.finalizer = TRUE], {w})
          /\ mr' = [mr EXCEPT ![w].finalizer = TRUE]
    /\ Goto(w, plan[w])
    /\ plan' = [plan EXCEPT ![w] = "status"]
    /\ UNCHANGED <<conn, cache, secret, faults, overrides, discarded>>

\* The annotation is written with a plain update, so that a copy read from an
\* outdated cache cannot create anything.
MarkCreatePending(w) ==
    /\ pc[w] = "pend"
    /\ w \in fresh
    /\ CountOverride(w)
    /\ Store([api EXCEPT !.pending = TRUE], {w})
    /\ mr' = [mr EXCEPT ![w].pending = TRUE]
    /\ Goto(w, "create")
    /\ UNCHANGED <<conn, cache, plan, secret, faults, discarded>>

RemoveFinalizer(w) ==
    /\ pc[w] = "unfinalize"
    /\ w \in fresh
    /\ CountOverride(w)
    /\ Store([api EXCEPT !.present = FALSE, !.finalizer = FALSE], {})
    /\ Finish(w)
    /\ UNCHANGED <<conn, cache, plan, faults, discarded>>

\* A write of an outdated copy is refused and the resource is requeued.
Conflict(w) ==
    /\ \/ pc[w] \in {"pend", "unfinalize"}
       \/ pc[w] = "finalizer" /\ ~mr[w].finalizer
    /\ w \notin fresh
    /\ Finish(w)
    /\ plan' = [plan EXCEPT ![w] = "status"]
    /\ UNCHANGED <<api, conn, cache, current, fresh,
                   faults, overrides, discarded>>

\* Critical annotations are retried until they are stored, whatever the
\* version of the copy.  The answer can reset the status of the copy to the
\* stored one: the library promises to keep the annotations only.
SaveAnnotations(w) ==
    /\ pc[w] \in {"annotate", "annotateFailed"}
    /\ api.present
    /\ Store([api EXCEPT !.name = mr[w].name, !.pending = FALSE], {w})
    /\ \/ /\ mr' = [mr EXCEPT ![w] = [api' EXCEPT !.status = mr[w].status]]
          /\ UNCHANGED faults
       \/ /\ Fault
          /\ mr' = [mr EXCEPT ![w] = api']
    /\ Goto(w, IF pc[w] = "annotate" THEN "publish" ELSE "status")
    /\ UNCHANGED <<conn, cache, plan, secret, overrides, discarded>>

\* ... and given up when the retries fail or the resource is gone.
LoseAnnotations(w) ==
    /\ pc[w] \in {"annotate", "annotateFailed"}
    /\ IF api.present THEN Fault ELSE UNCHANGED faults
    /\ Goto(w, "status")
    /\ UNCHANGED <<api, conn, cache, current, mr, fresh, plan, secret,
                   overrides, discarded>>

PublishConnection(w) ==
    /\ pc[w] = "publish"
    /\ conn' = IF secret[w] = NoId THEN conn ELSE secret[w]
    /\ Goto(w, "status")
    /\ UNCHANGED <<api, cache, current, mr, fresh, plan, secret,
                   faults, overrides, discarded>>

LosePublication(w) ==
    /\ pc[w] = "publish"
    /\ Fault
    /\ Goto(w, "status")
    /\ UNCHANGED <<api, conn, cache, current, mr, fresh, plan, secret,
                   overrides, discarded>>

\* Conditions may or may not have changed, so an unchanged identifier may or
\* may not be a new resource version.
SaveStatus(w) ==
    /\ pc[w] = "status"
    /\ w \in fresh
    /\ \/ /\ mr[w].status = api.status
          /\ fresh' = fresh \ {w}
          /\ UNCHANGED <<api, current>>
       \/ Store([api EXCEPT !.status = mr[w].status], {})
    /\ Finish(w)
    /\ UNCHANGED <<conn, cache, plan, faults, overrides, discarded>>

StatusConflict(w) ==
    /\ pc[w] = "status"
    /\ w \notin fresh
    /\ CountDiscarded(w)
    /\ Finish(w)
    /\ UNCHANGED <<api, conn, cache, current, fresh, plan,
                   faults, overrides>>

----------------------------------------------------------------------------
\* The environment

\* The process ends, or the API server answers an update with an error.
Abort(w) ==
    /\ pc[w] # "idle"
    /\ Fault
    /\ Finish(w)
    /\ fresh' = fresh \ {w}
    /\ plan' = [plan EXCEPT ![w] = "status"]
    /\ UNCHANGED <<api, conn, cache, current, overrides, discarded>>

SyncCache(w) ==
    /\ w \notin current
    /\ cache' = [cache EXCEPT ![w] = api]
    /\ current' = current \cup {w}
    /\ UNCHANGED <<api, conn, mr, fresh, pc, plan, secret,
                   faults, overrides, discarded>>

RequestDelete ==
    /\ api.present
    /\ ~api.deleting
    /\ api' = IF api.finalizer THEN [api EXCEPT !.deleting = TRUE]
                               ELSE [api EXCEPT !.present = FALSE]
    /\ current' = {}
    /\ fresh' = {}
    /\ UNCHANGED <<conn, cache, mr, pc, plan, secret,
                   faults, overrides, discarded>>

DeleteSecret ==
    /\ conn # NoId
    /\ conn' = NoId
    /\ UNCHANGED <<api, cache, current, mr, fresh, pc, plan, secret,
                   faults, overrides, discarded>>

----------------------------------------------------------------------------
\* What a controller adds to its own steps

ReconcilerStep(w) ==
    \/ Reconcile(w)
    \/ AddFinalizer(w)
    \/ MarkCreatePending(w)
    \/ RemoveFinalizer(w)
    \/ Conflict(w)
    \/ SaveAnnotations(w)
    \/ PublishConnection(w)
    \/ SaveStatus(w)
    \/ StatusConflict(w)

ReconcilerFault(w) ==
    \/ LoseAnnotations(w)
    \/ LosePublication(w)
    \/ Abort(w)

UserStep ==
    \/ RequestDelete
    \/ DeleteSecret

----------------------------------------------------------------------------
\* A step that removes the finalizer: nobody looks at the resource again.
Released == api.finalizer /\ ~api'.finalizer

\* No process has gone ahead over a creation that another may still be at.
Undisputed == overrides = 0 \/ Cardinality(Workers) = 1
=============================================================================
