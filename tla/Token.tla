------------------------------- MODULE Token -------------------------------
(***************************************************************************)
(* The Token controller (internal/controller/token/token.go) over the      *)
(* managed reconciler: a Vault token is created, its accessor is kept      *)
(* under status.atProvider and its value in the connection secret, it is   *)
(* renewed when little of its time to live remains and revoked when the    *)
(* resource is deleted.                                                    *)
(*                                                                         *)
(* An identifier stands for a token together with its accessor.  Time is   *)
(* the age of a token: "due" is below the renewal threshold, "late" is     *)
(* past its end by the clock of the provider while Vault still accepts it, *)
(* and "capped" is due and cannot be extended any more.                    *)
(***************************************************************************)
EXTENDS Managed

CONSTANTS
    Settings,     \* the sets of traits that may hold
    MaxRefusals   \* bound on the requests Vault answers with an error

\*   timed    the specification has a ttl, and one that Go can parse
\*   dated    Vault says when a token ends, in its answer to every lookup
\*   strict   Vault answers the lookup of an accessor it does not know with
\*            another error than 404
Traits == {"timed", "dated", "strict"}

ASSUME TokenAssumption ==
    /\ Settings \subseteq SUBSET Traits
    /\ MaxRefusals \in Nat

VARIABLES
    traits,    \* what holds of the specification and of Vault
    live,      \* the tokens Vault accepts
    created,   \* the tokens this provider has created
    age,       \* where each token is in its time to live
    refusals   \* requests Vault has answered with an error

tokenVars == <<traits, live, created, age, refusals>>
vars == <<managedVars, tokenVars>>

Ages == {"young", "due", "late", "capped"}

\* The type of the state.  The external name keeps its default.
TypeOK ==
    /\ ManagedTypeOK
    /\ traits \in Settings
    /\ live \subseteq created
    /\ created \subseteq Ids
    /\ age \in [Ids -> Ages]
    /\ refusals \in 0 .. MaxRefusals
    /\ api.name = NoId

Init ==
    /\ ManagedInit(NewObject)
    /\ conn = NoId
    /\ traits \in Settings
    /\ live = {}
    /\ created = {}
    /\ age = [id \in Ids |-> "young"]
    /\ refusals = 0

----------------------------------------------------------------------------
Refuse ==
    /\ refusals < MaxRefusals
    /\ refusals' = refusals + 1

\* The age of a token that is gone means nothing.
Die(id) ==
    /\ live' = live \ {id}
    /\ age' = [i \in Ids |-> IF i = id THEN "young" ELSE age[i]]

NeverDue(id) == FALSE

\* Nothing remains or, if that can be known without a time to live in the
\* specification, less than renewBefore of it.
NeedsUpdate(id) ==
    \/ age[id] = "late"
    \/ age[id] \in {"due", "capped"} /\ "timed" \in traits

ExistsRenewable(accessor) == accessor \in live /\ age[accessor] # "capped"

Exists(accessor) == accessor \in live

\* Only an answer 404 says that there is no token; without an accessor no
\* question is asked.
Unknown(accessor) ==
    "strict" \in traits /\ accessor \notin live \cup {NoId}

Observe(w) ==
    /\ pc[w] = "observe"
    /\ ~Unknown(mr[w].status)
    /\ LET accessor == mr[w].status
       IN  Decide(w, Exists(accessor), Exists(accessor) /\ ~NeedsUpdate(accessor))
    /\ UNCHANGED <<api, conn, cache, current, mr, fresh, secret,
                   faults, overrides, discarded, tokenVars>>

ForgetAccessor(w, id) == mr

AccessorAsName(w, id) == [mr EXCEPT ![w].name = id]

SetAccessor(w, id) == [mr EXCEPT ![w].status = id]

Create(w) ==
    /\ pc[w] = "create"
    /\ \E id \in Ids \ created :
          /\ live' = live \cup {id}
          /\ created' = created \cup {id}
          /\ mr' = SetAccessor(w, id)
          /\ secret' = [secret EXCEPT ![w] = id]
    /\ Goto(w, "annotate")
    /\ UNCHANGED <<api, conn, cache, current, fresh, plan,
                   faults, overrides, discarded, traits, age, refusals>>

\* The token is created and the answer is lost.
CreateUnanswered(w) ==
    /\ pc[w] = "create"
    /\ Fault
    /\ \E id \in Ids \ created :
          /\ live' = live \cup {id}
          /\ created' = created \cup {id}
    /\ Goto(w, "annotateFailed")
    /\ UNCHANGED <<api, conn, cache, current, mr, fresh, plan, secret,
                   overrides, discarded, traits, age, refusals>>

CreateRefused(w) ==
    /\ pc[w] = "create"
    /\ Refuse
    /\ Goto(w, "annotateFailed")
    /\ UNCHANGED <<api, conn, cache, current, mr, fresh, plan, secret,
                   faults, overrides, discarded, traits, live, created, age>>

\* Vault extends the time to live until the maximum is reached.  Nothing is
\* published: the connection details of Update are empty.
Update(w) ==
    /\ pc[w] = "update"
    /\ LET accessor == mr[w].status
       IN  age' = IF accessor \notin live \/ age[accessor] = "capped" THEN age
                  ELSE [age EXCEPT ![accessor] = "young"]
    /\ Goto(w, "status")
    /\ UNCHANGED <<api, conn, cache, current, mr, fresh, plan, secret,
                   faults, overrides, discarded, traits, live, created, refusals>>

Delete(w) ==
    /\ pc[w] = "delete"
    /\ Die(mr[w].status)
    /\ Goto(w, "status")
    /\ UNCHANGED <<api, conn, cache, current, mr, fresh, plan, secret,
                   faults, overrides, discarded, traits, created, refusals>>

\* Observe, Update and Delete give an error back without having done anything.
CallRefused(w) ==
    /\ pc[w] \in {"observe", "update", "delete"}
    /\ \/ Refuse
       \/ pc[w] = "observe" /\ Unknown(mr[w].status) /\ UNCHANGED refusals
    /\ Goto(w, "status")
    /\ UNCHANGED <<api, conn, cache, current, mr, fresh, plan, secret,
                   faults, overrides, discarded, traits, live, created, age>>

\* Time passes: the threshold is crossed, then the end by a clock that is fast
\* or the maximum is reached.  A token whose end is not known shows no age.
Age(id) ==
    /\ id \in live
    /\ "dated" \in traits
    /\ \E next \in CASE age[id] = "young" -> {"due"}
                      [] age[id] = "due" -> {"late", "capped"}
                      [] OTHER -> {} :
          age' = [age EXCEPT ![id] = next]
    /\ UNCHANGED <<managedVars, traits, live, created, refusals>>

\* The time to live ends, or an operator revokes the token.  The bound leaves
\* a token for the replacement and for each one a failure can still cost.
Expire(id) ==
    /\ id \in live
    /\ Cardinality(Ids \ created) + faults > MaxFaults
    /\ Die(id)
    /\ UNCHANGED <<managedVars, traits, created, refusals>>

----------------------------------------------------------------------------
ControllerStep(w) ==
    \/ Observe(w)
    \/ Create(w)
    \/ CreateRefused(w)
    \/ Update(w)
    \/ Delete(w)
    \/ CallRefused(w)

Managing(w) ==
    /\ ReconcilerStep(w) \/ ReconcilerFault(w) \/ SyncCache(w)
    /\ UNCHANGED tokenVars

\* The connection secret is never read here, so its deletion plays no part.
User ==
    /\ RequestDelete
    /\ UNCHANGED tokenVars

Next ==
    \/ \E w \in Workers : Managing(w)
    \/ \E w \in Workers : ControllerStep(w)
    \/ \E w \in Workers : CreateUnanswered(w)
    \/ User
    \/ \E id \in Ids : Age(id)
    \/ \E id \in Ids : Expire(id)

Spec == Init /\ [][Next]_vars

\* A process keeps working on a queued resource and its cache catches up.
\* Nothing obliges Vault, the user or a failure to act.
Progress(w) ==
    \/ ReconcilerStep(w) /\ UNCHANGED tokenVars
    \/ ControllerStep(w)

Fairness ==
    \A w \in Workers :
        /\ WF_vars(Progress(w))
        /\ WF_vars(SyncCache(w) /\ UNCHANGED tokenVars)

FairSpec == Spec /\ Fairness

----------------------------------------------------------------------------
\* From Create to the stored status, the accessor is in a worker's memory.
InHand == {mr[w].status : w \in {v \in Workers : secret[v] # NoId}}

Recorded == IF api.present THEN {api.status} ELSE {}

\* Tokens that work and that neither the resource nor a worker knows: nothing
\* will ever revoke them.
Orphans == live \ (InHand \cup Recorded)

\* A working token is lost only to an infrastructure failure, to a reconcile
\* that overrides a pending creation, or with a status that was not stored
\* because the resource had changed, and each of these costs at most one.
LeaksAccounted == Cardinality(Orphans) <= faults + overrides + discarded

\* The life of a token as this module tells it.
LifeOf(id) ==
    IF id \notin created THEN "new"
    ELSE IF id \notin live THEN "dead"
    ELSE IF id \in Orphans THEN "lost"
    ELSE "held"

Abstract == INSTANCE Credentials WITH
    state <- [id \in Ids |-> LifeOf(id)],
    mishaps <- faults + overrides + discarded

\* The controller implements the store of credentials: a token is issued once,
\* is held until it ends or is lost, is not found again once it is lost, and
\* every loss is paid for.
ImplementsCredentials == Abstract!Spec

\* Whatever fails and whichever process does it, the finalizer is removed only
\* when the recorded token does not work any more.
RevokedBeforeReleased == [][Released => api.status \notin live]_vars

\* A deletion that has been asked for ends, whatever failed before it: none is
\* pending for ever, unless the recorded token is gone (Delete itself may have
\* revoked it) and Vault does not say so with a 404.
DeletionCompletes ==
    <>[](api.present /\ api.deleting => Unknown(api.status))

\* The ages at which a token can be seen to need its renewal.
Overdue == {"late"} \cup (IF "timed" \in traits THEN {"due"} ELSE {})

\* While the resource is wanted it ends up with a working token, unless the
\* recorded one is gone and Vault does not say so with a 404; and whenever the
\* recorded one can be seen to need its renewal it is renewed, unless it is
\* gone or not wanted any more.
TokenProvided ==
    /\ <>[](api.present /\ ~api.deleting =>
                api.status \in live \/ Unknown(api.status))
    /\ \A id \in Ids :
         (id \in live /\ api.status = id /\ age[id] \in Overdue)
             ~> (id \notin live \/ age[id] \notin Overdue \/ api.deleting)
=============================================================================
