----------------------------- MODULE Connection -----------------------------
(***************************************************************************)
(* How every controller finds its Vault (internal/clients/connect.go and   *)
(* GetConfig in vault.go): at the start of each reconcile the use of the   *)
(* ProviderConfig is recorded, the ProviderConfig is looked up in          *)
(* crossplane-system and then in the namespace of the resource, its token  *)
(* is read, and a client is made that lasts for this reconcile.            *)
(*                                                                         *)
(* The resource is any one that Observe finds up to date as soon as it is  *)
(* there.  A Vault stands for an address with its Vault namespace and TLS  *)
(* settings.  The identifiers of Managed are not used.                     *)
(***************************************************************************)
EXTENDS Specified

CONSTANTS
    Vaults,       \* the Vaults a ProviderConfig may lead to
    Settings,     \* the ProviderConfigs there may be at first
    Refs,         \* the references the specification may give
    MaxChanges,   \* bound on the changes of ProviderConfigs
    MaxRefusals   \* bound on the requests Vault answers with an error

Names == {"default", "other"}
Places == {"system", "own"}
Tokens == {"old", "new"}

\* "broken" has no secret, no such key in it, another source of credentials
\* or certificates that cannot be parsed.
Configs == Vaults \cup {"none", "broken"}

ASSUME ConnectionAssumption ==
    /\ Vaults # {}
    /\ Settings \subseteq [Places \X Names -> Configs]
    /\ "unset" \in Refs /\ Refs \subseteq Names \cup {"unset"}
    /\ {MaxChanges, MaxRefusals} \subseteq Nat

VARIABLES
    config,      \* the ProviderConfigs, by place and name
    restricted,  \* whether WATCH_NAMESPACE keeps the system namespace away
    token,       \* the token in the secret the ProviderConfigs refer to
    accepted,    \* the token the Vaults accept
    client,      \* per worker, how far it has come to a client
    usage,       \* the ProviderConfig the ProviderConfigUsage names
    owned,       \* the Vaults that hold the object this resource has created
    changes,     \* changes of ProviderConfigs so far
    refusals     \* requests Vault has answered with an error

setting == <<config, restricted, token, accepted, changes>>
world == <<usage, owned>>
vars == <<managedVars, specVars, setting, client, world, refusals>>

Client(step, vault, with) == [step |-> step, vault |-> vault, with |-> with]

NoClient == Client("track", "none", "old")

\* The type of the state.  A worker has a client for one reconcile only, and
\* gets to what follows Observe by a Vault that it has been led to.
TypeOK ==
    /\ ManagedTypeOK
    /\ SpecifiedTypeOK(Refs)
    /\ config \in [Places \X Names -> Configs]
    /\ restricted \in BOOLEAN
    /\ {token, accepted} \subseteq Tokens
    /\ client \in [Workers -> [step : {"track", "find", "read", "ready"},
                               vault : Configs, with : Tokens]]
    /\ \A w \in Workers :
          IF pc[w] = "idle" THEN client[w] = NoClient
          ELSE /\ client[w].step = "ready" => client[w].vault \in Vaults
               /\ pc[w] \in {"finalizer", "pend", "create", "delete", "unfinalize"}
                    => client[w].step = "ready"
    /\ usage \in Names \cup {"none"}
    /\ owned \subseteq Vaults
    /\ changes \in 0 .. MaxChanges
    /\ refusals \in 0 .. MaxRefusals

Init ==
    /\ ManagedInit(NewObject)
    /\ conn = NoId
    /\ spec = "unset"
    /\ SpecifiedInit
    /\ config \in Settings
    /\ restricted \in BOOLEAN
    /\ token = "old" /\ accepted = "old"
    /\ client = [w \in Workers |-> NoClient]
    /\ usage = "none"
    /\ owned = {}
    /\ changes = 0 /\ refusals = 0

----------------------------------------------------------------------------
Refuse ==
    /\ refusals < MaxRefusals
    /\ refusals' = refusals + 1

\* A resource without a reference uses the ProviderConfig named "default".
ConfigName(ref) == IF ref = "unset" THEN "default" ELSE ref

At(w, step) == pc[w] = "observe" /\ client[w].step = step

\* The use is recorded for the ProviderConfig that is referred to.
TrackUsage(w) ==
    /\ At(w, "track")
    /\ usage' = IF specCopy[w] = "unset" THEN usage ELSE specCopy[w]
    /\ client' = [client EXCEPT ![w].step = "find"]
    /\ UNCHANGED <<managedVars, spec, edits, setting, owned, refusals>>
    /\ CarrySpec

\* Where a lookup ends: in crossplane-system, or else in the namespace of the
\* resource.  Without the system namespace in its cache the read always fails.
Lookup(ref) ==
    LET found == config[<<"system", ConfigName(ref)>>]
    IN  IF restricted \/ found = "none" THEN config[<<"own", ConfigName(ref)>>]
                                        ELSE found

Find(w, to) ==
    /\ At(w, "find")
    /\ client' = [client EXCEPT ![w].step = "read", ![w].vault = to]
    /\ UNCHANGED <<api, conn, cache, current, mr, fresh, pc, plan, secret,
                   overrides, discarded, spec, edits, setting, world, refusals>>
    /\ CarrySpec

FindConfig(w) == UNCHANGED faults /\ Find(w, Lookup(specCopy[w]))

\* Any error of the first read leads to the second one.
SystemUnread(w) == Fault /\ Find(w, config[<<"own", ConfigName(specCopy[w])>>])

FirstToken == "old"

\* The secret is read for each client.
ReadToken == token

GetConfig(w) ==
    /\ At(w, "read")
    /\ client[w].vault \in Vaults
    /\ client' = [client EXCEPT ![w].step = "ready", ![w].with = ReadToken]
    /\ UNCHANGED <<managedVars, spec, edits, setting, world, refusals>>
    /\ CarrySpec

\* No ProviderConfig, or one that no client can be made from.
NoConfig(w) ==
    /\ At(w, "read")
    /\ client[w].vault \notin Vaults
    /\ Goto(w, "status")
    /\ UNCHANGED <<api, conn, cache, current, mr, fresh, plan, secret, faults,
                   overrides, discarded, spec, edits, setting, client, world,
                   refusals>>
    /\ CarrySpec

Answered(w) == client[w].with = accepted

ErrorIsNotFound(w) == ~Answered(w) \/ client[w].vault \notin owned

\* Only Vault's answer 404 says that the object is not there.
IsNotFound(w) == Answered(w) /\ client[w].vault \notin owned

Observe(w) ==
    /\ At(w, "ready")
    /\ IsNotFound(w) \/ Answered(w)
    /\ Decide(w, ~IsNotFound(w), ~IsNotFound(w))
    /\ UNCHANGED <<api, conn, cache, current, mr, fresh, secret, faults,
                   overrides, discarded, spec, edits, setting, client, world,
                   refusals>>
    /\ CarrySpec

Hold(w) == owned' = owned \cup {client[w].vault}

Create(w) ==
    /\ pc[w] = "create"
    /\ Answered(w)
    /\ Hold(w)
    /\ Goto(w, "annotate")
    /\ UNCHANGED <<api, conn, cache, current, mr, fresh, plan, secret, faults,
                   overrides, discarded, spec, edits, setting, client, usage,
                   refusals>>
    /\ CarrySpec

\* The object is created and the answer is lost.
CreateUnanswered(w) ==
    /\ pc[w] = "create"
    /\ Fault
    /\ Answered(w)
    /\ Hold(w)
    /\ Goto(w, "annotateFailed")
    /\ UNCHANGED <<api, conn, cache, current, mr, fresh, plan, secret,
                   overrides, discarded, spec, edits, setting, client, usage,
                   refusals>>
    /\ CarrySpec

Delete(w) ==
    /\ pc[w] = "delete"
    /\ Answered(w)
    /\ owned' = owned \ {client[w].vault}
    /\ Goto(w, "status")
    /\ UNCHANGED <<api, conn, cache, current, mr, fresh, plan, secret, faults,
                   overrides, discarded, spec, edits, setting, client, usage,
                   refusals>>
    /\ CarrySpec

\* Vault refuses, always when the token is no longer accepted.
Refused(w) ==
    /\ At(w, "ready") \/ pc[w] \in {"create", "delete"}
    /\ Refuse \/ (~Answered(w) /\ UNCHANGED refusals)
    /\ Goto(w, IF pc[w] = "create" THEN "annotateFailed" ELSE "status")
    /\ UNCHANGED <<api, conn, cache, current, mr, fresh, plan, secret, faults,
                   overrides, discarded, spec, edits, setting, client, world>>
    /\ CarrySpec

----------------------------------------------------------------------------
\* The environment

EditSpec ==
    /\ \E ref \in Refs : Edit(ref)
    /\ UNCHANGED <<setting, client, world, refusals>>

\* Somebody makes, redirects, breaks or removes a ProviderConfig.  Nothing
\* keeps one that is in use: no controller looks at the recorded uses.  Once
\* the resource is gone the ProviderConfigs and tokens make no difference.
ChangeConfig ==
    /\ api.present
    /\ changes < MaxChanges
    /\ changes' = changes + 1
    /\ \E at \in Places \X Names, to \in Configs :
          config[at] # to /\ config' = [config EXCEPT ![at] = to]
    /\ UNCHANGED <<managedVars, specVars, restricted, token, accepted, client,
                   world, refusals>>

\* The token is replaced in Vault and later in the secret.
RotateToken ==
    /\ api.present
    /\ \/ accepted = "old" /\ accepted' = "new" /\ UNCHANGED token
       \/ token # accepted /\ token' = accepted /\ UNCHANGED accepted
    /\ UNCHANGED <<managedVars, specVars, config, restricted, client, world,
                   changes, refusals>>

----------------------------------------------------------------------------
ControllerStep(w) ==
    \/ TrackUsage(w)
    \/ FindConfig(w)
    \/ GetConfig(w)
    \/ NoConfig(w)
    \/ Observe(w)
    \/ Create(w)
    \/ Delete(w)
    \/ Refused(w)

ControllerFault(w) ==
    \/ SystemUnread(w)
    \/ CreateUnanswered(w)

Unmanaged == UNCHANGED <<spec, edits, setting, world, refusals>>

\* A client is dropped with the reconcile it was made for.
DropClient ==
    client' = [w \in Workers |-> IF pc'[w] = "idle" THEN NoClient ELSE client[w]]

Managing(w) ==
    /\ ReconcilerStep(w) \/ ReconcilerFault(w) \/ SyncCache(w)
    /\ Unmanaged
    /\ DropClient
    /\ CarrySpec

User ==
    \/ EditSpec
    \/ RequestDelete /\ Unmanaged /\ DropClient /\ CarrySpec

Next ==
    \/ \E w \in Workers : Managing(w)
    \/ \E w \in Workers : ControllerStep(w)
    \/ \E w \in Workers : ControllerFault(w)
    \/ User
    \/ ChangeConfig
    \/ RotateToken

Spec == Init /\ [][Next]_vars

\* A process keeps working on a queued resource and its cache catches up.
\* Nothing obliges Vault, the user or a failure to act.
Progress(w) ==
    \/ ReconcilerStep(w) /\ Unmanaged /\ DropClient /\ CarrySpec
    \/ ControllerStep(w)

Fairness ==
    \A w \in Workers :
        /\ WF_vars(Progress(w))
        /\ WF_vars(SyncCache(w) /\ Unmanaged /\ DropClient /\ CarrySpec)

FairSpec == Spec /\ Fairness

----------------------------------------------------------------------------
\* The Vault the specification leads to, if any.
Target == {Lookup(spec)} \cap Vaults

\* An object is left behind in another Vault only by a change of a
\* ProviderConfig, by an edit of the reference or by a failure, which includes
\* a failed read of crossplane-system that leads to a ProviderConfig of the
\* same name elsewhere: at most one object for each.  A token that is refused
\* leaves nothing behind.  Nor does a deletion, however many processes there are,
\* unless one of them removes the finalizer over a creation that another is
\* still at.
Elsewhere == owned \ (IF api.present THEN Target ELSE {})
Recreated == IF api.present \/ Undisputed THEN 0 ELSE 1
ElsewhereAccounted ==
    Cardinality(Elsewhere) <= changes + edits + faults + Recreated

\* Whatever becomes of the ProviderConfigs and the token meanwhile, a reconcile
\* removes the finalizer only when what the resource has made in the Vault it was
\* led to is gone, unless it goes ahead over a creation that another process may
\* still be at: a refusal is not taken for an absent object.
GoneBeforeReleased ==
    [][\A w \in Workers :
           Released /\ Undisputed' /\ pc[w] = "unfinalize" /\ pc'[w] = "idle" =>
               client[w].vault \notin owned]_vars

\* Once edits and changes stop, a wanted resource whose ProviderConfig leads
\* somewhere and whose token is accepted has its object there, by the token
\* that is in the secret now and without a restart; and a ProviderConfig that
\* it refers to is recorded as used.
ProvidedWhereConfigured ==
    <>[](Wanted /\ Target # {} /\ token = accepted =>
            /\ Target \subseteq owned
            /\ spec # "unset" => usage = spec)

\* A deletion that has been asked for ends, unless the ProviderConfig was
\* taken away, which no recorded use prevents, or the token is not accepted.
DeletionCompletes ==
    api.deleting ~> ~api.present \/ Target = {} \/ token # accepted
=============================================================================
