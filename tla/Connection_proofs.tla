-------------------------- MODULE Connection_proofs --------------------------
(***************************************************************************)
(* Theorems about Connection, for any Vaults, ProviderConfigs and bounds:  *)
(* the state keeps its type, and the objects that are left in other Vaults *)
(* are paid for by changes of a ProviderConfig, edits of the reference and *)
(* failures, but for one if a process goes ahead over the creation of      *)
(* another; and the finalizer goes after what a reconcile knows of.        *)
(***************************************************************************)
EXTENDS Connection, Managed_proofs

----------------------------------------------------------------------------
(***************************************************************************)
(* Type correctness.                                                       *)
(***************************************************************************)

Clients == [step : {"track", "find", "read", "ready"},
            vault : Configs, with : Tokens]

\* What TypeOK says of a worker's client, after a step of its reconcile.
ClientOK(worker, step) ==
    IF step = "idle" THEN worker = NoClient
    ELSE /\ worker.step = "ready" => worker.vault \in Vaults
         /\ step \in {"finalizer", "pend", "create", "delete", "unfinalize"}
              => worker.step = "ready"

\* A specification that is carried stays one.
LEMMA CarriedSpecs ==
  ASSUME NEW S, SpecifiedTypeOK(S), CarrySpec
  PROVE  specCache' \in [Workers -> S] /\ specCopy' \in [Busy' -> S]
<1>1. Busy' = {w \in Workers : pc'[w] # "idle"}
  BY DEF Busy
<1>. QED  BY <1>1 DEF SpecifiedTypeOK, CarrySpec

\* A reference leads somewhere, or nowhere.
LEMMA LookupType ==
  ASSUME TypeOK, NEW ref \in Refs
  PROVE  Lookup(ref) \in Configs /\ config[<<"own", ConfigName(ref)>>] \in Configs
<1>1. ConfigName(ref) \in Names
  BY ConnectionAssumption DEF ConfigName, Names
<1>2. /\ <<"system", ConfigName(ref)>> \in Places \X Names
      /\ <<"own", ConfigName(ref)>> \in Places \X Names
  BY <1>1 DEF Places
<1>. QED  BY <1>2 DEF TypeOK, Lookup

\* The steps of a reconcile that need a client come after Observe.
LEMMA ReconcilerPath ==
  ASSUME ManagedTypeOK, NEW w \in Workers,
         ReconcilerStep(w) \/ ReconcilerFault(w) \/ SyncCache(w)
  PROVE  \A v \in Workers :
            /\ pc'[v] \in {"finalizer", "pend", "create", "delete", "unfinalize"}
                 => pc[v] \in {"finalizer", "pend", "create", "delete", "unfinalize"}
            /\ pc'[v] # "idle" /\ pc[v] = "idle" => pc'[v] = "observe"
<1>. USE DEF ManagedTypeOK
<1>1. CASE Reconcile(w) \/ SaveAnnotations(w)
  BY <1>1 DEF Reconcile, SaveAnnotations, Goto
<1>2. CASE AddFinalizer(w) \/ MarkCreatePending(w)
  BY <1>2 DEF AddFinalizer, MarkCreatePending, Goto
<1>3. CASE RemoveFinalizer(w) \/ Conflict(w) \/ Abort(w)
  BY <1>3 DEF RemoveFinalizer, Conflict, Abort, Finish, Goto
<1>4. CASE PublishConnection(w) \/ LosePublication(w) \/ LoseAnnotations(w)
  BY <1>4 DEF PublishConnection, LosePublication, LoseAnnotations, Goto
<1>5. CASE SaveStatus(w) \/ StatusConflict(w) \/ SyncCache(w)
  BY <1>5 DEF SaveStatus, StatusConflict, SyncCache, Finish, Goto
<1>. QED
  BY <1>1, <1>2, <1>3, <1>4, <1>5 DEF ReconcilerStep, ReconcilerFault

\* The steps of the controller by what they do to the client and to the Vault.
LEMMA ControllerFrame ==
  ASSUME TypeOK, NEW w \in Workers, ControllerStep(w) \/ ControllerFault(w)
  PROVE  /\ UNCHANGED <<api, conn, cache, current, mr, fresh, secret,
                        overrides, discarded, spec, edits, setting>>
         /\ CarrySpec
         /\ \A v \in Workers \ {w} : pc'[v] = pc[v] /\ client'[v] = client[v]
         /\ pc[w] # "idle" /\ specCopy[w] \in Refs
<1>1. /\ UNCHANGED <<api, conn, cache, current, mr, fresh, secret,
                     overrides, discarded, spec, edits, setting>>
      /\ CarrySpec
      /\ pc[w] # "idle"
  BY DEF ControllerStep, ControllerFault, TrackUsage, FindConfig, SystemUnread,
         Find, GetConfig, NoConfig, Observe, Create, CreateUnanswered, Delete,
         Refused, At, managedVars, world
<1>2. specCopy[w] \in Refs
  BY <1>1 DEF TypeOK, SpecifiedTypeOK, Busy
<1>3. \A v \in Workers \ {w} : pc'[v] = pc[v] /\ client'[v] = client[v]
  BY DEF ControllerStep, ControllerFault, TrackUsage, FindConfig, SystemUnread,
         Find, GetConfig, NoConfig, Observe, Create, CreateUnanswered, Delete,
         Refused, Decide, Goto, managedVars, world, TypeOK, ManagedTypeOK
<1>. QED  BY <1>1, <1>2, <1>3

\* What a step of the controller has to establish to keep the type.
LEMMA ControllerTypeCases ==
  ASSUME TypeOK, NEW w \in Workers, ControllerStep(w) \/ ControllerFault(w),
         pc' \in [Workers -> Steps],
         plan' \in [Workers -> {"pend", "update", "status"}],
         faults' \in 0 .. MaxFaults, refusals' \in 0 .. MaxRefusals,
         client' \in [Workers -> Clients], ClientOK(client'[w], pc'[w]),
         usage' \in Names \cup {"none"},
         owned' \subseteq Vaults
  PROVE  TypeOK'
<1>1. /\ UNCHANGED <<api, conn, cache, current, mr, fresh, secret,
                     overrides, discarded, spec, edits, setting>>
      /\ CarrySpec
      /\ \A v \in Workers \ {w} : pc'[v] = pc[v] /\ client'[v] = client[v]
  BY ControllerFrame
<1>2. specCache' \in [Workers -> Refs] /\ specCopy' \in [Busy' -> Refs]
  BY <1>1, CarriedSpecs DEF TypeOK
<1>3. \A v \in Workers : ClientOK(client'[v], pc'[v])
  BY <1>1 DEF TypeOK, ClientOK
<1>4. ManagedTypeOK'
  BY <1>1 DEF TypeOK, ManagedTypeOK
<1>. QED
  BY <1>1, <1>2, <1>3, <1>4 DEF TypeOK, SpecifiedTypeOK, ClientOK, Clients, setting

\* ... and it does.
LEMMA ControllerType ==
  ASSUME TypeOK, NEW w \in Workers, ControllerStep(w) \/ ControllerFault(w)
  PROVE  TypeOK'
<1>0. /\ pc[w] # "idle" /\ specCopy[w] \in Refs
      /\ client[w] \in Clients /\ ClientOK(client[w], pc[w])
      /\ client \in [Workers -> Clients]
      /\ ManagedTypeOK
      /\ usage \in Names \cup {"none"}
      /\ owned \subseteq Vaults
      /\ refusals \in 0 .. MaxRefusals /\ faults \in 0 .. MaxFaults
      /\ token \in Tokens
  BY ControllerFrame DEF TypeOK, ManagedTypeOK, ClientOK, Clients
<1>. USE DEF ManagedTypeOK
<1>1. CASE TrackUsage(w)
  <2>1. /\ client' = [client EXCEPT ![w] = [client[w] EXCEPT !.step = "find"]]
        /\ UNCHANGED <<pc, plan, faults, refusals, owned>>
        /\ pc[w] = "observe"
        /\ usage' \in {usage, specCopy[w]} \ {"unset"} \/ usage' = usage
    BY <1>1 DEF TrackUsage, At, managedVars
  <2>2. /\ [client[w] EXCEPT !.step = "find"] \in Clients
        /\ ClientOK([client[w] EXCEPT !.step = "find"], "observe")
    BY <1>0 DEF Clients, ClientOK
  <2>3. usage' \in Names \cup {"none"}
    BY <1>0, <2>1, ConnectionAssumption
  <2>. QED  BY <1>0, <2>1, <2>2, <2>3, ControllerTypeCases
<1>2. ASSUME NEW to \in Configs, Find(w, to), faults' \in 0 .. MaxFaults
      PROVE  TypeOK'
  <2>1. /\ client' = [client EXCEPT ![w] = [client[w] EXCEPT !.step = "read",
                                                            !.vault = to]]
        /\ UNCHANGED <<pc, plan, refusals, usage, owned>>
        /\ pc[w] = "observe"
    BY <1>2 DEF Find, At, world
  <2>2. /\ [client[w] EXCEPT !.step = "read", !.vault = to] \in Clients
        /\ ClientOK([client[w] EXCEPT !.step = "read", !.vault = to], "observe")
    BY <1>0 DEF Clients, ClientOK
  <2>. QED  BY <1>0, <1>2, <2>1, <2>2, ControllerTypeCases
<1>3. CASE FindConfig(w)
  BY <1>0, <1>2, <1>3, LookupType DEF FindConfig
<1>4. CASE SystemUnread(w)
  <2>1. faults' \in 0 .. MaxFaults
    BY <1>0, <1>4, ManagedAssumption DEF SystemUnread, Fault
  <2>. QED  BY <1>0, <1>2, <1>4, <2>1, LookupType DEF SystemUnread
<1>5. CASE GetConfig(w)
  <2>1. /\ client' = [client EXCEPT ![w] = [client[w] EXCEPT !.step = "ready",
                                                            !.with = token]]
        /\ UNCHANGED <<pc, plan, faults, refusals, usage, owned>>
        /\ pc[w] = "observe" /\ client[w].vault \in Vaults
    BY <1>5 DEF GetConfig, At, ReadToken, managedVars, world
  <2>2. /\ [client[w] EXCEPT !.step = "ready", !.with = token] \in Clients
        /\ ClientOK([client[w] EXCEPT !.step = "ready", !.with = token], "observe")
    BY <1>0, <2>1 DEF Clients, ClientOK
  <2>. QED  BY <1>0, <2>1, <2>2, ControllerTypeCases
<1>6. CASE NoConfig(w)
  BY <1>0, <1>6, ControllerTypeCases DEF NoConfig, Goto, Steps, ClientOK, world
<1>7. CASE Observe(w)
  <2>1. /\ pc' \in [Workers -> Steps]
        /\ plan' \in [Workers -> {"pend", "update", "status"}]
        /\ pc'[w] # "idle"
    BY <1>0, <1>7 DEF Observe, Decide, Goto, Steps
  <2>2. /\ client[w].step = "ready" /\ pc[w] = "observe"
        /\ UNCHANGED <<client, faults, refusals, usage, owned>>
    BY <1>7 DEF Observe, At, world
  <2>3. ClientOK(client[w], pc'[w])
    BY <1>0, <2>1, <2>2 DEF ClientOK
  <2>. QED  BY <1>0, <2>1, <2>2, <2>3, ControllerTypeCases
<1>8. CASE Create(w) \/ CreateUnanswered(w)
  <2>1. /\ pc[w] = "create" /\ Hold(w)
        /\ UNCHANGED <<client, plan, refusals, usage>>
        /\ pc' \in [Workers -> Steps]
        /\ pc'[w] \in {"annotate", "annotateFailed"}
        /\ faults' \in 0 .. MaxFaults
    BY <1>0, <1>8, ManagedAssumption
    DEF Create, CreateUnanswered, Fault, Goto, Steps
  <2>2. client[w].vault \in Vaults /\ ClientOK(client[w], pc'[w])
    BY <1>0, <2>1 DEF ClientOK
  <2>3. owned' \subseteq Vaults
    BY <1>0, <2>1, <2>2 DEF Hold
  <2>. QED  BY <1>0, <2>1, <2>2, <2>3, ControllerTypeCases
<1>9. CASE Delete(w)
  BY <1>0, <1>9, ControllerTypeCases DEF Delete, Goto, Steps, ClientOK
<1>10. CASE Refused(w)
  <2>1. /\ UNCHANGED <<client, plan, faults, usage, owned>>
        /\ pc' \in [Workers -> Steps]
        /\ pc'[w] \in {"annotateFailed", "status"}
    BY <1>0, <1>10 DEF Refused, Goto, Steps, world
  <2>2. refusals' \in 0 .. MaxRefusals
    BY <1>0, <1>10, ConnectionAssumption DEF Refused, Refuse
  <2>3. ClientOK(client[w], pc'[w])
    BY <1>0, <2>1 DEF ClientOK
  <2>. QED  BY <1>0, <2>1, <2>2, <2>3, ControllerTypeCases
<1>. QED
  BY <1>1, <1>3, <1>4, <1>5, <1>6, <1>7, <1>8, <1>9, <1>10
  DEF ControllerStep, ControllerFault

\* An edit keeps the type.
LEMMA EditSpecType ==
  ASSUME TypeOK, EditSpec
  PROVE  /\ TypeOK'
         /\ UNCHANGED <<api, cache, mr, pc, secret, faults, setting, client, owned>>
         /\ api.present /\ edits' = edits + 1
         /\ CarrySpec /\ current' = {} /\ fresh' = {}
<1>1. PICK ref \in Refs : Edit(ref)
  BY DEF EditSpec
<1>2. /\ UNCHANGED <<api, conn, cache, mr, pc, plan, secret, faults, overrides,
                     discarded, setting, client, world, refusals>>
      /\ api.present /\ edits' = edits + 1 /\ spec' = ref
      /\ CarrySpec /\ current' = {} /\ fresh' = {}
  BY <1>1 DEF EditSpec, Edit
<1>3. specCache' \in [Workers -> Refs] /\ specCopy' \in [Busy' -> Refs]
  BY <1>2, CarriedSpecs DEF TypeOK
<1>4. edits' \in 0 .. MaxEdits
  BY <1>1, SpecifiedAssumption DEF Edit, TypeOK, SpecifiedTypeOK
<1>. QED
  BY <1>2, <1>3, <1>4
  DEF TypeOK, ManagedTypeOK, SpecifiedTypeOK, setting, world

\* A changed ProviderConfig or token keeps the type.
LEMMA SettingType ==
  ASSUME TypeOK, ChangeConfig \/ RotateToken
  PROVE  /\ TypeOK'
         /\ UNCHANGED <<managedVars, specVars, restricted, client, owned>>
<1>1. UNCHANGED <<managedVars, specVars, restricted, client, world, refusals>>
  BY DEF ChangeConfig, RotateToken
<1>2. /\ config' \in [Places \X Names -> Configs]
      /\ changes' \in 0 .. MaxChanges
  <2>1. CASE ChangeConfig
    BY <2>1, ConnectionAssumption DEF ChangeConfig, TypeOK
  <2>2. CASE RotateToken
    BY <2>2 DEF RotateToken, TypeOK
  <2>. QED  BY <2>1, <2>2
<1>3. token' \in Tokens /\ accepted' \in Tokens
  BY DEF ChangeConfig, RotateToken, TypeOK, Tokens
<1>. QED
  BY <1>1, <1>2, <1>3
  DEF TypeOK, ManagedTypeOK, SpecifiedTypeOK, Busy, managedVars, specVars, world

\* The initial states have the type.
LEMMA TypeInit == Init => TypeOK
<1>. SUFFICES ASSUME Init PROVE TypeOK
  OBVIOUS
<1>1. ManagedTypeOK
  BY NewObjectType, ManagedInitType DEF Init, IdOrNone
<1>2. spec \in Refs /\ Busy = {}
  BY ConnectionAssumption DEF Init, ManagedInit, Busy
<1>3. SpecifiedTypeOK(Refs)
  <2>1. <<>> \in [{} -> Refs]
    OBVIOUS
  <2>. QED
    BY <1>2, <2>1, SpecifiedAssumption DEF Init, SpecifiedInit, SpecifiedTypeOK
<1>4. NoClient \in Clients
  BY DEF NoClient, Client, Clients, Configs, Tokens
<1>5. \A w \in Workers : client[w] = NoClient /\ pc[w] = "idle"
  BY DEF Init, ManagedInit
<1>6. client \in [Workers -> Clients]
  BY <1>4 DEF Init
<1>7. /\ config \in [Places \X Names -> Configs]
      /\ {token, accepted} \subseteq Tokens
      /\ restricted \in BOOLEAN
      /\ changes \in 0 .. MaxChanges /\ refusals \in 0 .. MaxRefusals
      /\ usage = "none" /\ owned = {}
  <2>1. config \in [Places \X Names -> Configs] /\ restricted \in BOOLEAN
    BY ConnectionAssumption DEF Init
  <2>2. /\ {token, accepted} \subseteq Tokens
        /\ usage = "none" /\ owned = {}
    BY DEF Init, Tokens
  <2>3. changes \in 0 .. MaxChanges /\ refusals \in 0 .. MaxRefusals
    BY ConnectionAssumption DEF Init
  <2>. QED  BY <2>1, <2>2, <2>3
<1>. QED
  BY <1>1, <1>3, <1>5, <1>6, <1>7 DEF TypeOK, Clients

\* Every step keeps the type.
LEMMA TypeStep == TypeOK /\ [Next]_vars => TypeOK'
<1>. SUFFICES ASSUME TypeOK, [Next]_vars PROVE TypeOK'
  OBVIOUS
<1>1. CASE \E w \in Workers : Managing(w)
  <2>1. /\ ManagedTypeOK'
        /\ \A v \in Workers :
            /\ pc'[v] \in {"finalizer", "pend", "create", "delete", "unfinalize"}
                 => pc[v] \in {"finalizer", "pend", "create", "delete", "unfinalize"}
            /\ pc'[v] # "idle" /\ pc[v] = "idle" => pc'[v] = "observe"
    BY <1>1, ReconcilerType, ReconcilerPath DEF Managing, TypeOK
  <2>2. specCache' \in [Workers -> Refs] /\ specCopy' \in [Busy' -> Refs]
    BY <1>1, CarriedSpecs DEF Managing, TypeOK
  <2>3. client' = [w \in Workers |-> IF pc'[w] = "idle" THEN NoClient ELSE client[w]]
    BY <1>1 DEF Managing, DropClient
  <2>4. NoClient \in Clients /\ NoClient.step = "track"
    BY DEF NoClient, Client, Clients, Configs, Tokens
  <2>5. client' \in [Workers -> Clients]
    BY <2>3, <2>4 DEF TypeOK, Clients
  <2>6. \A v \in Workers : ClientOK(client'[v], pc'[v])
    BY <2>1, <2>3, <2>4 DEF ClientOK, TypeOK
  <2>7. UNCHANGED <<spec, edits, setting, world, refusals>>
    BY <1>1 DEF Managing, Unmanaged
  <2>. QED
    BY <2>1, <2>2, <2>5, <2>6, <2>7
    DEF TypeOK, SpecifiedTypeOK, ClientOK, Clients, setting, world
<1>2. CASE \E w \in Workers : ControllerStep(w) \/ ControllerFault(w)
  BY <1>2, ControllerType
<1>3. CASE EditSpec
  BY <1>3, EditSpecType
<1>4. CASE RequestDelete /\ Unmanaged /\ DropClient /\ CarrySpec
  <2>1. ManagedTypeOK' /\ pc' = pc
    BY <1>4, UserType DEF UserStep, TypeOK
  <2>2. specCache' \in [Workers -> Refs] /\ specCopy' \in [Busy' -> Refs]
    BY <1>4, CarriedSpecs DEF TypeOK
  <2>3. client' = client
    BY <1>4, <2>1 DEF DropClient, TypeOK
  <2>. QED
    BY <1>4, <2>1, <2>2, <2>3 DEF Unmanaged, TypeOK, SpecifiedTypeOK, setting, world
<1>5. CASE ChangeConfig \/ RotateToken
  BY <1>5, SettingType
<1>6. CASE UNCHANGED vars
  BY <1>6
  DEF vars, managedVars, specVars, setting, world, TypeOK, ManagedTypeOK,
      SpecifiedTypeOK, Busy
<1>. QED  BY <1>1, <1>2, <1>3, <1>4, <1>5, <1>6 DEF Next, User

\* The state keeps its type: whatever happens to the ProviderConfigs meanwhile,
\* a worker gets past Observe only with a client, which is made for a Vault and
\* lasts to the end of its reconcile (Connect, connect.go:53).
THEOREM TypeCorrect == Spec => []TypeOK
  BY TypeInit, TypeStep, PTL DEF Spec

----------------------------------------------------------------------------
(***************************************************************************)
(* The Vaults that are reached, by any number of processes.                *)
(***************************************************************************)

\* The workers that have looked a ProviderConfig up.
Led == {w \in Workers : client[w].step \in {"read", "ready"}}

\* The Vaults that hold an object of the resource, or can still get one without
\* a change of a ProviderConfig, an edit or a failure.
Reached ==
    Vaults \cap (owned \cup {Lookup(spec)}
                       \cup {Lookup(specCache[w]) : w \in Workers}
                       \cup {Lookup(specCopy[w]) : w \in Busy}
                       \cup {client[w].vault : w \in Led})

Mishaps == changes + edits + faults

\* Every reached Vault but that of the specification has been paid for.
Paid ==
    /\ IsFiniteSet(Reached)
    /\ Cardinality(Reached \ Target) <= Mishaps

\* The Vaults that are reached are carried like the specification; x is where
\* a step newly leads.
LEMMA CarriedVaults ==
  ASSUME TypeOK, CarrySpec, NEW x,
         \A ref \in Refs : Lookup(ref)' \in {Lookup(ref), x},
         spec' = spec \/ Lookup(spec)' = x,
         owned' \subseteq Reached \cup {x},
         owned' \subseteq Vaults,
         \A w \in Workers : client'[w].step \in {"read", "ready"} =>
            client'[w].vault \in Reached \cup {x} \/ client'[w].vault \notin Vaults
  PROVE  /\ Reached' \subseteq Vaults /\ Reached' \subseteq Reached \cup {x}
         /\ Lookup(spec)' \in {Lookup(spec), x}
<1>1. Busy' = {w \in Workers : pc'[w] # "idle"}
  BY DEF Busy
<1>2. /\ \A w \in Workers : specCache'[w] \in {spec, specCache[w]}
      /\ \A w \in Busy' : specCopy'[w] = IF w \in Busy THEN specCopy[w] ELSE specCache[w]
      /\ Busy' \subseteq Workers
  BY <1>1 DEF CarrySpec
<1>3. /\ spec \in Refs
      /\ \A w \in Workers : specCache[w] \in Refs
      /\ \A w \in Busy : specCopy[w] \in Refs
  BY DEF TypeOK, SpecifiedTypeOK
<1>4. ASSUME NEW ref \in Refs, NEW v \in Vaults, v = Lookup(ref)',
             Lookup(ref) \in Vaults => Lookup(ref) \in Reached
      PROVE  v \in Reached \cup {x}
  BY <1>4
<1>5. Lookup(spec)' \in {Lookup(spec), x}
  BY <1>3 DEF Lookup
<1>6. Lookup(spec)' \in Vaults => Lookup(spec)' \in Reached \cup {x}
  BY <1>5 DEF Reached
<1>7. \A w \in Workers :
         Lookup(specCache[w])' \in Vaults => Lookup(specCache[w])' \in Reached \cup {x}
  <2>. SUFFICES ASSUME NEW w \in Workers, Lookup(specCache[w])' \in Vaults
                PROVE  Lookup(specCache[w])' \in Reached \cup {x}
    OBVIOUS
  <2>1. PICK ref \in {spec, specCache[w]} : specCache'[w] = ref
    BY <1>2
  <2>2. ref \in Refs /\ Lookup(specCache[w])' = Lookup(ref)'
    BY <1>3, <2>1 DEF Lookup
  <2>3. Lookup(ref) \in Vaults => Lookup(ref) \in Reached
    BY <2>1 DEF Reached
  <2>. QED  BY <1>4, <2>2, <2>3
<1>8. \A w \in Busy' :
         Lookup(specCopy[w])' \in Vaults => Lookup(specCopy[w])' \in Reached \cup {x}
  <2>. SUFFICES ASSUME NEW w \in Busy', Lookup(specCopy[w])' \in Vaults
                PROVE  Lookup(specCopy[w])' \in Reached \cup {x}
    OBVIOUS
  <2>1. CASE w \in Busy
    <3>1. specCopy'[w] = specCopy[w]
      BY <1>2, <2>1
    <3>2. PICK ref \in Refs : ref = specCopy[w]
      BY <1>3, <2>1
    <3>3. Lookup(specCopy[w])' = Lookup(ref)'
      BY <3>1, <3>2 DEF Lookup
    <3>4. Lookup(ref) \in Vaults => Lookup(ref) \in Reached
      BY <2>1, <3>2 DEF Reached
    <3>. QED  BY <1>4, <3>3, <3>4
  <2>2. CASE w \notin Busy
    <3>1. specCopy'[w] = specCache[w] /\ w \in Workers
      BY <1>2, <2>2
    <3>2. PICK ref \in Refs : ref = specCache[w]
      BY <1>3, <3>1
    <3>3. Lookup(specCopy[w])' = Lookup(ref)'
      BY <3>1, <3>2 DEF Lookup
    <3>4. Lookup(ref) \in Vaults => Lookup(ref) \in Reached
      BY <3>1, <3>2 DEF Reached
    <3>. QED  BY <1>4, <3>3, <3>4
  <2>. QED  BY <2>1, <2>2
<1>9. Led' = {w \in Workers : client'[w].step \in {"read", "ready"}}
  BY DEF Led
<1>10. Reached' = Vaults \cap (owned' \cup {Lookup(spec)'}
                                 \cup {Lookup(specCache[w])' : w \in Workers}
                                 \cup {Lookup(specCopy[w])' : w \in Busy'}
                                 \cup {client'[w].vault : w \in Led'})
  BY DEF Reached
<1>. QED  BY <1>5, <1>6, <1>7, <1>8, <1>9, <1>10

\* The counts, before and after a step.
LEMMA MishapsType ==
  /\ TypeOK => changes \in Nat /\ edits \in Nat /\ faults \in Nat /\ Mishaps \in Nat
  /\ TypeOK' => Mishaps' \in Nat
  BY ConnectionAssumption, SpecifiedAssumption, ManagedAssumption
  DEF TypeOK, SpecifiedTypeOK, ManagedTypeOK, Mishaps

\* The mishaps of a step of the reconciler are its faults.
LEMMA FaultsCounted ==
  ASSUME TypeOK, TypeOK', NEW w \in Workers,
         ReconcilerStep(w) \/ ReconcilerFault(w) \/ SyncCache(w),
         UNCHANGED <<changes, edits>>
  PROVE  Mishaps <= Mishaps'
<1>0. changes \in Nat /\ edits \in Nat /\ faults \in Nat
  BY MishapsType
<1>1. faults <= faults' /\ faults' \in Nat
  BY ReconcilerCounts, ManagedAssumption DEF TypeOK, ManagedTypeOK
<1>2. \A m, n \in Nat : m <= n => changes + edits + m <= changes + edits + n
  BY <1>0
<1>3. changes + edits + faults <= changes + edits + faults'
  BY <1>0, <1>1, <1>2
<1>4. Mishaps' = changes + edits + faults'
  BY DEF Mishaps
<1>. QED  BY <1>3, <1>4 DEF Mishaps

\* What a step of the controller does to the client, the objects and the
\* reconcile.
LEMMA ControllerEffect ==
  ASSUME TypeOK, NEW w \in Workers, ControllerStep(w) \/ ControllerFault(w)
  PROVE  /\ \/ owned' \subseteq owned
            \/ /\ pc[w] = "create" /\ client[w].step = "ready"
               /\ owned' = owned \cup {client[w].vault}
         /\ \/ /\ client'[w].step \in {"read", "ready"} =>
                     \/ client'[w].vault = Lookup(specCopy[w])
                     \/ client[w].step \in {"read", "ready"}
                        /\ client'[w].vault = client[w].vault
               /\ faults' \in {faults, faults + 1}
            \/ /\ client'[w].vault = config[<<"own", ConfigName(specCopy[w])>>]
               /\ faults' = faults + 1 /\ owned' = owned
         /\ \/ pc[w] = "observe" /\ pc'[w] = "observe"
            \/ pc[w] \in {"observe", "create", "delete"} /\ pc'[w] = "status"
            \/ pc[w] = "create" /\ pc'[w] \in {"annotate", "annotateFailed"}
            \/ /\ pc[w] = "observe" /\ owned' = owned /\ client' = client
               /\ pc'[w] \in {"delete", "unfinalize", "finalizer"}
               /\ pc'[w] \in {"delete", "unfinalize"} <=> mr[w].deleting
               /\ pc'[w] = "unfinalize" => client[w].vault \notin owned
<1>. USE DEF TypeOK, ManagedTypeOK
<1>0. faults \in Nat
  BY ManagedAssumption
<1>1. CASE TrackUsage(w) \/ GetConfig(w)
  BY <1>0, <1>1 DEF TrackUsage, GetConfig, At, managedVars, world
<1>2. CASE FindConfig(w) \/ SystemUnread(w)
  BY <1>0, <1>2 DEF FindConfig, SystemUnread, Find, Fault, At, world
<1>3. CASE NoConfig(w)
  BY <1>0, <1>3 DEF NoConfig, At, Goto, world
<1>4. CASE Observe(w)
  BY <1>0, <1>4 DEF Observe, At, Decide, Goto, IsNotFound, world
<1>5. CASE Create(w) \/ CreateUnanswered(w)
  BY <1>0, <1>5 DEF Create, CreateUnanswered, Hold, Goto, Fault
<1>6. CASE Delete(w)
  BY <1>0, <1>6 DEF Delete, Goto
<1>7. CASE Refused(w)
  BY <1>0, <1>7 DEF Refused, At, Goto, world
<1>. QED
  BY <1>1, <1>2, <1>3, <1>4, <1>5, <1>6, <1>7 DEF ControllerStep, ControllerFault

\* Nothing more is reached.
LEMMA PaidKept ==
  ASSUME TypeOK, Paid, Reached' \subseteq Reached, Lookup(spec)' = Lookup(spec),
         Mishaps \in Nat, Mishaps' \in Nat, Mishaps <= Mishaps'
  PROVE  Paid'
<1>1. Target' = Target
  BY DEF Target
<1>2. IsFiniteSet(Reached) /\ IsFiniteSet(Reached \ Target)
  BY FS_Subset DEF Paid
<1>3. Reached' \ Target' \subseteq Reached \ Target
  BY <1>1
<1>4. /\ IsFiniteSet(Reached')
      /\ Cardinality(Reached' \ Target') <= Cardinality(Reached \ Target)
      /\ Cardinality(Reached' \ Target') \in Nat
      /\ Cardinality(Reached \ Target) \in Nat
  BY <1>2, <1>3, FS_Subset, NoMore
<1>. QED  BY <1>4 DEF Paid

\* One Vault more is reached, or leaves the specification, at the price of a
\* change, an edit or a failure.
LEMMA PaidMore ==
  ASSUME TypeOK, Paid, NEW x, Reached' \subseteq Reached \cup {x},
         Lookup(spec)' \in {Lookup(spec), x}, Reached' \subseteq Vaults,
         Mishaps \in Nat, Mishaps' \in Nat, Mishaps + 1 <= Mishaps'
  PROVE  Paid'
<1>1. IsFiniteSet(Reached) /\ IsFiniteSet(Reached \ Target)
  BY FS_Subset DEF Paid
<1>2. Target = {Lookup(spec)} \cap Vaults /\ Target' = {Lookup(spec)'} \cap Vaults
  BY DEF Target
<1>3. PICK y : Reached' \ Target' \subseteq (Reached \ Target) \cup {y}
  <2>1. CASE Lookup(spec)' = x
    BY <1>2, <2>1
  <2>2. CASE Lookup(spec)' = Lookup(spec)
    BY <1>2, <2>2
  <2>. QED  BY <2>1, <2>2
<1>4. /\ Cardinality(Reached' \ Target') <= Cardinality(Reached \ Target) + 1
      /\ Cardinality(Reached' \ Target') \in Nat
      /\ Cardinality(Reached \ Target) \in Nat
  BY <1>1, <1>3, AtMostOneMore
<1>5. IsFiniteSet(Reached')
  <2>1. IsFiniteSet(Reached \cup {x})
    BY <1>1, FS_AddElement
  <2>. QED  BY <2>1, FS_Subset
<1>. QED  BY <1>4, <1>5 DEF Paid

\* A step of the controller reaches no Vault but those its reconcile has been
\* led to, or by a failed read the one of the resource's namespace.
LEMMA ControllerPaid ==
  ASSUME TypeOK, TypeOK', Paid, NEW o \in Workers,
         ControllerStep(o) \/ ControllerFault(o)
  PROVE  Paid'
<1>0. /\ Mishaps \in Nat /\ Mishaps' \in Nat
      /\ changes \in Nat /\ edits \in Nat /\ faults \in Nat
      /\ owned' \subseteq Vaults
  BY MishapsType DEF TypeOK
<1>1. /\ UNCHANGED <<spec, edits, config, restricted, changes>>
      /\ CarrySpec
      /\ \A v \in Workers \ {o} : client'[v] = client[v]
      /\ pc[o] # "idle" /\ specCopy[o] \in Refs
  BY ControllerFrame DEF setting
<1>2. /\ client[o].step \in {"read", "ready"} =>
           (client[o].vault \in Vaults => client[o].vault \in Reached)
      /\ Lookup(specCopy[o]) \in Vaults => Lookup(specCopy[o]) \in Reached
      /\ Lookup(spec) \in Vaults => Lookup(spec) \in Reached
      /\ owned \subseteq Reached /\ Reached \subseteq Vaults
  BY <1>1 DEF Reached, Led, Busy, TypeOK
<1>3. \A v \in Workers \ {o} : client'[v].step \in {"read", "ready"} =>
         client'[v].vault \in Reached \/ client'[v].vault \notin Vaults
  BY <1>1 DEF Reached, Led
<1>4. owned' \subseteq Reached
  <2>1. \/ owned' \subseteq owned
        \/ /\ client[o].step = "ready"
           /\ owned' = owned \cup {client[o].vault}
    BY ControllerEffect
  <2>2. client[o].step = "ready" => client[o].vault \in Vaults
    BY <1>1 DEF TypeOK
  <2>. QED  BY <1>2, <2>1, <2>2
<1>5. \A ref \in Refs : Lookup(ref)' = Lookup(ref)
  BY <1>1 DEF Lookup
<1>6. CASE /\ client'[o].step \in {"read", "ready"} =>
                 \/ client'[o].vault = Lookup(specCopy[o])
                 \/ client[o].step \in {"read", "ready"}
                    /\ client'[o].vault = client[o].vault
           /\ faults' \in {faults, faults + 1}
  <2>1. \A v \in Workers : client'[v].step \in {"read", "ready"} =>
           client'[v].vault \in Reached \/ client'[v].vault \notin Vaults
    BY <1>2, <1>3, <1>6
  <2>2. /\ Reached' \subseteq Vaults /\ Reached' \subseteq Reached \cup {Lookup(spec)}
        /\ Lookup(spec)' = Lookup(spec)
    BY <1>0, <1>1, <1>4, <1>5, <2>1, CarriedVaults
  <2>3. Reached' \subseteq Reached
    BY <1>2, <2>2
  <2>4. Mishaps <= Mishaps'
    <3>1. /\ changes' = changes /\ edits' = edits
          /\ faults' = faults \/ faults' = faults + 1
      BY <1>1, <1>6
    <3>2. changes \in Nat /\ edits \in Nat /\ faults \in Nat
      BY <1>0
    <3>. QED  BY <3>1, <3>2 DEF Mishaps
  <2>. QED  BY <1>0, <2>2, <2>3, <2>4, PaidKept
<1>7. CASE /\ client'[o].vault = config[<<"own", ConfigName(specCopy[o])>>]
           /\ faults' = faults + 1 /\ owned' = owned
  <2>. DEFINE x == config[<<"own", ConfigName(specCopy[o])>>]
  <2>1. \A v \in Workers : client'[v].step \in {"read", "ready"} =>
           client'[v].vault \in Reached \cup {x} \/ client'[v].vault \notin Vaults
    BY <1>3, <1>7
  <2>2. /\ Reached' \subseteq Vaults /\ Reached' \subseteq Reached \cup {x}
        /\ Lookup(spec)' \in {Lookup(spec), x}
    BY <1>0, <1>1, <1>4, <1>5, <2>1, CarriedVaults
  <2>3. Mishaps + 1 <= Mishaps'
    BY <1>0, <1>1, <1>7 DEF Mishaps
  <2>. QED  BY <1>0, <2>2, <2>3, PaidMore
<1>. QED  BY <1>6, <1>7, ControllerEffect

\* A step that only carries the specification reaches nothing more.
LEMMA CarriedPaid ==
  ASSUME TypeOK, TypeOK', Paid, CarrySpec,
         UNCHANGED <<spec, owned, config, restricted>>, Mishaps <= Mishaps',
         \A w \in Workers : client'[w] \in {NoClient, client[w]}
  PROVE  Paid'
<1>1. /\ Mishaps \in Nat /\ Mishaps' \in Nat
      /\ owned' \subseteq Reached /\ owned' \subseteq Vaults
      /\ \A ref \in Refs : Lookup(ref)' = Lookup(ref)
  BY MishapsType DEF TypeOK, Reached, Lookup
<1>2. \A w \in Workers : client'[w].step \in {"read", "ready"} =>
         client'[w].vault \in Reached \/ client'[w].vault \notin Vaults
  BY DEF NoClient, Client, Reached, Led
<1>3. /\ Reached' \subseteq Vaults /\ Reached' \subseteq Reached \cup {Lookup(spec)}
      /\ Lookup(spec)' = Lookup(spec)
  <2>1. spec \in Refs
    BY DEF TypeOK, SpecifiedTypeOK
  <2>. QED  BY <1>1, <1>2, <2>1, CarriedVaults
<1>4. Reached' \subseteq Reached
  BY <1>3 DEF Reached
<1>. QED  BY <1>1, <1>3, <1>4, PaidKept

\* An edit leads to one Vault more and is counted.
LEMMA EditPaid ==
  ASSUME TypeOK, TypeOK', Paid, EditSpec
  PROVE  Paid'
<1>0. /\ Mishaps \in Nat /\ Mishaps' \in Nat
      /\ changes \in Nat /\ edits \in Nat /\ faults \in Nat
      /\ owned \subseteq Vaults
  BY MishapsType DEF TypeOK
<1>1. /\ UNCHANGED <<client, owned, config, restricted, changes, faults>>
      /\ edits' = edits + 1 /\ CarrySpec
  BY EditSpecType DEF setting
<1>2. PICK ref \in Refs : spec' = ref
  BY DEF EditSpec, Edit
<1>. DEFINE x == Lookup(ref)
<1>3. /\ \A r \in Refs : Lookup(r)' = Lookup(r)
      /\ Lookup(spec)' = x
  BY <1>1, <1>2 DEF Lookup
<1>. HIDE DEF x
<1>4. /\ \A w \in Workers : client[w].step \in {"read", "ready"} =>
            client[w].vault \in Reached \/ client[w].vault \notin Vaults
      /\ owned \subseteq Reached
  BY <1>0 DEF Reached, Led
<1>5. /\ Reached' \subseteq Vaults /\ Reached' \subseteq Reached \cup {x}
      /\ Lookup(spec)' \in {Lookup(spec), x}
  BY <1>0, <1>1, <1>3, <1>4, CarriedVaults
<1>6. Mishaps + 1 <= Mishaps'
  BY <1>0, <1>1 DEF Mishaps
<1>. QED  BY <1>0, <1>5, <1>6, PaidMore

\* A change of a ProviderConfig leads the references to one name to one Vault
\* more, and is counted.
LEMMA SettingPaid ==
  ASSUME TypeOK, TypeOK', Paid, ChangeConfig \/ RotateToken
  PROVE  Paid'
<1>0. /\ Mishaps \in Nat /\ Mishaps' \in Nat
      /\ changes \in Nat /\ edits \in Nat /\ faults \in Nat
      /\ owned \subseteq Vaults /\ spec \in Refs
  BY MishapsType DEF TypeOK, SpecifiedTypeOK
<1>1. UNCHANGED <<pc, current, faults, spec, specCache, specCopy, edits,
                  restricted, client, owned>>
  BY SettingType DEF managedVars, specVars
<1>2. CarrySpec
  <2>1. specCache' = [w \in Workers |->
                         IF w \in current' \ current THEN spec ELSE specCache[w]]
    BY <1>1 DEF TypeOK, SpecifiedTypeOK
  <2>2. specCopy' = [w \in {v \in Workers : pc'[v] # "idle"} |->
                         IF w \in Busy THEN specCopy[w] ELSE specCache[w]]
    BY <1>1 DEF TypeOK, SpecifiedTypeOK, Busy
  <2>. QED  BY <2>1, <2>2 DEF CarrySpec
<1>3. /\ \A w \in Workers : client'[w].step \in {"read", "ready"} =>
            client'[w].vault \in Reached \/ client'[w].vault \notin Vaults
      /\ owned' \subseteq Reached /\ owned' \subseteq Vaults
  BY <1>0, <1>1 DEF Reached, Led
<1>4. CASE ChangeConfig
  <2>1. PICK at \in Places \X Names, to \in Configs :
           config' = [config EXCEPT ![at] = to]
    BY <1>4 DEF ChangeConfig
  <2>2. PICK place \in Places, name \in Names : at = <<place, name>>
    OBVIOUS
  <2>. DEFINE x == Lookup(name)'
  <2>3. \A ref \in Refs : Lookup(ref)' \in {Lookup(ref), x}
    <3>. SUFFICES ASSUME NEW ref \in Refs PROVE Lookup(ref)' \in {Lookup(ref), x}
      OBVIOUS
    <3>1. /\ ConfigName(ref) \in Names /\ ConfigName(name) = name
      BY ConnectionAssumption DEF ConfigName, Names
    <3>2. CASE ConfigName(ref) = name
      BY <3>1, <3>2 DEF Lookup
    <3>3. CASE ConfigName(ref) # name
      <4>1. \A p \in Places :
               config'[<<p, ConfigName(ref)>>] = config[<<p, ConfigName(ref)>>]
        BY <2>1, <2>2, <3>1, <3>3 DEF TypeOK
      <4>. QED  BY <1>1, <4>1 DEF Lookup, Places
    <3>. QED  BY <3>2, <3>3
  <2>. HIDE DEF x
  <2>4. /\ Reached' \subseteq Vaults /\ Reached' \subseteq Reached \cup {x}
        /\ Lookup(spec)' \in {Lookup(spec), x}
    BY <1>0, <1>1, <1>2, <1>3, <2>3, CarriedVaults
  <2>5. Mishaps + 1 <= Mishaps'
    BY <1>0, <1>1, <1>4 DEF Mishaps, ChangeConfig
  <2>. QED  BY <1>0, <2>4, <2>5, PaidMore
<1>5. CASE RotateToken
  <2>1. config' = config /\ changes' = changes
    BY <1>5 DEF RotateToken
  <2>2. Mishaps' = Mishaps
    BY <1>1, <2>1 DEF Mishaps
  <2>3. Mishaps <= Mishaps'
    BY <1>0, <2>2
  <2>. QED  BY <1>1, <1>2, <2>1, <2>3, CarriedPaid
<1>. QED  BY <1>4, <1>5

\* Nothing is reached at first but what the specification leads to.
LEMMA PaidInit == Init => Paid
<1>. SUFFICES ASSUME Init PROVE Paid
  OBVIOUS
<1>1. /\ owned = {} /\ Busy = {} /\ Led = {}
      /\ changes = 0 /\ edits = 0 /\ faults = 0
      /\ \A w \in Workers : specCache[w] = spec
  BY DEF Init, ManagedInit, SpecifiedInit, Busy, Led, NoClient, Client
<1>2. Reached = Target
  <2>1. \A v : v \in Reached <=> v \in Target
    BY <1>1 DEF Reached, Target
  <2>. QED  BY <2>1
<1>3. IsFiniteSet(Reached)
  <2>1. Target \subseteq {Lookup(spec)}
    BY DEF Target
  <2>2. IsFiniteSet({Lookup(spec)})
    BY FS_Singleton
  <2>. QED  BY <1>2, <2>1, <2>2, FS_Subset
<1>4. Cardinality(Reached \ Target) = 0
  <2>1. Reached \ Target = {}
    BY <1>2
  <2>. QED  BY <2>1, FS_EmptySet
<1>. QED  BY <1>1, <1>3, <1>4 DEF Paid, Mishaps

\* Every step pays for what it reaches.
LEMMA PaidStep == TypeOK /\ Paid /\ [Next]_vars => Paid'
<1>. SUFFICES ASSUME TypeOK, Paid, [Next]_vars PROVE Paid'
  OBVIOUS
<1>0. /\ TypeOK' /\ Mishaps \in Nat
      /\ changes \in Nat /\ edits \in Nat /\ faults \in Nat
  BY TypeStep, MishapsType
<1>1. ASSUME NEW w \in Workers, Managing(w) PROVE Paid'
  <2>1. /\ CarrySpec /\ DropClient
        /\ UNCHANGED <<spec, owned, config, restricted, changes, edits>>
        /\ ReconcilerStep(w) \/ ReconcilerFault(w) \/ SyncCache(w)
    BY <1>1 DEF Managing, Unmanaged, setting, world
  <2>2. \A v \in Workers : client'[v] \in {NoClient, client[v]}
    BY <2>1 DEF DropClient
  <2>3. Mishaps <= Mishaps'
    BY <1>0, <2>1, FaultsCounted
  <2>. QED  BY <1>0, <2>1, <2>2, <2>3, CarriedPaid
<1>2. CASE \E w \in Workers : ControllerStep(w) \/ ControllerFault(w)
  BY <1>0, <1>2, ControllerPaid
<1>3. CASE EditSpec
  BY <1>0, <1>3, EditPaid
<1>4. CASE RequestDelete /\ Unmanaged /\ DropClient /\ CarrySpec
  <2>1. UNCHANGED <<spec, owned, config, restricted, changes, edits, faults>>
    BY <1>4 DEF RequestDelete, Unmanaged, setting, world
  <2>2. \A v \in Workers : client'[v] \in {NoClient, client[v]}
    BY <1>4 DEF DropClient
  <2>3. Mishaps' = Mishaps /\ Mishaps <= Mishaps'
    BY <1>0, <2>1 DEF Mishaps
  <2>. QED  BY <1>0, <1>4, <2>1, <2>2, <2>3, CarriedPaid
<1>5. CASE ChangeConfig \/ RotateToken
  BY <1>0, <1>5, SettingPaid
<1>6. CASE UNCHANGED vars
  <2>1. UNCHANGED <<pc, faults, spec, specCache, specCopy, edits, config,
                    restricted, changes, client, owned>>
    BY <1>6 DEF vars, managedVars, specVars, setting, world
  <2>2. Reached' = Reached /\ Target' = Target /\ Mishaps' = Mishaps
    BY <2>1 DEF Reached, Target, Mishaps, Lookup, Busy, Led
  <2>. QED  BY <2>2 DEF Paid
<1>. QED  BY <1>1, <1>2, <1>3, <1>4, <1>5, <1>6 DEF Next, User

----------------------------------------------------------------------------
(***************************************************************************)
(* What a deletion leaves behind.                                          *)
(***************************************************************************)

\* Everything that is left of a resource that is gone has been paid for.
Cleared == Undisputed /\ ~api.present => Cardinality(owned) <= Mishaps

\* The finalizer goes once the object is gone from the Vault of the reconcile,
\* unless another process may be making one; nothing is created before there is
\* a finalizer and nothing after.
Sought ==
    /\ Undisputed =>
          \A w \in fresh : pc[w] = "unfinalize" =>
              client[w].vault \notin owned \/ Contended
    /\ api.present /\ ~api.finalizer => owned = {}
    /\ Undisputed /\ ~api.present => \A w \in Workers : pc[w] # "create"

History == CopiesAgree /\ Untouched /\ Marked /\ Sought

IInv == TypeOK /\ Paid /\ History /\ Cleared

\* The resource is still there, or still gone and nothing is created for it.
LEMMA ClearedKept ==
  ASSUME TypeOK, TypeOK', Paid, Cleared, Mishaps <= Mishaps',
         Undisputed' => Undisputed,
         Undisputed /\ ~api'.present => ~api.present /\ owned' \subseteq owned
  PROVE  Cleared'
<1>1. Mishaps \in Nat /\ Mishaps' \in Nat
  BY MishapsType
<1>2. IsFiniteSet(owned)
  <2>1. owned \subseteq Reached
    BY DEF Reached, TypeOK
  <2>. QED  BY <2>1, FS_Subset DEF Paid
<1>3. Undisputed /\ ~api'.present =>
         /\ Cardinality(owned') <= Cardinality(owned)
         /\ Cardinality(owned') \in Nat /\ Cardinality(owned) \in Nat
  BY <1>2, NoMore
<1>. QED  BY <1>1, <1>3 DEF Cleared

\* A step of the controller.
LEMMA ControllerKeeps ==
  ASSUME IInv, TypeOK', NEW w \in Workers, ControllerStep(w) \/ ControllerFault(w)
  PROVE  History' /\ Cleared'
<1>0. /\ TypeOK /\ ManagedTypeOK /\ CopiesAgree /\ Untouched /\ Marked /\ Sought
      /\ Paid /\ Cleared
      /\ changes \in Nat /\ edits \in Nat /\ faults \in Nat
  BY MishapsType DEF IInv, History, TypeOK
<1>1. /\ UNCHANGED <<api, conn, cache, current, mr, fresh, secret,
                     overrides, discarded, spec, edits, setting>>
      /\ \A v \in Workers \ {w} : pc'[v] = pc[v] /\ client'[v] = client[v]
  BY <1>0, ControllerFrame
<1>2. /\ UNCHANGED changes /\ Contended' = Contended
      /\ fresh \subseteq Workers
  BY <1>0, <1>1 DEF setting, Contended, ManagedTypeOK
<1>3. CopiesAgree' /\ Untouched'
  <2>1. CopiesAgree'
    BY <1>0, <1>1, ControllerEffect, ControllerCopies DEF Reading
  <2>2. Untouched'
    BY <1>0, <1>1, ControllerEffect, ControllerUntouched DEF Before
  <2>. QED  BY <2>1, <2>2
<1>4. Marked' /\ Undisputed' = Undisputed
  BY <1>0, <1>1, ControllerEffect, ControllerMarked DEF CreationSteps
<1>5. \/ owned' \subseteq owned
      \/ pc[w] = "create" /\ pc'[w] # "unfinalize"
  BY <1>0, ControllerEffect
<1>6. ASSUME Undisputed, NEW v \in fresh, pc'[v] = "unfinalize"
      PROVE  client'[v].vault \notin owned' \/ Contended'
  <2>1. CASE v = w
    BY <1>0, <1>6, <2>1, ControllerEffect
  <2>2. CASE v # w /\ owned' \subseteq owned
    BY <1>0, <1>1, <1>2, <1>6, <2>2 DEF Sought
  <2>3. CASE v # w /\ pc[w] = "create"
    BY <1>0, <1>2, <1>6, <2>3, CreationContends DEF CreationSteps
  <2>. QED  BY <1>5, <2>1, <2>2, <2>3
<1>7. Sought'
  <2>1. api.present /\ ~api.finalizer => owned' = {}
    BY <1>0, <1>5 DEF Sought, Untouched, Before
  <2>2. pc'[w] # "create"
    BY <1>0, ControllerEffect
  <2>. QED  BY <1>0, <1>1, <1>4, <1>6, <2>1, <2>2 DEF Sought
<1>8. Mishaps <= Mishaps'
  <2>1. faults' \in {faults, faults + 1}
    BY <1>0, ControllerEffect
  <2>. QED  BY <1>0, <1>1, <1>2, <2>1 DEF Mishaps
<1>9. Cleared'
  <2>1. Undisputed /\ ~api'.present => ~api.present /\ owned' \subseteq owned
    BY <1>0, <1>1, <1>5 DEF Sought
  <2>. QED  BY <1>0, <1>4, <1>8, <2>1, ClearedKept
<1>. QED  BY <1>3, <1>4, <1>7, <1>9 DEF History

\* A step of the reconciler that keeps the resource: it marks a creation only for
\* one that is there.
LEMMA ReconcilerPresent ==
  ASSUME ManagedTypeOK, CopiesAgree, NEW w \in Workers,
         ReconcilerStep(w) \/ ReconcilerFault(w) \/ SyncCache(w),
         ~RemoveFinalizer(w)
  PROVE  /\ api'.present = api.present
         /\ ~api'.finalizer => ~api.finalizer
         /\ pc'[w] = "create" /\ pc[w] # "create" => api.present
<1>. USE DEF ManagedTypeOK, CopiesAgree, Reading
<1>1. CASE Reconcile(w) \/ SyncCache(w)
  BY <1>1 DEF Reconcile, SyncCache, Goto
<1>2. CASE AddFinalizer(w)
  <2>1. /\ api'.present = api.present
        /\ api' = api \/ api'.finalizer
        /\ pc'[w] \in {"pend", "update", "status"}
    BY <1>2, AddFinalizerStores DEF AddFinalizer, Goto
  <2>. QED  BY <2>1
<1>3. CASE MarkCreatePending(w)
  <2>1. /\ api'.present = api.present /\ api'.finalizer = api.finalizer
        /\ api.present /\ pc'[w] = "create"
    BY <1>3, MarkCreatePendingStores DEF MarkCreatePending, Goto
  <2>. QED  BY <2>1
<1>4. CASE Conflict(w) \/ StatusConflict(w) \/ Abort(w)
  BY <1>4 DEF Conflict, StatusConflict, Abort, Finish, Goto
<1>5. CASE SaveAnnotations(w)
  <2>1. /\ api'.present = api.present /\ api'.finalizer = api.finalizer
        /\ pc'[w] \in {"publish", "status"}
    BY <1>5, SaveAnnotationsStores DEF SaveAnnotations, Goto
  <2>. QED  BY <2>1
<1>6. CASE LoseAnnotations(w) \/ PublishConnection(w) \/ LosePublication(w)
  BY <1>6 DEF LoseAnnotations, PublishConnection, LosePublication, Goto
<1>7. CASE SaveStatus(w)
  <2>1. /\ api'.present = api.present /\ api'.finalizer = api.finalizer
        /\ pc'[w] = "idle"
    BY <1>7, SaveStatusStores DEF SaveStatus, Finish, Goto
  <2>. QED  BY <2>1
<1>. QED
  BY <1>1, <1>2, <1>3, <1>4, <1>5, <1>6, <1>7 DEF ReconcilerStep, ReconcilerFault

\* What is left of a resource whose finalizer is removed: all that was reached but
\* the Vault of the last reconcile.
LEMMA ReleasePaid ==
  ASSUME TypeOK, Paid, NEW w \in Workers,
         pc[w] = "unfinalize", client[w].vault \notin owned
  PROVE  Cardinality(owned) <= Mishaps
<1>0. Mishaps \in Nat
  BY MishapsType
<1>1. /\ client[w].vault \in Reached \ owned /\ owned \subseteq Reached
      /\ IsFiniteSet(Reached) /\ IsFiniteSet(Reached \ Target)
  <2>1. client[w].step = "ready" /\ client[w].vault \in Vaults \ owned
    BY DEF TypeOK
  <2>. QED  BY <2>1, FS_Subset DEF Reached, Led, Paid, TypeOK
<1>2. /\ Cardinality(owned) \in Nat /\ Cardinality(Reached) \in Nat
      /\ Cardinality(owned) <= Cardinality(Reached) - 1
  BY <1>1, OneGone
<1>3. /\ Cardinality(Reached \ Target) \in Nat
      /\ Cardinality(Reached) - 1 <= Cardinality(Reached \ Target)
  <2>1. CASE Lookup(spec) \in Vaults
    <3>1. Reached \ Target = Reached \ {Lookup(spec)} /\ Lookup(spec) \in Reached
      BY <2>1 DEF Target, Reached
    <3>. QED  BY <1>1, <3>1, OneLess
  <2>2. CASE Lookup(spec) \notin Vaults
    <3>1. Reached \ Target = Reached
      BY <2>2 DEF Target
    <3>. QED  BY <1>2, <3>1
  <2>. QED  BY <2>1, <2>2
<1>. QED  BY <1>0, <1>2, <1>3 DEF Paid

\* A step of the reconciler.
LEMMA ManagingKeeps ==
  ASSUME IInv, TypeOK', NEW w \in Workers, Managing(w)
  PROVE  History' /\ Cleared'
<1>0. /\ TypeOK /\ ManagedTypeOK /\ CopiesAgree /\ Untouched /\ Marked /\ Sought
      /\ Paid /\ Cleared
      /\ ReconcilerStep(w) \/ ReconcilerFault(w) \/ SyncCache(w)
      /\ DropClient
      /\ UNCHANGED <<spec, owned, config, restricted, changes, edits>>
      /\ Mishaps \in Nat /\ Mishaps' \in Nat
      /\ ManagedTypeOK'
  BY MishapsType
  DEF IInv, History, TypeOK, Managing, Unmanaged, setting, world
<1>1. CopiesAgree' /\ Untouched' /\ Marked' /\ (Undisputed' => Undisputed)
  BY <1>0, ReconcilerCopies, ReconcilerUntouched, ReconcilerMarked
<1>2. Mishaps <= Mishaps'
  BY <1>0, FaultsCounted
<1>3. \A v \in Workers \ {w} : pc'[v] = pc[v]
  BY <1>0, ReconcilerFrame
<1>4. ASSUME Undisputed', NEW v \in fresh', pc'[v] = "unfinalize"
      PROVE  client'[v].vault \notin owned' \/ Contended'
  <2>1. v \in Workers /\ v \in fresh /\ pc[v] = "unfinalize" /\ api' = api
    BY <1>0, <1>4, ReconcilerWaits DEF ManagedTypeOK
  <2>2. client'[v] = client[v] /\ Contended' = Contended
    BY <1>0, <1>4, <2>1 DEF DropClient, Contended
  <2>. QED  BY <1>0, <1>1, <1>4, <2>1, <2>2 DEF Sought
<1>5. CASE ~RemoveFinalizer(w)
  <2>1. /\ api'.present = api.present
        /\ ~api'.finalizer => ~api.finalizer
        /\ pc'[w] = "create" /\ pc[w] # "create" => api.present
    BY <1>0, <1>5, ReconcilerPresent
  <2>2. Sought'
    BY <1>0, <1>1, <1>3, <1>4, <2>1 DEF Sought
  <2>3. Cleared'
    BY <1>0, <1>1, <1>2, <2>1, ClearedKept
  <2>. QED  BY <1>1, <2>2, <2>3 DEF History
<1>6. CASE RemoveFinalizer(w)
  <2>1. /\ ~api'.present /\ pc'[w] = "idle" /\ pc[w] = "unfinalize" /\ w \in fresh
    BY <1>0, <1>6, RemoveFinalizerStores
    DEF RemoveFinalizer, Finish, Goto, ManagedTypeOK
  <2>2. Undisputed' => /\ Undisputed /\ ~Contended
                       /\ \A v \in Workers : pc[v] # "create"
    BY <1>0, <1>6, ReleaseUncontended DEF CreationSteps
  <2>3. Sought'
    BY <1>3, <1>4, <2>1, <2>2 DEF Sought
  <2>4. Undisputed' => client[w].vault \notin owned
    BY <1>0, <2>1, <2>2 DEF Sought
  <2>5. Cardinality(owned) \in Nat
    <3>1. owned \subseteq Reached
      BY <1>0 DEF Reached, TypeOK
    <3>. QED  BY <1>0, <3>1, FS_Subset, FS_CardinalityType DEF Paid
  <2>6. Cleared'
    BY <1>0, <1>2, <2>1, <2>4, <2>5, ReleasePaid DEF Cleared
  <2>. QED  BY <1>1, <2>3, <2>6 DEF History
<1>. QED  BY <1>5, <1>6

\* The user: a resource without a finalizer has no objects.
LEMMA UserKeeps ==
  ASSUME IInv, TypeOK', User
  PROVE  History' /\ Cleared'
<1>0. /\ TypeOK /\ ManagedTypeOK /\ CopiesAgree /\ Untouched /\ Marked /\ Sought
      /\ Paid /\ Cleared
      /\ Mishaps \in Nat /\ Mishaps' \in Nat
  BY MishapsType DEF IInv, History, TypeOK
<1>1. CASE EditSpec
  <2>1. /\ UNCHANGED <<api, cache, mr, pc, secret, overrides, client, owned>>
        /\ api.present /\ current' = {} /\ fresh' = {}
    BY <1>0, <1>1, EditSpecType DEF EditSpec, Edit
  <2>2. CopiesAgree' /\ Untouched' /\ Marked' /\ Sought'
    BY <1>0, <2>1 DEF CopiesAgree, Untouched, Marked, Sought, Undisputed
  <2>3. Cleared'
    BY <2>1 DEF Cleared
  <2>. QED  BY <2>2, <2>3 DEF History
<1>2. CASE RequestDelete /\ Unmanaged /\ DropClient /\ CarrySpec
  <2>1. /\ api.present /\ api'.present = api.finalizer
        /\ api'.finalizer = api.finalizer
        /\ UNCHANGED <<pc, owned, changes, edits, faults, overrides>>
        /\ fresh' = {}
    BY <1>0, <1>2, RequestDeleteStores
    DEF RequestDelete, Unmanaged, setting, world
  <2>2. CopiesAgree' /\ Untouched' /\ Marked'
    BY <1>0, <1>2, UserCopies, UserUntouched, UserMarked DEF UserStep
  <2>3. client' = client
    BY <1>0, <1>2, <2>1 DEF DropClient, TypeOK
  <2>4. ~api.finalizer => owned = {} /\ \A w \in Workers : pc[w] # "create"
    BY <1>0, <2>1 DEF Sought, Untouched, Before
  <2>5. Sought'
    BY <1>0, <2>1, <2>3, <2>4 DEF Sought
  <2>6. ~api'.present => Cardinality(owned') = 0
    BY <2>1, <2>4, FS_EmptySet
  <2>7. Cleared'
    BY <1>0, <2>6 DEF Cleared
  <2>. QED  BY <2>2, <2>5, <2>7 DEF History
<1>. QED  BY <1>1, <1>2 DEF User

\* Others change ProviderConfigs and tokens only.
LEMMA OthersKeep ==
  ASSUME IInv, TypeOK', ChangeConfig \/ RotateToken
  PROVE  History' /\ Cleared'
<1>1. /\ UNCHANGED <<managedVars, client, owned>>
      /\ api.present
  BY SettingType DEF IInv, ChangeConfig, RotateToken
<1>2. UNCHANGED <<api, cache, mr, pc, secret, current, fresh, overrides>>
  BY <1>1 DEF managedVars
<1>. QED
  BY <1>1, <1>2
  DEF IInv, History, CopiesAgree, Untouched, Marked, Sought, Cleared,
      Undisputed, Contended

\* The invariant holds at first.
LEMMA InvInit == Init => IInv
<1>. SUFFICES ASSUME Init PROVE IInv
  OBVIOUS
<1>1. CopiesAgree /\ Untouched /\ Marked
  BY DEF Init, ManagedInit, CopiesAgree, Untouched, Before, NewObject, Marked,
         CreationSteps
<1>2. Sought /\ Cleared
  BY DEF Init, ManagedInit, NewObject, Sought, Cleared
<1>. QED  BY <1>1, <1>2, TypeInit, PaidInit DEF IInv, History

\* Every step keeps it.
LEMMA InvStep == IInv /\ [Next]_vars => IInv'
<1>. SUFFICES ASSUME IInv, [Next]_vars PROVE History' /\ Cleared'
  BY TypeStep, PaidStep DEF IInv
<1>0. TypeOK'
  BY TypeStep DEF IInv
<1>1. CASE UNCHANGED vars
  <2>1. UNCHANGED <<api, cache, mr, pc, secret, current, fresh, faults,
                    overrides, edits, changes, client, owned>>
    BY <1>1 DEF vars, managedVars, specVars, setting, world
  <2>. QED
    BY <2>1
    DEF IInv, History, CopiesAgree, Untouched, Marked, Sought, Cleared, Mishaps,
        Undisputed, Contended
<1>. QED
  BY <1>0, <1>1, ManagingKeeps, ControllerKeeps, UserKeeps, OthersKeep DEF Next

\* Whoever reconciles the resource, what is left in other Vaults was reached.
LEMMA ReachedBounds ==
  ASSUME TypeOK, Paid
  PROVE  Cardinality(Elsewhere) <= Mishaps + (IF api.present THEN 0 ELSE 1)
<1>1. /\ Elsewhere \subseteq Reached
      /\ api.present => Elsewhere \subseteq Reached \ Target
  BY DEF Elsewhere, Reached, TypeOK
<1>2. IsFiniteSet(Reached) /\ IsFiniteSet(Reached \ Target) /\ Mishaps \in Nat
  BY FS_Subset, MishapsType DEF Paid
<1>3. /\ Cardinality(Elsewhere) \in Nat
      /\ Cardinality(Elsewhere) <= Cardinality(Reached)
      /\ api.present => Cardinality(Elsewhere) <= Cardinality(Reached \ Target)
  BY <1>1, <1>2, NoMore
<1>4. Reached \subseteq (Reached \ Target) \cup {Lookup(spec)}
  BY DEF Target
<1>5. /\ Cardinality(Reached) <= Cardinality(Reached \ Target) + 1
      /\ Cardinality(Reached) \in Nat /\ Cardinality(Reached \ Target) \in Nat
  BY <1>2, <1>4, AtMostOneMore
<1>6. CASE api.present
  BY <1>2, <1>3, <1>5, <1>6 DEF Paid
<1>7. CASE ~api.present
  BY <1>2, <1>3, <1>5, <1>7 DEF Paid
<1>. QED  BY <1>6, <1>7

\* Undisputed, nothing of a resource that is gone is left but what was paid for.
LEMMA InvBounds == IInv => ElsewhereAccounted
<1>. SUFFICES ASSUME IInv
              PROVE  Cardinality(Elsewhere) <= Mishaps + Recreated
  BY DEF ElsewhereAccounted, Mishaps
<1>0. Mishaps \in Nat
  BY MishapsType DEF IInv
<1>1. CASE api.present
  BY <1>1, ReachedBounds DEF IInv, Recreated
<1>2. CASE ~api.present /\ Undisputed
  BY <1>0, <1>2 DEF Elsewhere, IInv, Cleared, Recreated
<1>3. CASE ~api.present /\ ~Undisputed
  BY <1>3, ReachedBounds DEF IInv, Recreated
<1>. QED  BY <1>1, <1>2, <1>3

\* An object is left behind in another Vault only by a change of a
\* ProviderConfig, an edit of the reference or a failure, at most one for each:
\* a reconcile creates and deletes in the one Vault its client was made for
\* (Connect, connect.go:53), and the finalizer goes only after Vault has answered
\* that the object is not there.  One more object can be there again once the
\* resource is gone if a process has gone ahead over the creation of another.
THEOREM ElsewhereBounded == Spec => []ElsewhereAccounted
  BY InvInit, InvStep, InvBounds, PTL DEF Spec

----------------------------------------------------------------------------
(***************************************************************************)
(* The release.                                                            *)
(***************************************************************************)

\* The process that removes the finalizer has found nothing in its Vault, and no
\* other has created anything there since.
LEMMA ReleaseStep ==
  ASSUME IInv, [Next]_vars, Released, Undisputed',
         NEW w \in Workers, pc[w] = "unfinalize", pc'[w] = "idle"
  PROVE  client[w].vault \notin owned
<1>0. TypeOK /\ ManagedTypeOK /\ CopiesAgree /\ Marked /\ Sought
  BY DEF IInv, History, TypeOK
<1>1. CASE \E v \in Workers : Managing(v)
  <2>1. PICK v \in Workers :
           ReconcilerStep(v) \/ ReconcilerFault(v) \/ SyncCache(v)
    BY <1>1 DEF Managing
  <2>2. RemoveFinalizer(v) /\ v \in fresh /\ v = w
    BY <1>0, <2>1, ReconcilerReleases, ReconcilerFrame
  <2>3. Undisputed /\ ~Contended
    BY <1>0, <2>2, ReleaseUncontended
  <2>. QED  BY <1>0, <2>2, <2>3 DEF Sought
<1>2. CASE \E v \in Workers : ControllerStep(v) \/ ControllerFault(v)
  BY <1>0, <1>2, ControllerFrame DEF Released
<1>3. CASE User
  BY <1>0, <1>3, RequestDeleteStores DEF User, EditSpec, Edit, Released
<1>4. CASE ChangeConfig \/ RotateToken \/ UNCHANGED vars
  BY <1>4 DEF ChangeConfig, RotateToken, Released, vars, managedVars
<1>. QED  BY <1>1, <1>2, <1>3, <1>4 DEF Next

\* For any number of processes, and whatever becomes of the ProviderConfigs and the
\* token meanwhile, a reconcile removes the finalizer only when the object it
\* would delete is not in the Vault its client was made for (vault.go:1228 tells an
\* absent object from a refusal), unless it goes ahead over a creation that another
\* process may still be at.
THEOREM RemovalFirst == Spec => GoneBeforeReleased
<1>1. IInv /\ [Next]_vars =>
         \A w \in Workers :
             Released /\ Undisputed' /\ pc[w] = "unfinalize" /\ pc'[w] = "idle" =>
                 client[w].vault \notin owned
  BY ReleaseStep
<1>. QED  BY <1>1, InvInit, InvStep, PTL DEF Spec, GoneBeforeReleased
=============================================================================
