-------------------------- MODULE NamedKinds_proofs --------------------------
(***************************************************************************)
(* Theorems about NamedKinds, for any kinds, names and bounds: the state   *)
(* keeps its type, and what is left behind in Vault is paid for by the     *)
(* changes of the name, but for one object where there are two processes   *)
(* or more.                                                                *)
(***************************************************************************)
EXTENDS NamedKinds, Managed_proofs

----------------------------------------------------------------------------
(***************************************************************************)
(* Type correctness.                                                       *)
(***************************************************************************)

\* A specification that is carried stays one.
LEMMA CarriedSpecs ==
  ASSUME NEW S, SpecifiedTypeOK(S), CarrySpec
  PROVE  specCache' \in [Workers -> S] /\ specCopy' \in [Busy' -> S]
<1>1. Busy' = {w \in Workers : pc'[w] # "idle"}
  BY DEF Busy
<1>. QED  BY <1>1 DEF SpecifiedTypeOK, CarrySpec

\* An edit gives a specification, and leaves the rest of the resource alone.
LEMMA EditType ==
  ASSUME ManagedTypeOK, NEW S, SpecifiedTypeOK(S), NEW new \in S, Edit(new)
  PROVE  /\ ManagedTypeOK'
         /\ spec' = new /\ edits' = edits + 1 /\ edits' \in 0 .. MaxEdits
         /\ specCache' \in [Workers -> S] /\ specCopy' \in [Busy' -> S]
<1>1. specCache' \in [Workers -> S] /\ specCopy' \in [Busy' -> S]
  BY CarriedSpecs DEF Edit
<1>2. edits' \in 0 .. MaxEdits
  BY SpecifiedAssumption DEF Edit, SpecifiedTypeOK
<1>. QED  BY <1>1, <1>2 DEF Edit, ManagedTypeOK

\* The objects of Vault, and the names of those the resource has written.
VaultTypeOK ==
    /\ DOMAIN vault \subseteq Names
    /\ \A n \in DOMAIN vault : vault[n] \in [kind.fields -> Stored]
    /\ owned \subseteq DOMAIN vault

\* What Vault can store depends on the kind only.
LEMMA StoredKept == kind' = kind => Stored' = Stored
  BY DEF Stored, Canonical

\* What a worker works on is a specification.
LEMMA CopyType ==
  ASSUME TypeOK, NEW w \in Workers, pc[w] # "idle"
  PROVE  /\ specCopy[w].name \in Names
         /\ specCopy[w].want \in [kind.fields -> Values]
<1>1. specCopy[w] \in Specs
  BY DEF TypeOK, SpecifiedTypeOK, Busy
<1>. QED  BY <1>1 DEF Specs, SpecOf

\* A write gives an object under the name of the copy.
LEMMA WriteType ==
  ASSUME TypeOK, NEW w \in Workers, pc[w] # "idle", NEW fields,
         Write(w, fields), kind' = kind
  PROVE  VaultTypeOK' /\ owned' = owned \cup {specCopy[w].name}
<1>. DEFINE name == specCopy[w].name
            prior == IF Exists(w) THEN vault[name]
                                  ELSE [f \in kind.fields |-> "default"]
<1>1. name \in Names /\ specCopy[w].want \in [kind.fields -> Values]
  BY CopyType
<1>2. prior \in [kind.fields -> Stored]
  BY DEF TypeOK, Exists, Stored
<1>3. Written(w, prior, fields) \in [kind.fields -> Stored]
  <2>1. \A f \in kind.fields :
           specCopy[w].want[f] # "unset"
             => Canonical(specCopy[w].want[f]) \in Stored
    BY <1>1 DEF Stored
  <2>. QED  BY <1>2, <2>1 DEF Written
<1>4. /\ vault' = [n \in DOMAIN vault \cup {name} |->
                      IF n = name THEN Written(w, prior, fields) ELSE vault[n]]
      /\ owned' = owned \cup {name}
  BY DEF Write
<1>5. /\ DOMAIN vault' = DOMAIN vault \cup {name}
      /\ \A n \in DOMAIN vault' :
            vault'[n] = IF n = name THEN Written(w, prior, fields) ELSE vault[n]
  BY <1>4
<1>. HIDE DEF name, prior
<1>6. VaultTypeOK'
  BY <1>1, <1>3, <1>4, <1>5, StoredKept DEF TypeOK, VaultTypeOK
<1>. QED  BY <1>4, <1>6 DEF name

\* A removal keeps the others.
LEMMA RemoveType ==
  ASSUME TypeOK, NEW name, Remove(name), kind' = kind
  PROVE  VaultTypeOK' /\ owned' \subseteq owned
  BY StoredKept DEF TypeOK, Remove, VaultTypeOK

\* A step of the controller keeps the type, leaves the resource and its
\* specification alone, and writes only on its way from Create or Update.
LEMMA ControllerFrame ==
  ASSUME TypeOK, NEW w \in Workers, ControllerStep(w) \/ CreateUnanswered(w)
  PROVE  /\ TypeOK'
         /\ UNCHANGED <<api, conn, cache, current, mr, fresh, secret,
                        kind, spec, renames>>
         /\ CarrySpec
         /\ \A v \in Workers \ {w} : pc'[v] = pc[v]
         /\ \/ /\ pc[w] \in {"create", "update"}
               /\ pc'[w] \in {"annotate", "annotateFailed", "status"}
               /\ owned' \subseteq owned \cup {specCopy[w].name}
            \/ /\ pc[w] \in {"observe", "update", "delete"}
               /\ pc'[w] = "status"
               /\ owned' \subseteq owned
            \/ /\ pc[w] = "observe" /\ owned' = owned
               /\ pc'[w] \in {"delete", "unfinalize", "finalizer"}
               /\ pc'[w] \in {"delete", "unfinalize"} <=> mr[w].deleting
               /\ pc'[w] = "unfinalize" => specCopy[w].name \notin owned
<1>0. /\ UNCHANGED <<api, conn, cache, current, mr, fresh, secret, overrides,
                     discarded, kind, spec, edits, renames>>
      /\ CarrySpec
      /\ pc[w] \in {"observe", "create", "update", "delete"}
  BY DEF ControllerStep, Observe, Create, CreateRefused, Update, Delete,
         CallRefused, CreateUnanswered, counters
<1>1. specCache' \in [Workers -> Specs] /\ specCopy' \in [Busy' -> Specs]
  BY <1>0, CarriedSpecs DEF TypeOK
<1>2. ASSUME pc' \in [Workers -> Steps],
             plan' \in [Workers -> {"pend", "update", "status"}],
             faults' \in 0 .. MaxFaults, upsets' \in 0 .. MaxUpsets, VaultTypeOK'
      PROVE  TypeOK'
  <2>1. ManagedTypeOK'
    BY <1>0, <1>2 DEF TypeOK, ManagedTypeOK
  <2>2. Specs' = Specs
    BY <1>0 DEF Specs
  <2>. QED
    BY <1>0, <1>1, <1>2, <2>1, <2>2 DEF TypeOK, SpecifiedTypeOK, VaultTypeOK
<1>3. VaultTypeOK /\ ManagedTypeOK /\ upsets \in 0 .. MaxUpsets
  BY DEF TypeOK, VaultTypeOK
<1>4. UNCHANGED <<kind, vault, owned>> => VaultTypeOK'
  BY <1>3, StoredKept DEF VaultTypeOK
<1>5. CASE Observe(w)
  <2>1. /\ pc' \in [Workers -> Steps]
        /\ plan' \in [Workers -> {"pend", "update", "status"}]
    BY <1>3, <1>5 DEF Observe, Decide, Goto, ManagedTypeOK, Steps
  <2>2. /\ pc[w] = "observe"
        /\ UNCHANGED <<kind, vault, owned, faults, upsets>>
    BY <1>5 DEF Observe, counters
  <2>3. TypeOK'
    BY <1>2, <1>3, <1>4, <2>1, <2>2 DEF ManagedTypeOK
  <2>4. /\ pc'[w] \in {"delete", "unfinalize", "finalizer"}
        /\ pc'[w] \in {"delete", "unfinalize"} <=> mr[w].deleting
        /\ pc'[w] = "unfinalize" => ~Exists(w)
        /\ \A v \in Workers \ {w} : pc'[v] = pc[v]
    BY <1>3, <1>5 DEF Observe, Decide, Goto, ManagedTypeOK
  <2>5. pc'[w] = "unfinalize" => specCopy[w].name \notin owned
    BY <2>4 DEF Exists, TypeOK
  <2>. QED  BY <1>0, <2>2, <2>3, <2>4, <2>5
<1>6. CASE Create(w) \/ CreateUnanswered(w)
  <2>1. VaultTypeOK' /\ owned' = owned \cup {specCopy[w].name}
    BY <1>0, <1>6, WriteType DEF Create, CreateUnanswered
  <2>2. /\ pc' \in [Workers -> Steps] /\ pc'[w] \in {"annotate", "annotateFailed"}
        /\ \A v \in Workers \ {w} : pc'[v] = pc[v]
    BY <1>3, <1>6 DEF Create, CreateUnanswered, Goto, ManagedTypeOK, Steps
  <2>3. /\ pc[w] = "create" /\ plan' = plan /\ upsets' = upsets
        /\ faults' \in 0 .. MaxFaults
    BY <1>3, <1>6, ManagedAssumption
    DEF Create, CreateUnanswered, Fault, ManagedTypeOK, counters
  <2>4. TypeOK'
    BY <1>2, <1>3, <2>1, <2>2, <2>3 DEF ManagedTypeOK
  <2>. QED  BY <1>0, <2>1, <2>2, <2>3, <2>4
<1>7. CASE CreateRefused(w) \/ CallRefused(w)
  <2>1. /\ pc' \in [Workers -> Steps] /\ plan' = plan /\ faults' = faults
        /\ UNCHANGED <<vault, owned>>
        /\ \A v \in Workers \ {w} : pc'[v] = pc[v]
        /\ \/ pc[w] = "create" /\ pc'[w] = "annotateFailed"
           \/ pc[w] \in {"observe", "update", "delete"} /\ pc'[w] = "status"
    BY <1>3, <1>7 DEF CreateRefused, CallRefused, Goto, ManagedTypeOK, Steps
  <2>2. upsets' \in 0 .. MaxUpsets
    BY <1>3, <1>7, NamedKindsAssumption DEF CreateRefused, CallRefused, Upset
  <2>3. TypeOK'
    BY <1>0, <1>2, <1>3, <1>4, <2>1, <2>2 DEF ManagedTypeOK
  <2>. QED  BY <1>0, <2>1, <2>3
<1>8. CASE Update(w)
  <2>1. /\ VaultTypeOK'
        /\ owned' \subseteq owned \cup {specCopy[w].name}
    <3>1. \/ \E fields : Write(w, fields)
          \/ UNCHANGED <<vault, owned>>
      BY <1>8 DEF Update
    <3>. QED  BY <1>0, <1>4, <3>1, WriteType
  <2>2. /\ pc[w] = "update" /\ pc'[w] = "status" /\ pc' \in [Workers -> Steps]
        /\ UNCHANGED <<plan, faults, upsets>>
        /\ \A v \in Workers \ {w} : pc'[v] = pc[v]
    BY <1>3, <1>8 DEF Update, Goto, ManagedTypeOK, Steps, counters
  <2>3. TypeOK'
    BY <1>2, <1>3, <2>1, <2>2 DEF ManagedTypeOK
  <2>. QED  BY <1>0, <2>1, <2>2, <2>3
<1>9. CASE Delete(w)
  <2>1. VaultTypeOK' /\ owned' \subseteq owned
    BY <1>0, <1>4, <1>9, RemoveType DEF Delete
  <2>2. /\ pc[w] = "delete" /\ pc'[w] = "status" /\ pc' \in [Workers -> Steps]
        /\ UNCHANGED <<plan, faults, upsets>>
        /\ \A v \in Workers \ {w} : pc'[v] = pc[v]
    BY <1>3, <1>9 DEF Delete, Goto, ManagedTypeOK, Steps, counters
  <2>3. TypeOK'
    BY <1>2, <1>3, <2>1, <2>2 DEF ManagedTypeOK
  <2>. QED  BY <1>0, <2>1, <2>2, <2>3
<1>. QED
  BY <1>5, <1>6, <1>7, <1>8, <1>9 DEF ControllerStep

\* An edit of the user gives a specification, and one of the name is counted.
LEMMA EditSpecType ==
  ASSUME TypeOK, EditSpec
  PROVE  /\ TypeOK'
         /\ UNCHANGED <<api, cache, mr, pc, owned>>
         /\ CarrySpec /\ current' = {} /\ fresh' = {}
         /\ \/ spec'.name = spec.name /\ renames' = renames
            \/ renames' = renames + 1
<1>1. spec.name \in Names /\ spec.want \in SpecOf(kind) /\ spec \in Specs
  BY DEF TypeOK, SpecifiedTypeOK, Specs
<1>2. UNCHANGED <<kind, vault, owned, upsets>>
  BY DEF EditSpec
<1>3. \E new \in Specs :
        /\ Edit(new)
        /\ \/ new.name = spec.name /\ renames' = renames
           \/ renames' = renames + 1
  <2>1. CASE \E f \in kind.fields, value \in Values :
               /\ value = "unset" => f \in kind.optional
               /\ value = "odd" => f \in kind.durations
               /\ Edit([spec EXCEPT !.want[f] = value])
               /\ UNCHANGED renames
    <3>1. PICK f \in kind.fields, value \in Values :
             /\ value = "unset" => f \in kind.optional
             /\ value = "odd" => f \in kind.durations
             /\ Edit([spec EXCEPT !.want[f] = value])
             /\ UNCHANGED renames
      BY <2>1
    <3>2. [spec.want EXCEPT ![f] = value] \in SpecOf(kind)
      BY <1>1, <3>1 DEF SpecOf
    <3>3. [spec EXCEPT !.want[f] = value]
            = [spec EXCEPT !.want = [spec.want EXCEPT ![f] = value]]
      OBVIOUS
    <3>4. /\ [spec EXCEPT !.want = [spec.want EXCEPT ![f] = value]] \in Specs
          /\ [spec EXCEPT !.want = [spec.want EXCEPT ![f] = value]].name = spec.name
      BY <1>1, <3>2 DEF Specs
    <3>. QED  BY <3>1, <3>3, <3>4
  <2>2. CASE \E n \in Names : Edit([spec EXCEPT !.name = n]) /\ renames' = renames + 1
    BY <1>1, <2>2 DEF Specs
  <2>. QED  BY <2>1, <2>2 DEF EditSpec
<1>4. PICK new \in Specs :
        /\ Edit(new)
        /\ \/ new.name = spec.name /\ renames' = renames
           \/ renames' = renames + 1
  BY <1>3
<1>5. /\ ManagedTypeOK'
      /\ spec' = new /\ edits' = edits + 1 /\ edits' \in 0 .. MaxEdits
      /\ specCache' \in [Workers -> Specs] /\ specCopy' \in [Busy' -> Specs]
  BY <1>4, EditType DEF TypeOK
<1>6. Specs' = Specs
  BY <1>2 DEF Specs
<1>7. renames' \in 0 .. edits'
  BY <1>4, <1>5, SpecifiedAssumption DEF TypeOK, SpecifiedTypeOK
<1>8. TypeOK'
  BY <1>2, <1>5, <1>6, <1>7, StoredKept DEF TypeOK, SpecifiedTypeOK
<1>. QED  BY <1>2, <1>4, <1>5, <1>8 DEF Edit

\* What operators do keeps the type, and gives the resource nothing.
LEMMA TamperType ==
  ASSUME TypeOK, Tamper
  PROVE  /\ TypeOK'
         /\ UNCHANGED <<managedVars, specVars, kind, renames>>
         /\ owned' \subseteq owned
<1>1. UNCHANGED <<managedVars, specVars, kind, renames>>
  BY DEF Tamper
<1>2. spec.name \in Names
  BY DEF TypeOK, SpecifiedTypeOK, Specs
<1>3. VaultTypeOK' /\ owned' \subseteq owned
  <2>1. CASE Remove(spec.name)
    BY <1>1, <2>1, RemoveType
  <2>2. CASE /\ \E f \in kind.fields : vault' = [vault EXCEPT ![spec.name][f] = "default"]
             /\ owned' = owned
    <3>1. PICK f \in kind.fields : vault' = [vault EXCEPT ![spec.name][f] = "default"]
      BY <2>2
    <3>2. /\ DOMAIN vault' = DOMAIN vault
          /\ \A n \in DOMAIN vault :
                vault'[n] \in {vault[n], [vault[n] EXCEPT ![f] = "default"]}
      BY <3>1
    <3>3. \A n \in DOMAIN vault : vault'[n] \in [kind.fields -> Stored]
      BY <3>2 DEF TypeOK, Stored
    <3>. QED
      BY <1>1, <2>2, <3>2, <3>3, StoredKept DEF TypeOK, VaultTypeOK, managedVars
  <2>3. CASE /\ vault' = [n \in DOMAIN vault \cup {spec.name} |->
                             IF n = spec.name THEN [f \in kind.fields |-> "default"]
                                              ELSE vault[n]]
             /\ owned' = owned
    <3>1. [f \in kind.fields |-> "default"] \in [kind.fields -> Stored]
      BY DEF Stored
    <3>. QED
      BY <1>1, <1>2, <2>3, <3>1, StoredKept DEF TypeOK, VaultTypeOK
  <2>. QED  BY <2>1, <2>2, <2>3 DEF Tamper
<1>4. upsets' \in 0 .. MaxUpsets
  BY NamedKindsAssumption DEF Tamper, Upset, TypeOK
<1>5. Specs' = Specs
  BY <1>1 DEF Specs
<1>6. TypeOK'
  BY <1>1, <1>3, <1>4, <1>5
  DEF TypeOK, VaultTypeOK, ManagedTypeOK, SpecifiedTypeOK, Busy, managedVars, specVars
<1>. QED  BY <1>1, <1>3, <1>6

\* The initial states have the type.
LEMMA TypeInit == Init => TypeOK
<1>. SUFFICES ASSUME Init PROVE TypeOK
  OBVIOUS
<1>1. ManagedTypeOK
  BY NewObjectType, ManagedInitType DEF Init, IdOrNone
<1>2. spec \in Specs /\ spec.name \in Names
  BY NamedKindsAssumption DEF Init, Specs, SpecOf, Values
<1>3. Busy = {}
  BY DEF Init, ManagedInit, Busy
<1>4. specCache \in [Workers -> Specs] /\ specCopy \in [Busy -> Specs]
  <2>1. specCopy = <<>> /\ specCache = [w \in Workers |-> spec]
    BY DEF Init, SpecifiedInit
  <2>2. <<>> \in [{} -> Specs]
    OBVIOUS
  <2>. QED  BY <1>2, <1>3, <2>1, <2>2
<1>5. SpecifiedTypeOK(Specs)
  BY <1>2, <1>4, SpecifiedAssumption DEF Init, SpecifiedInit, SpecifiedTypeOK
<1>6. DOMAIN vault \subseteq {spec.name}
      /\ \A n \in DOMAIN vault : vault[n] \in [kind.fields -> Stored]
  <2>1. CASE vault = <<>>
    <3>1. DOMAIN <<>> = {}
      OBVIOUS
    <3>. QED  BY <2>1, <3>1
  <2>2. CASE vault = [n \in {spec.name} |-> [f \in kind.fields |-> "default"]]
    BY <2>2 DEF Stored
  <2>. QED  BY <2>1, <2>2 DEF Init
<1>. QED
  BY <1>1, <1>2, <1>5, <1>6, NamedKindsAssumption, SpecifiedAssumption
  DEF Init, SpecifiedInit, TypeOK

\* Every step keeps the type.
LEMMA TypeStep == TypeOK /\ [Next]_vars => TypeOK'
<1>. SUFFICES ASSUME TypeOK, [Next]_vars PROVE TypeOK'
  OBVIOUS
<1>1. ASSUME ManagedTypeOK', CarrySpec, Unmanaged PROVE TypeOK'
  <2>1. specCache' \in [Workers -> Specs] /\ specCopy' \in [Busy' -> Specs]
    BY <1>1, CarriedSpecs DEF TypeOK
  <2>2. Specs' = Specs
    BY <1>1 DEF Specs, Unmanaged
  <2>. QED
    BY <1>1, <2>1, <2>2, StoredKept
    DEF TypeOK, SpecifiedTypeOK, Unmanaged, counters
<1>2. CASE \E w \in Workers : Managing(w)
  <2>1. ManagedTypeOK'
    BY <1>2, ReconcilerType DEF Managing, TypeOK
  <2>. QED  BY <1>1, <1>2, <2>1 DEF Managing
<1>3. CASE \E w \in Workers : ControllerStep(w) \/ CreateUnanswered(w)
  BY <1>3, ControllerFrame
<1>4. CASE EditSpec
  BY <1>4, EditSpecType
<1>5. CASE RequestDelete /\ CarrySpec /\ Unmanaged
  <2>1. ManagedTypeOK'
    BY <1>5, UserType DEF UserStep, TypeOK
  <2>. QED  BY <1>1, <1>5, <2>1
<1>6. CASE Tamper
  BY <1>6, TamperType
<1>7. CASE UNCHANGED vars
  <2>1. Specs' = Specs
    BY <1>7 DEF vars, Specs
  <2>. QED
    BY <1>7, <2>1, StoredKept
    DEF vars, managedVars, specVars, TypeOK, ManagedTypeOK, SpecifiedTypeOK, Busy
<1>. QED  BY <1>2, <1>3, <1>4, <1>5, <1>6, <1>7 DEF Next, User

\* The state keeps its type: a name the resource has written holds an object,
\* and objects hold only what Vault can store, neither an unset field nor a
\* value in a form Vault does not give back.
THEOREM TypeCorrect == Spec => []TypeOK
  BY TypeInit, TypeStep, PTL DEF Spec

----------------------------------------------------------------------------
(***************************************************************************)
(* The names that are reached, by any number of processes.                 *)
(***************************************************************************)

\* The names the resource has written, or can still write without an edit.
Reached ==
    owned \cup {spec.name} \cup {specCache[w].name : w \in Workers}
          \cup {specCopy[w].name : w \in Busy}

\* Every reached name but that of the specification has been paid for.
Paid ==
    /\ IsFiniteSet(Reached)
    /\ Cardinality(Reached \ {spec.name}) <= renames

\* The names that are reached are carried like the specification.
LEMMA CarriedNames ==
  ASSUME TypeOK, CarrySpec, owned' \subseteq Reached
  PROVE  Reached' \subseteq Reached \cup {spec'.name}
<1>1. Busy' = {w \in Workers : pc'[w] # "idle"}
  BY DEF Busy
<1>2. /\ \A w \in Workers : specCache'[w] \in {spec, specCache[w]}
      /\ \A w \in Busy' : specCopy'[w] = IF w \in Busy THEN specCopy[w] ELSE specCache[w]
      /\ Busy' \subseteq Workers
  BY <1>1 DEF CarrySpec
<1>3. Reached' = owned' \cup {spec'.name} \cup {specCache'[w].name : w \in Workers}
                       \cup {specCopy'[w].name : w \in Busy'}
  BY DEF Reached
<1>4. \A w \in Workers : specCache'[w].name \in Reached
  BY <1>2 DEF Reached
<1>5. \A w \in Busy' : specCopy'[w].name \in Reached
  BY <1>2 DEF Reached
<1>. QED  BY <1>3, <1>4, <1>5

\* Nothing more is reached but by a change of the name.
LEMMA PaidKept ==
  ASSUME TypeOK, Paid, Reached' \subseteq Reached \cup {spec'.name},
         \/ spec'.name = spec.name /\ renames' = renames
         \/ renames' = renames + 1
  PROVE  Paid'
<1>1. renames \in Nat
  BY SpecifiedAssumption DEF TypeOK, SpecifiedTypeOK
<1>2. IsFiniteSet(Reached \cup {spec'.name}) /\ IsFiniteSet(Reached \ {spec.name})
  BY FS_AddElement, FS_Subset DEF Paid
<1>3. IsFiniteSet(Reached')
  BY <1>2, FS_Subset
<1>4. CASE spec'.name = spec.name /\ renames' = renames
  <2>1. Reached' \ {spec'.name} \subseteq Reached \ {spec.name}
    BY <1>4
  <2>2. /\ Cardinality(Reached' \ {spec'.name}) <= Cardinality(Reached \ {spec.name})
        /\ Cardinality(Reached' \ {spec'.name}) \in Nat
        /\ Cardinality(Reached \ {spec.name}) \in Nat
    BY <1>2, <2>1, NoMore
  <2>. QED  BY <1>1, <1>3, <1>4, <2>2 DEF Paid
<1>5. CASE renames' = renames + 1
  <2>1. Reached' \ {spec'.name} \subseteq (Reached \ {spec.name}) \cup {spec.name}
    OBVIOUS
  <2>2. /\ Cardinality(Reached' \ {spec'.name}) <= Cardinality(Reached \ {spec.name}) + 1
        /\ Cardinality(Reached' \ {spec'.name}) \in Nat
        /\ Cardinality(Reached \ {spec.name}) \in Nat
    BY <1>2, <2>1, AtMostOneMore
  <2>. QED  BY <1>1, <1>3, <1>5, <2>2 DEF Paid
<1>. QED  BY <1>4, <1>5

\* The names that are reached are paid for from the beginning.
LEMMA PaidInit == Init => Paid
<1>. SUFFICES ASSUME Init PROVE Paid
  OBVIOUS
<1>1. /\ owned = {} /\ renames = 0
      /\ Busy = {}
      /\ \A w \in Workers : specCache[w].name = spec.name
  <2>1. /\ owned = {} /\ renames = 0
        /\ \A w \in Workers : pc[w] = "idle"
        /\ specCache = [w \in Workers |-> spec]
    BY DEF Init, ManagedInit, SpecifiedInit
  <2>. QED  BY <2>1 DEF Busy
<1>2. \A n : n \in Reached <=> n = spec.name
  BY <1>1 DEF Reached
<1>3. Reached = {spec.name} /\ Reached \ {spec.name} = {}
  BY <1>2
<1>4. IsFiniteSet(Reached)
  BY <1>3, FS_Singleton
<1>5. Cardinality(Reached \ {spec.name}) = 0
  BY <1>3, FS_EmptySet
<1>. QED  BY <1>1, <1>4, <1>5 DEF Paid

\* A step writes no name but one that is reached.
LEMMA PaidStep == TypeOK /\ Paid /\ [Next]_vars => Paid'
<1>. SUFFICES ASSUME TypeOK, Paid, [Next]_vars PROVE Paid'
  OBVIOUS
<1>. USE DEF Reached
<1>1. ASSUME NEW w \in Workers, Managing(w) PROVE Paid'
  <2>1. CarrySpec /\ UNCHANGED <<spec, owned, renames>>
    BY <1>1 DEF Managing, Unmanaged, counters
  <2>. QED  BY <2>1, CarriedNames, PaidKept
<1>2. ASSUME NEW w \in Workers, ControllerStep(w) \/ CreateUnanswered(w)
      PROVE  Paid'
  <2>1. /\ CarrySpec /\ UNCHANGED <<spec, renames>>
        /\ pc[w] # "idle"
        /\ owned' \subseteq owned \cup {specCopy[w].name}
    BY <1>2, ControllerFrame
  <2>2. owned' \subseteq Reached
    BY <2>1 DEF Busy
  <2>. QED  BY <2>1, <2>2, CarriedNames, PaidKept
<1>3. CASE EditSpec
  <2>1. /\ CarrySpec /\ owned' = owned
        /\ \/ spec'.name = spec.name /\ renames' = renames
           \/ renames' = renames + 1
    BY <1>3, EditSpecType
  <2>. QED  BY <2>1, CarriedNames, PaidKept
<1>4. CASE RequestDelete /\ CarrySpec /\ Unmanaged
  <2>1. CarrySpec /\ UNCHANGED <<spec, owned, renames>>
    BY <1>4 DEF Unmanaged, counters
  <2>. QED  BY <2>1, CarriedNames, PaidKept
<1>5. CASE Tamper \/ UNCHANGED vars
  <2>1. UNCHANGED <<pc, spec, specCache, specCopy, renames>> /\ owned' \subseteq owned
    BY <1>5, TamperType DEF vars, managedVars, specVars
  <2>2. Reached' \subseteq Reached
    BY <2>1 DEF Busy
  <2>. QED  BY <2>1, <2>2, PaidKept
<1>. QED  BY <1>1, <1>2, <1>3, <1>4, <1>5 DEF Next, User

----------------------------------------------------------------------------
(***************************************************************************)
(* What is left behind, by one process.                                    *)
(***************************************************************************)

\* Everything that is left of a resource that is gone has been paid for.
Cleared == ~api.present => Cardinality(owned) <= renames

\* The finalizer goes once the object of the reconcile's specification is gone,
\* and nothing is written before there is a finalizer.
Sought ==
    /\ \A w \in Workers :
          pc[w] = "unfinalize" => mr[w].deleting /\ specCopy[w].name \notin owned
    /\ api.present /\ ~api.finalizer => owned = {}

\* A copy from which nothing is written when the resource is gone.
Spent(object) == object.deleting \/ ~object.finalizer

\* Nothing is written for a resource that is gone, whatever its caches say.
Gone ==
    ~api.present =>
        \A w \in Workers :
            /\ cache[w].present => Spent(cache[w])
            /\ pc[w] = "observe" => Spent(mr[w])
            /\ pc[w] = "finalizer" => ~mr[w].finalizer
            /\ pc[w] \notin {"pend", "create", "update"}

History == CopiesAgree /\ CopiesCurrent /\ Untouched /\ Sought /\ Gone

IInv == TypeOK /\ Paid /\ History /\ Cleared

\* The resource is still there, or still gone and nothing is written for it.
LEMMA ClearedKept ==
  ASSUME TypeOK, Paid, Cleared, renames' = renames,
         ~api'.present => ~api.present /\ owned' \subseteq owned
  PROVE  Cleared'
<1>1. renames \in Nat
  BY SpecifiedAssumption DEF TypeOK, SpecifiedTypeOK
<1>2. IsFiniteSet(owned)
  BY FS_Subset DEF Paid, Reached
<1>3. ~api'.present => /\ Cardinality(owned') <= Cardinality(owned)
                       /\ Cardinality(owned') \in Nat /\ Cardinality(owned) \in Nat
  BY <1>2, NoMore
<1>. QED  BY <1>1, <1>3 DEF Cleared

\* A step of the reconciler.
LEMMA ManagingStep ==
  ASSUME NEW o, Workers = {o}, IInv, Managing(o)
  PROVE  History' /\ Cleared'
<1>0. /\ TypeOK /\ ManagedTypeOK /\ CopiesAgree /\ CopiesCurrent /\ Untouched
      /\ Sought /\ Gone /\ Paid /\ Cleared
      /\ ReconcilerStep(o) \/ ReconcilerFault(o) \/ SyncCache(o)
      /\ CarrySpec
      /\ UNCHANGED <<spec, owned, renames>>
  BY DEF IInv, History, TypeOK, Managing, Unmanaged, counters
<1>1. CopiesAgree' /\ CopiesCurrent' /\ Untouched'
  BY <1>0, ReconcilerCopies, ReconcilerCurrent, ReconcilerUntouched
<1>2. renames \in Nat
  BY <1>0, SpecifiedAssumption DEF TypeOK, SpecifiedTypeOK
<1>. USE DEF ManagedTypeOK, Sought, Gone, Spent, CopiesAgree, Reading
<1>. SUFFICES /\ Sought' /\ Gone'
              /\ ~api'.present =>
                    \/ ~api.present
                    \/ /\ Cardinality(owned) <= Cardinality(Reached \ {spec.name})
                       /\ Cardinality(owned) \in Nat
                       /\ Cardinality(Reached \ {spec.name}) \in Nat
  <2>1. CASE ~api'.present => ~api.present
    BY <1>0, <1>1, <2>1, ClearedKept DEF History
  <2>2. CASE /\ Cardinality(owned) <= Cardinality(Reached \ {spec.name})
             /\ Cardinality(owned) \in Nat
             /\ Cardinality(Reached \ {spec.name}) \in Nat
    <3>1. Cleared'
      BY <1>0, <1>2, <2>2 DEF Paid, Cleared
    <3>. QED  BY <1>0, <1>1, <2>2, <3>1 DEF History
  <2>. QED  BY <2>1, <2>2
<1>3. \A w \in Busy : w \in Busy' => specCopy'[w] = specCopy[w]
  BY <1>0 DEF CarrySpec, Busy
<1>4. CASE Reconcile(o)
  BY <1>0, <1>4 DEF Reconcile, Goto
<1>5. CASE AddFinalizer(o)
  <2>1. /\ api'.present = api.present /\ pc'[o] = plan[o] /\ cache' = cache
        /\ mr[o].finalizer \/ api.present
        /\ pc[o] = "finalizer"
        /\ api' = api \/ api'.finalizer
    BY <1>0, <1>5, AddFinalizerStores DEF AddFinalizer, Goto
  <2>. QED  BY <1>0, <2>1
<1>6. CASE MarkCreatePending(o)
  <2>1. /\ api'.present = api.present /\ api'.finalizer = api.finalizer
        /\ api.present /\ pc'[o] = "create"
    BY <1>0, <1>6, MarkCreatePendingStores DEF MarkCreatePending, Goto
  <2>. QED  BY <1>0, <2>1
<1>7. CASE RemoveFinalizer(o)
  <2>1. /\ ~api'.present /\ pc'[o] = "idle" /\ cache' = cache
        /\ o \in fresh /\ pc[o] = "unfinalize"
    BY <1>0, <1>7, RemoveFinalizerStores DEF RemoveFinalizer, Finish, Goto
  <2>2. Spent(cache[o])
    BY <1>0, <2>1 DEF CopiesCurrent
  <2>3. /\ Cardinality(owned) <= Cardinality(Reached \ {spec.name})
        /\ Cardinality(owned) \in Nat
        /\ Cardinality(Reached \ {spec.name}) \in Nat
    <3>1. /\ specCopy[o].name \in Reached \ owned
          /\ IsFiniteSet(Reached) /\ owned \subseteq Reached /\ spec.name \in Reached
      BY <1>0, <2>1 DEF Reached, Busy, Paid
    <3>2. /\ Cardinality(owned) \in Nat /\ Cardinality(Reached) \in Nat
          /\ Cardinality(owned) <= Cardinality(Reached) - 1
      BY <3>1, OneGone
    <3>3. /\ Cardinality(Reached \ {spec.name}) \in Nat
          /\ Cardinality(Reached \ {spec.name}) = Cardinality(Reached) - 1
      BY <3>1, OneLess
    <3>. QED  BY <3>2, <3>3
  <2>. QED  BY <1>0, <2>1, <2>2, <2>3
<1>8. CASE Conflict(o) \/ StatusConflict(o) \/ Abort(o)
  BY <1>0, <1>8 DEF Conflict, StatusConflict, Abort, Finish, Goto
<1>9. CASE SaveAnnotations(o)
  <2>1. /\ api.present /\ api'.present = api.present
        /\ api'.finalizer = api.finalizer
        /\ pc'[o] \in {"publish", "status"}
    BY <1>0, <1>9, SaveAnnotationsStores DEF SaveAnnotations, Goto
  <2>. QED  BY <1>0, <2>1
<1>10. CASE LoseAnnotations(o) \/ PublishConnection(o) \/ LosePublication(o)
  BY <1>0, <1>10 DEF LoseAnnotations, PublishConnection, LosePublication, Goto
<1>11. CASE SaveStatus(o)
  <2>1. /\ api'.present = api.present /\ api'.finalizer = api.finalizer
        /\ api.present /\ pc'[o] = "idle"
    BY <1>0, <1>11, SaveStatusStores DEF SaveStatus, Finish, Goto
  <2>. QED  BY <1>0, <2>1
<1>12. CASE SyncCache(o)
  BY <1>0, <1>3, <1>12 DEF SyncCache, Busy
<1>. QED
  BY <1>0, <1>4, <1>5, <1>6, <1>7, <1>8, <1>9, <1>10, <1>11, <1>12
  DEF ReconcilerStep, ReconcilerFault

\* A step of the controller writes a name it has reached, for a resource that
\* is there.
LEMMA ControllerKeeps ==
  ASSUME NEW o, Workers = {o}, IInv, ControllerStep(o) \/ CreateUnanswered(o)
  PROVE  History' /\ Cleared'
<1>0. /\ TypeOK /\ ManagedTypeOK /\ CopiesAgree /\ CopiesCurrent /\ Untouched
      /\ Sought /\ Gone /\ Paid /\ Cleared
      /\ UNCHANGED <<api, conn, cache, current, mr, fresh, secret,
                     kind, spec, renames>>
      /\ CarrySpec
  BY ControllerFrame DEF IInv, History, TypeOK
<1>1. \/ /\ pc[o] \in {"create", "update"}
         /\ pc'[o] \in {"annotate", "annotateFailed", "status"}
         /\ owned' \subseteq owned \cup {specCopy[o].name}
      \/ /\ pc[o] \in {"observe", "update", "delete"}
         /\ pc'[o] = "status"
         /\ owned' \subseteq owned
      \/ /\ pc[o] = "observe" /\ owned' = owned
         /\ pc'[o] \in {"delete", "unfinalize", "finalizer"}
         /\ pc'[o] \in {"delete", "unfinalize"} <=> mr[o].deleting
         /\ pc'[o] = "unfinalize" => specCopy[o].name \notin owned
  BY <1>0, ControllerFrame
<1>2. CopiesAgree' /\ CopiesCurrent' /\ Untouched'
  <2>1. CopiesAgree'
    BY <1>0, <1>1, ControllerCopies DEF Reading
  <2>2. Untouched'
    BY <1>0, <1>1, ControllerUntouched DEF Before
  <2>3. CopiesCurrent'
    BY <1>0, <1>1 DEF CopiesCurrent, ManagedTypeOK
  <2>. QED  BY <2>1, <2>2, <2>3
<1>3. pc[o] # "idle"
  BY <1>1
<1>6. ~api.present => owned' \subseteq owned
  BY <1>0, <1>1 DEF Gone
<1>7. Cleared'
  BY <1>0, <1>6, ClearedKept
<1>8. Gone'
  BY <1>0, <1>1 DEF Gone, Spent
<1>9. Sought'
  <2>1. api.present /\ ~api.finalizer => owned' = {}
    BY <1>0, <1>1 DEF Sought, Untouched, Before
  <2>2. pc'[o] = "unfinalize" =>
           /\ mr[o].deleting /\ owned' = owned
           /\ specCopy[o].name \notin owned
    BY <1>1
  <2>3. o \in Busy' => specCopy'[o] = specCopy[o]
    BY <1>0, <1>3 DEF CarrySpec, Busy
  <2>4. pc'[o] = "unfinalize" => o \in Busy'
    BY DEF Busy
  <2>. QED  BY <1>0, <2>1, <2>2, <2>3, <2>4 DEF Sought
<1>. QED  BY <1>2, <1>7, <1>8, <1>9 DEF History

\* The user: a resource without a finalizer has written nothing.
LEMMA UserKeeps ==
  ASSUME NEW o, Workers = {o}, IInv, User
  PROVE  History' /\ Cleared'
<1>0. /\ TypeOK /\ ManagedTypeOK /\ CopiesAgree /\ CopiesCurrent /\ Untouched
      /\ Sought /\ Gone /\ Paid /\ Cleared
      /\ renames \in Nat
  BY SpecifiedAssumption DEF IInv, History, TypeOK, SpecifiedTypeOK
<1>1. CASE EditSpec
  <2>1. /\ UNCHANGED <<api, cache, mr, pc, owned>>
        /\ CarrySpec /\ current' = {} /\ fresh' = {}
        /\ \/ spec'.name = spec.name /\ renames' = renames
           \/ renames' = renames + 1
        /\ secret' = secret /\ api.present
    BY <1>0, <1>1, EditSpecType DEF EditSpec, Edit
  <2>2. CopiesAgree' /\ CopiesCurrent' /\ Untouched' /\ Gone'
    BY <1>0, <2>1 DEF CopiesAgree, CopiesCurrent, Untouched, Gone
  <2>3. Sought'
    <3>1. \A w \in Busy : w \in Busy' /\ specCopy'[w] = specCopy[w]
      BY <2>1 DEF CarrySpec, Busy
    <3>. QED  BY <1>0, <2>1, <3>1 DEF Sought, Busy
  <2>4. Cleared'
    BY <2>1 DEF Cleared
  <2>. QED  BY <2>2, <2>3, <2>4 DEF History
<1>2. CASE RequestDelete /\ CarrySpec /\ Unmanaged
  <2>1. /\ api.present /\ api'.present = api.finalizer
        /\ api'.finalizer = api.finalizer
        /\ UNCHANGED <<cache, mr, pc, spec, owned, renames>>
        /\ CarrySpec /\ fresh' = {} /\ current' = {}
    BY <1>0, <1>2, RequestDeleteStores DEF RequestDelete, Unmanaged, counters
  <2>2. CopiesAgree' /\ Untouched' /\ CopiesCurrent'
    BY <1>0, <1>2, <2>1, UserCopies, UserUntouched DEF UserStep, CopiesCurrent
  <2>4. \A w \in Busy : w \in Busy' /\ specCopy'[w] = specCopy[w]
    BY <2>1 DEF CarrySpec, Busy
  <2>5. Sought'
    BY <1>0, <2>1, <2>4 DEF Sought, Busy
  <2>6. ~api.finalizer =>
           /\ owned = {}
           /\ \A w \in Workers : /\ ~cache[w].finalizer /\ ~mr[w].finalizer
                                 /\ pc[w] \in Before
    BY <1>0, <2>1 DEF Sought, Untouched, NewObject
  <2>7. Gone'
    BY <1>0, <2>1, <2>6 DEF Gone, Spent, Before
  <2>8. Cleared'
    <3>1. CASE api.finalizer
      BY <1>0, <2>1, <3>1, ClearedKept
    <3>2. CASE ~api.finalizer
      <4>1. Cardinality(owned') = 0
        BY <2>1, <2>6, <3>2, FS_EmptySet
      <4>. QED  BY <1>0, <2>1, <4>1 DEF Cleared
    <3>. QED  BY <3>1, <3>2
  <2>. QED  BY <2>2, <2>5, <2>7, <2>8 DEF History
<1>. QED  BY <1>1, <1>2 DEF User

\* What others do takes nothing but objects.
LEMMA TamperKeeps ==
  ASSUME IInv, Tamper \/ UNCHANGED vars
  PROVE  History' /\ Cleared'
<1>0. /\ UNCHANGED <<managedVars, specVars, kind, renames>>
      /\ owned' \subseteq owned
  BY TamperType DEF IInv, vars
<1>1. CopiesAgree' /\ CopiesCurrent' /\ Untouched' /\ Gone' /\ Sought'
  BY <1>0
  DEF managedVars, specVars, IInv, History, CopiesAgree, CopiesCurrent,
      Untouched, Gone, Sought
<1>2. Cleared'
  BY <1>0, ClearedKept DEF IInv, managedVars
<1>. QED  BY <1>1, <1>2 DEF History

\* The inductive invariant holds initially.
LEMMA InvInit ==
  ASSUME NEW o, Workers = {o}
  PROVE  Init => IInv
<1>. SUFFICES ASSUME Init PROVE IInv
  OBVIOUS
<1>1. TypeOK
  BY TypeInit
<1>2. CopiesAgree /\ CopiesCurrent /\ Untouched /\ Sought /\ Gone
  BY DEF Init, ManagedInit, CopiesAgree, CopiesCurrent, Untouched, Before,
         NewObject, Sought, Gone
<1>3. api.present
  BY DEF Init, ManagedInit, NewObject
<1>. QED  BY <1>1, <1>2, <1>3, PaidInit DEF IInv, History, Cleared

\* Every step keeps it.
LEMMA InvStep ==
  ASSUME NEW o, Workers = {o}
  PROVE  IInv /\ [Next]_vars => IInv'
<1>. SUFFICES ASSUME IInv, [Next]_vars PROVE History' /\ Cleared'
  BY TypeStep, PaidStep DEF IInv
<1>. QED
  BY ManagingStep, ControllerKeeps, UserKeeps, TamperKeeps DEF Next

\* Whoever reconciles the resource, what is left behind has been reached.
LEMMA ReachedBounds ==
  ASSUME TypeOK, Paid
  PROVE  Cardinality(Strays) <= renames + (IF api.present THEN 0 ELSE 1)
<1>1. Strays \subseteq Reached /\ (api.present => Strays \subseteq Reached \ {spec.name})
  BY DEF Strays, Reached
<1>2. IsFiniteSet(Reached) /\ IsFiniteSet(Reached \ {spec.name})
  BY FS_Subset DEF Paid
<1>3. /\ Cardinality(Strays) \in Nat
      /\ Cardinality(Strays) <= Cardinality(Reached)
      /\ api.present => Cardinality(Strays) <= Cardinality(Reached \ {spec.name})
  BY <1>1, <1>2, NoMore
<1>4. /\ Cardinality(Reached) \in Nat
      /\ Cardinality(Reached \ {spec.name}) = Cardinality(Reached) - 1
      /\ renames \in Nat
  <2>1. spec.name \in Reached
    BY DEF Reached
  <2>2. renames \in Nat
    BY SpecifiedAssumption DEF TypeOK, SpecifiedTypeOK
  <2>. QED  BY <1>2, <2>1, <2>2, OneLess
<1>5. CASE api.present
  BY <1>3, <1>4, <1>5 DEF Paid
<1>6. CASE ~api.present
  BY <1>3, <1>4, <1>6 DEF Paid
<1>. QED  BY <1>5, <1>6

\* With one process, nothing of a resource that is gone is left but what was
\* paid for.
LEMMA InvBounds == IInv => Cardinality(Strays) <= renames
<1>1. CASE api.present
  BY <1>1, ReachedBounds, SpecifiedAssumption DEF IInv, TypeOK, SpecifiedTypeOK
<1>2. CASE ~api.present
  BY <1>2 DEF Strays, IInv, Cleared
<1>. QED  BY <1>1, <1>2

\* Whatever fails and whichever cache is read, what the resource has written
\* stays behind only under names its specification was changed away from, one
\* object for each change.  With one process the finalizer is not removed while
\* the object of the last name is there (Delete and the Observe after it), and
\* nothing is written for a resource that is gone; where there are more, that
\* object alone can be there again.
THEOREM StraysBounded == Spec => []StraysAccounted
<1>1. Spec => [](TypeOK /\ Paid)
  BY TypeInit, PaidInit, TypeStep, PaidStep, PTL DEF Spec
<1>2. CASE \E o : Workers = {o}
  <2>1. PICK o : Workers = {o}
    BY <1>2
  <2>2. Init => IInv
    BY <2>1, InvInit
  <2>3. IInv /\ [Next]_vars => IInv'
    BY <2>1, InvStep
  <2>4. Cardinality(Workers) = 1
    BY <2>1, FS_Singleton
  <2>5. IInv => StraysAccounted
    <3>1. TypeOK => renames \in Nat
      BY SpecifiedAssumption DEF TypeOK, SpecifiedTypeOK
    <3>. QED  BY <2>4, <3>1, InvBounds DEF IInv, StraysAccounted, Rewritten
  <2>. QED  BY <2>2, <2>3, <2>5, PTL DEF Spec
<1>3. CASE ~\E o : Workers = {o}
  <2>1. Cardinality(Workers) # 1
    BY <1>3, ManagedAssumption, FS_Singleton
  <2>2. TypeOK /\ Paid => StraysAccounted
    BY <2>1, ReachedBounds DEF StraysAccounted, Rewritten
  <2>. QED  BY <1>1, <2>2, PTL
<1>. QED  BY <1>2, <1>3

----------------------------------------------------------------------------
(***************************************************************************)
(* The release.                                                            *)
(***************************************************************************)

\* What is of the latest version has the latest specification.
SpecsAgree ==
    /\ \A w \in current : specCache[w] = spec
    /\ \A w \in fresh : pc[w] \in Reading => specCopy[w] = spec

\* A reconcile that reads the specification of the latest version has read it
\* from a current cache, or was reading it before.
LEMMA ManagingSpecs ==
  ASSUME TypeOK, SpecsAgree, NEW w \in Workers, Managing(w)
  PROVE  SpecsAgree'
<1>. USE DEF SpecsAgree
<1>1. /\ ReconcilerStep(w) \/ ReconcilerFault(w) \/ SyncCache(w)
      /\ CarrySpec /\ spec' = spec
      /\ ManagedTypeOK /\ ManagedTypeOK'
  BY ReconcilerType DEF Managing, Unmanaged, TypeOK
<1>2. /\ current' \subseteq Workers /\ fresh' \subseteq Workers
      /\ \A v \in Workers : specCache'[v] =
            IF v \in current' \ current THEN spec ELSE specCache[v]
      /\ \A v \in Workers : pc'[v] # "idle" =>
            specCopy'[v] = IF v \in Busy THEN specCopy[v] ELSE specCache[v]
  BY <1>1 DEF CarrySpec, ManagedTypeOK
<1>3. \A v \in current' : specCache'[v] = spec'
  BY <1>1, <1>2
<1>4. ASSUME NEW v \in fresh', pc'[v] \in Reading
      PROVE  specCopy'[v] = spec'
  <2>1. v \in Workers /\ pc'[v] # "idle"
    BY <1>2, <1>4 DEF Reading
  <2>2. CASE Reconcile(w) /\ v = w
    BY <1>1, <1>2, <2>1, <2>2 DEF Reconcile, Busy
  <2>3. CASE ~(Reconcile(w) /\ v = w)
    <3>1. v \in fresh /\ pc[v] \in Reading
      <4>1. CASE v # w
        BY <1>1, <1>4, <2>1, <4>1, ReconcilerFrame
      <4>2. CASE v = w
        <5>. USE <1>1, <1>4, <2>1, <4>2 DEF ManagedTypeOK, Reading
        <5>1. CASE AddFinalizer(w)
          BY <5>1 DEF AddFinalizer, Store
        <5>2. CASE MarkCreatePending(w) \/ SaveAnnotations(w)
          BY <5>2 DEF MarkCreatePending, SaveAnnotations, Goto
        <5>3. CASE RemoveFinalizer(w) \/ Conflict(w) \/ SaveStatus(w)
                   \/ StatusConflict(w) \/ Abort(w)
          BY <5>3 DEF RemoveFinalizer, Conflict, SaveStatus, StatusConflict,
                      Abort, Finish, Goto
        <5>4. CASE PublishConnection(w) \/ LosePublication(w) \/ LoseAnnotations(w)
          BY <5>4 DEF PublishConnection, LosePublication, LoseAnnotations, Goto
        <5>5. CASE SyncCache(w)
          BY <5>5 DEF SyncCache
        <5>. QED
          BY <2>3, <5>1, <5>2, <5>3, <5>4, <5>5
          DEF ReconcilerStep, ReconcilerFault
      <4>. QED  BY <4>1, <4>2
    <3>2. v \in Busy
      BY <2>1, <3>1 DEF Busy, Reading
    <3>. QED  BY <1>1, <1>2, <2>1, <3>1, <3>2
  <2>. QED  BY <2>2, <2>3
<1>. QED  BY <1>3, <1>4

\* Every step keeps it, whoever takes it.
LEMMA SpecsStep == TypeOK /\ SpecsAgree /\ [Next]_vars => SpecsAgree'
<1>. SUFFICES ASSUME TypeOK, SpecsAgree, [Next]_vars
              PROVE  SpecsAgree'
  OBVIOUS
<1>1. CASE \E w \in Workers : Managing(w)
  BY <1>1, ManagingSpecs
<1>. USE DEF SpecsAgree
<1>2. ASSUME NEW w \in Workers, ControllerStep(w) \/ CreateUnanswered(w)
      PROVE  SpecsAgree'
  <2>1. /\ UNCHANGED <<current, fresh, spec>> /\ CarrySpec
        /\ \A v \in Workers \ {w} : pc'[v] = pc[v]
        /\ pc'[w] \in Reading => pc[w] \in Reading
    BY <1>2, ControllerFrame DEF Reading
  <2>2. current \subseteq Workers /\ fresh \subseteq Workers
    BY DEF TypeOK, ManagedTypeOK
  <2>3. /\ \A v \in Workers : specCache'[v] = specCache[v]
        /\ \A v \in Busy : pc'[v] # "idle" => specCopy'[v] = specCopy[v]
    BY <2>1 DEF CarrySpec, Busy
  <2>. QED  BY <2>1, <2>2, <2>3 DEF Reading, Busy
<1>3. CASE EditSpec
  BY <1>3 DEF EditSpec, Edit
<1>4. CASE RequestDelete /\ CarrySpec /\ Unmanaged
  BY <1>4 DEF RequestDelete
<1>5. CASE Tamper \/ UNCHANGED vars
  BY <1>5, TamperType DEF vars, managedVars, specVars
<1>. QED  BY <1>1, <1>2, <1>3, <1>4, <1>5 DEF Next, User

\* Only the removal of the finalizer releases the resource, and the process
\* that does it has the present name, under which it has found nothing.
LEMMA ReleaseStep ==
  ASSUME NEW o, Workers = {o}
  PROVE  IInv /\ SpecsAgree /\ [Next]_vars =>
             (Released => spec.name \notin owned)
<1>. SUFFICES ASSUME IInv, SpecsAgree, [Next]_vars, Released
              PROVE  spec.name \notin owned
  OBVIOUS
<1>0. TypeOK /\ ManagedTypeOK /\ CopiesAgree /\ Sought
  BY DEF IInv, History, TypeOK
<1>1. CASE \E w \in Workers : Managing(w)
  <2>1. PICK w \in Workers : Managing(w)
    BY <1>1
  <2>2. pc[w] = "unfinalize" /\ w \in fresh
    BY <1>0, <2>1, ReconcilerReleases DEF Managing
  <2>. QED  BY <1>0, <2>2 DEF Sought, SpecsAgree, Reading
<1>2. CASE \E w \in Workers : ControllerStep(w) \/ CreateUnanswered(w)
  BY <1>0, <1>2, ControllerFrame DEF Released
<1>3. CASE User
  BY <1>0, <1>3, RequestDeleteStores DEF User, EditSpec, Edit, Released
<1>4. CASE Tamper \/ UNCHANGED vars
  BY <1>0, <1>4, TamperType DEF Released, vars, managedVars
<1>. QED  BY <1>1, <1>2, <1>3, <1>4 DEF Next

\* With one process the finalizer is removed only once the object that the
\* resource has written under its present name is gone, whatever the kind: the
\* name may be edited while Delete (policy.go:141-150 and its like) is at work on
\* another, but then the removal of the finalizer is refused.
THEOREM RemovalFirst ==
  ASSUME \E o : Workers = {o}
  PROVE  Spec => GoneBeforeReleased
<1>1. PICK o : Workers = {o}
  OBVIOUS
<1>2. Init => IInv
  BY <1>1, InvInit
<1>3. IInv /\ [Next]_vars => IInv'
  BY <1>1, InvStep
<1>4. Init => SpecsAgree
  BY DEF Init, ManagedInit, SpecifiedInit, SpecsAgree
<1>5. IInv /\ SpecsAgree /\ [Next]_vars => SpecsAgree'
  BY SpecsStep DEF IInv
<1>6. IInv /\ SpecsAgree /\ [Next]_vars => (Released => spec.name \notin owned)
  BY <1>1, ReleaseStep
<1>. QED
  BY <1>2, <1>3, <1>4, <1>5, <1>6, PTL DEF Spec, GoneBeforeReleased
=============================================================================
