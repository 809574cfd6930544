--------------------------- MODULE PKIConfig_proofs ---------------------------
(***************************************************************************)
(* Theorems about PKIConfig: the state keeps its type for any number of    *)
(* processes, and each process generates one root and no more than one     *)
(* again for each change made by others.                                   *)
(***************************************************************************)
EXTENDS PKIConfig, Managed_proofs

----------------------------------------------------------------------------
(***************************************************************************)
(* Type correctness.                                                       *)
(***************************************************************************)

\* A specification that is carried stays one.
LEMMA CarriedSpecs ==
  ASSUME NEW S, SpecifiedTypeOK(S), CarrySpec
  PROVE  specCache' \in [Workers -> S] /\ specCopy' \in [Busy' -> S]
<1>1. Busy' = {w \in Workers : pc'[w] # "idle"}
  BY DEF Busy
<1>. QED  BY <1>1 DEF SpecifiedTypeOK, CarrySpec

\* A worker that is busy has a specification, and writing what it sets to the
\* configuration gives a configuration.
LEMMA WrittenType ==
  ASSUME TypeOK, NEW w \in Workers, pc[w] # "idle", NEW part \in Parts
  PROVE  Written(w, part) \in [Parts -> Stored]
<1>1. specCopy[w] \in Specs
  BY DEF TypeOK, SpecifiedTypeOK, Busy
<1>2. specCopy[w][part] \in Values
  BY <1>1 DEF Specs
<1>3. Wants(w, part) => Canonical(specCopy[w][part]) \in Stored
  BY <1>2 DEF Wants, Canonical, Values, Stored
<1>. QED  BY <1>3 DEF TypeOK, Written

\* The controller's steps leave the resource and its specification alone.
LEMMA ControllerFrame ==
  ASSUME NEW w \in Workers, ControllerStep(w) \/ Unanswered(w)
  PROVE  /\ UNCHANGED <<api, conn, cache, current, mr, fresh, secret,
                        overrides, discarded, spec, edits, answers, tampers>>
         /\ pc[w] # "idle"
         /\ CarrySpec
  BY DEF ControllerStep, ReadCA, ReadURLs, ReadCRL, GenerateRootCA,
         ConfigurePKIURLs, ConfigurePKICRL, Refused, Delete, ObserveRefused,
         Unanswered, pki, Creating, Updating

\* What the answers of Observe lead to.
LEMMA DecideType ==
  ASSUME ManagedTypeOK, NEW w \in Workers, NEW exists, NEW upToDate,
         Decide(w, exists, upToDate)
  PROVE  /\ pc' \in [Workers -> Steps]
         /\ plan' \in [Workers -> {"pend", "update", "status"}]
         /\ pc'[w] \in {"delete", "unfinalize", "finalizer"}
         /\ \A v \in Workers \ {w} : pc'[v] = pc[v] /\ plan'[v] = plan[v]
         /\ exists => plan'[w] # "pend"
  BY DEF ManagedTypeOK, Decide, Goto, Steps

\* ... and keep the type.
LEMMA ControllerType ==
  ASSUME TypeOK, NEW w \in Workers, ControllerStep(w) \/ Unanswered(w)
  PROVE  TypeOK'
<1>0. /\ UNCHANGED <<api, conn, cache, current, mr, fresh, secret,
                     overrides, discarded, spec, edits, answers, tampers>>
      /\ pc[w] # "idle"
      /\ specCache' \in [Workers -> Specs] /\ specCopy' \in [Busy' -> Specs]
  BY ControllerFrame, CarriedSpecs DEF TypeOK
<1>. USE DEF TypeOK, ManagedTypeOK
<1>. SUFFICES /\ pc' \in [Workers -> Steps]
              /\ plan' \in [Workers -> {"pend", "update", "status"}]
              /\ faults' \in 0 .. MaxFaults
              /\ mount' \in {"absent", "empty", "root"}
              /\ config' \in [Parts -> Stored]
              /\ drift' \subseteq {v \in Workers : pc'[v] = "readcrl"}
              /\ generated' \in Nat
              /\ refusals' \in 0 .. MaxRefusals
  BY <1>0 DEF SpecifiedTypeOK
<1>1. CASE ReadCA(w)
  <2>1. CASE RootFound
    BY <1>1, <2>1 DEF ReadCA, Goto, Steps, pki
  <2>2. CASE ~RootFound
    BY <1>1, <2>2, DecideType DEF ReadCA, pki
  <2>. QED  BY <2>1, <2>2
<1>2. CASE ReadURLs(w)
  <2>1. CASE Wants(w, "urls") /\ NotFound("urls")
    <3>1. Decide(w, FALSE, FALSE) /\ drift' = drift
      BY <1>2, <2>1 DEF ReadURLs
    <3>2. w \notin drift
      BY <1>2 DEF ReadURLs
    <3>. QED  BY <1>2, <3>1, <3>2, DecideType DEF ReadURLs
  <2>2. CASE ~(Wants(w, "urls") /\ NotFound("urls"))
    <3>1. pc' = [pc EXCEPT ![w] = "readcrl"] /\ drift' \subseteq drift \cup {w}
      BY <1>2, <2>2 DEF ReadURLs, Goto
    <3>2. /\ pc' \in [Workers -> Steps]
          /\ drift' \subseteq {v \in Workers : pc'[v] = "readcrl"}
      BY <3>1 DEF Steps
    <3>3. UNCHANGED <<plan, faults, mount, config, generated, refusals>>
      BY <1>2, <2>2 DEF ReadURLs
    <3>. QED  BY <3>2, <3>3
  <2>. QED  BY <2>1, <2>2
<1>3. CASE ReadCRL(w)
  <2>1. \E exists, upToDate : Decide(w, exists, upToDate)
    BY <1>3 DEF ReadCRL
  <2>. QED  BY <1>3, <2>1, DecideType DEF ReadCRL
<1>4. CASE GenerateRootCA(w)
  BY <1>4 DEF GenerateRootCA, Generate, Goto, Steps
<1>5. CASE ConfigurePKIURLs(w)
  <2>1. config' \in [Parts -> Stored]
    BY <1>0, <1>5, WrittenType DEF ConfigurePKIURLs, Parts
  <2>. QED  BY <1>5, <2>1 DEF ConfigurePKIURLs, Goto, Steps
<1>6. CASE ConfigurePKICRL(w)
  <2>1. config' \in [Parts -> Stored]
    BY <1>0, <1>6, WrittenType DEF ConfigurePKICRL, Parts
  <2>. QED  BY <1>6, <2>1 DEF ConfigurePKICRL, Goto, Steps
<1>7. CASE Refused(w)
  BY <1>7, PKIConfigAssumption
  DEF Refused, Refuse, Fail, Goto, Steps, Creating, Updating, pki
<1>8. CASE Delete(w)
  BY <1>8 DEF Delete, Goto, Steps, pki
<1>9. CASE ObserveRefused(w)
  BY <1>9, PKIConfigAssumption DEF ObserveRefused, Refuse, Goto, Steps
<1>10. CASE Unanswered(w)
  <2>1. config' \in [Parts -> Stored]
    BY <1>0, <1>10, WrittenType DEF Unanswered, Part, Parts
  <2>2. mount' \in {"absent", "empty", "root"} /\ generated' \in Nat
    BY <1>10 DEF Unanswered, Generate
  <2>3. faults' \in 0 .. MaxFaults
    BY <1>10, ManagedAssumption DEF Unanswered, Fault
  <2>. QED
    BY <1>10, <2>1, <2>2, <2>3
    DEF Unanswered, Fail, Goto, Steps, Creating, Updating
<1>. QED
  BY <1>1, <1>2, <1>3, <1>4, <1>5, <1>6, <1>7, <1>8, <1>9, <1>10
  DEF ControllerStep

\* The initial states have the type.
LEMMA TypeInit == Init => TypeOK
<1>. SUFFICES ASSUME Init PROVE TypeOK
  OBVIOUS
<1>1. ManagedTypeOK
  BY NewObjectType, ManagedInitType DEF Init, IdOrNone
<1>2. spec \in Specs /\ Busy = {}
  BY DEF Init, ManagedInit, Specs, Values, Parts, Busy
<1>3. SpecifiedTypeOK(Specs)
  BY <1>2, SpecifiedAssumption DEF Init, SpecifiedInit, SpecifiedTypeOK
<1>. QED
  BY <1>1, <1>3, PKIConfigAssumption DEF Init, TypeOK, Defaults, Stored

\* Every step keeps the type.
LEMMA TypeStep == TypeOK /\ [Next]_vars => TypeOK'
<1>. SUFFICES ASSUME TypeOK, [Next]_vars PROVE TypeOK'
  OBVIOUS
<1>1. CASE \E w \in Workers : Managing(w)
  <2>1. ManagedTypeOK'
    BY <1>1, ReconcilerType DEF Managing, TypeOK
  <2>2. specCache' \in [Workers -> Specs] /\ specCopy' \in [Busy' -> Specs]
    BY <1>1, CarriedSpecs DEF Managing, TypeOK
  <2>. QED
    BY <1>1, <2>1, <2>2
    DEF Managing, Unmanaged, ForgetDrift, TypeOK, SpecifiedTypeOK
<1>2. CASE \E w \in Workers : ControllerStep(w) \/ Unanswered(w)
  BY <1>2, ControllerType
<1>3. CASE EditSpec
  <2>1. PICK new \in Specs : Edit(new)
    BY <1>3 DEF EditSpec
  <2>2. spec' \in Specs
    BY <2>1 DEF Edit
  <2>3. specCache' \in [Workers -> Specs] /\ specCopy' \in [Busy' -> Specs]
    BY <2>1, CarriedSpecs DEF Edit, TypeOK
  <2>4. edits' \in 0 .. MaxEdits
    BY <2>1, SpecifiedAssumption DEF Edit, TypeOK, SpecifiedTypeOK
  <2>5. ManagedTypeOK'
    BY <2>1 DEF Edit, TypeOK, ManagedTypeOK
  <2>. QED
    BY <1>3, <2>1, <2>2, <2>3, <2>4, <2>5
    DEF EditSpec, Edit, pki, TypeOK, SpecifiedTypeOK
<1>4. CASE RequestDelete /\ Unmanaged /\ ForgetDrift /\ CarrySpec
  <2>1. ManagedTypeOK'
    BY <1>4, UserType DEF UserStep, TypeOK
  <2>2. specCache' \in [Workers -> Specs] /\ specCopy' \in [Busy' -> Specs]
    BY <1>4, CarriedSpecs DEF TypeOK
  <2>. QED
    BY <1>4, <2>1, <2>2 DEF Unmanaged, ForgetDrift, TypeOK, SpecifiedTypeOK
<1>5. CASE Tamper
  <2>1. mount' \in {"absent", "empty", "root"}
    BY <1>5 DEF Tamper, TypeOK
  <2>2. config' \in [Parts -> Stored]
    BY <1>5 DEF Tamper, TypeOK, Defaults, Stored
  <2>3. tampers' \in 0 .. MaxTampers
    BY <1>5, PKIConfigAssumption DEF Tamper, TypeOK
  <2>. QED
    BY <1>5, <2>1, <2>2, <2>3
    DEF Tamper, TypeOK, ManagedTypeOK, SpecifiedTypeOK, Busy, managedVars, specVars
<1>6. CASE UNCHANGED vars
  BY <1>6
  DEF vars, managedVars, specVars, pki, TypeOK, ManagedTypeOK, SpecifiedTypeOK, Busy
<1>. QED  BY <1>1, <1>2, <1>3, <1>4, <1>5, <1>6 DEF Next, User

\* The state keeps its type: what is written to the mount's configuration is
\* set in the specification (Create and Update, pkiconfig.go:263), and no
\* worker remembers a difference beyond the end of its Observe.
THEOREM TypeCorrect == Spec => []TypeOK
  BY TypeInit, TypeStep, PTL DEF Spec

----------------------------------------------------------------------------
(***************************************************************************)
(* Roots.                                                                  *)
(***************************************************************************)

\* The way from "does not exist" to the request that generates a root.
Missing(w) ==
    \/ pc[w] = "finalizer" /\ plan[w] = "pend"
    \/ pc[w] \in {"pend", "create"}

\* The workers that are going to generate a root.
Seekers == {w \in Workers : Missing(w)}

\* What may be generated, and what of it before the root that is missing.
Allowed == Cardinality(Workers) * (1 + tampers)

Earned == Cardinality(Workers) * tampers

\* Each seeker may still generate a root, and where there is none every worker
\* may become one.
Allowance ==
    /\ generated + Cardinality(Seekers) <= Allowed
    /\ mount # "root" => generated <= Earned

\* Vault answers for what nobody has set: there is no 404 but for a mount that is
\* not there.
Answering == answers.unset # "notfound"

IInv == TypeOK /\ (Answering => Allowance)

\* A change made by others is worth a root for each process.
LEMMA Allowances ==
  ASSUME TypeOK
  PROVE  /\ Cardinality(Workers) \in Nat
         /\ Earned \in Nat /\ Allowed \in Nat
         /\ Allowed = Earned + Cardinality(Workers)
         /\ tampers' = tampers + 1 =>
              Earned' = Allowed /\ Allowed' = Allowed + Cardinality(Workers)
<1>1. Cardinality(Workers) \in Nat /\ tampers \in Nat
  BY ManagedAssumption, PKIConfigAssumption, FS_CardinalityType DEF TypeOK
<1>2. ASSUME NEW n \in Nat, NEW t \in Nat
      PROVE  n * t \in Nat /\ n * (1 + t) = n * t + n
  OBVIOUS
<1>3. /\ Earned \in Nat
      /\ Allowed = Earned + Cardinality(Workers)
      /\ tampers' = tampers + 1 =>
           Earned' = Allowed /\ Allowed' = Allowed + Cardinality(Workers)
  BY <1>1, <1>2 DEF Earned, Allowed
<1>. QED  BY <1>1, <1>3

\* The reconciler takes a worker to Create only by the way of Observe.
LEMMA ReconcilerMissing ==
  ASSUME ManagedTypeOK, NEW w \in Workers,
         ReconcilerStep(w) \/ ReconcilerFault(w) \/ SyncCache(w), Missing(w)'
  PROVE  Missing(w)
<1>. USE DEF ManagedTypeOK, Missing
<1>1. CASE Reconcile(w) \/ SaveAnnotations(w)
  BY <1>1 DEF Reconcile, SaveAnnotations, Goto
<1>2. CASE AddFinalizer(w) \/ MarkCreatePending(w)
  BY <1>2 DEF AddFinalizer, MarkCreatePending, Goto
<1>3. CASE RemoveFinalizer(w) \/ Conflict(w) \/ Abort(w)
  BY <1>3 DEF RemoveFinalizer, Conflict, Abort, Finish, Goto
<1>4. CASE PublishConnection(w) \/ LosePublication(w) \/ LoseAnnotations(w)
  BY <1>4 DEF PublishConnection, LosePublication, LoseAnnotations, Goto
<1>5. CASE SaveStatus(w) \/ StatusConflict(w) \/ SyncCache(w)
  BY <1>5 DEF SaveStatus, StatusConflict, SyncCache, Finish, Goto
<1>. QED
  BY <1>1, <1>2, <1>3, <1>4, <1>5 DEF ReconcilerStep, ReconcilerFault

\* Seekers are counted like any set of workers.
LEMMA SeekersCounted ==
  /\ IsFiniteSet(Seekers)
  /\ Cardinality(Seekers) \in Nat
  /\ Cardinality(Seekers) <= Cardinality(Workers)
  BY ManagedAssumption, FS_Subset, FS_CardinalityType DEF Seekers

\* Nobody becomes a seeker.
LEMMA SeekersFewer ==
  ASSUME Seekers' \subseteq Seekers
  PROVE  /\ Cardinality(Seekers') \in Nat
         /\ Cardinality(Seekers') <= Cardinality(Seekers)
  BY SeekersCounted, FS_Subset, FS_CardinalityType

\* A request of Create that is carried out is that of a seeker.
LEMMA GenerateAllowance ==
  ASSUME IInv, Answering, NEW w \in Workers, Missing(w), Seekers' \subseteq Seekers \ {w},
         Generate, tampers' = tampers
  PROVE  Allowance'
<1>1. w \in Seekers /\ mount' = "root" /\ generated' = generated + 1
  BY DEF Seekers, Generate
<1>2. /\ Cardinality(Seekers \ {w}) = Cardinality(Seekers) - 1
      /\ Cardinality(Seekers') <= Cardinality(Seekers \ {w})
      /\ {Cardinality(Seekers), Cardinality(Seekers \ {w}), Cardinality(Seekers')}
           \subseteq Nat
  BY <1>1, OneLess, SeekersCounted, FS_Subset, FS_CardinalityType
<1>3. /\ Allowed' = Allowed /\ Allowed \in Nat /\ generated \in Nat
      /\ generated + Cardinality(Seekers) <= Allowed
  BY Allowances DEF Allowed, IInv, TypeOK, Allowance
<1>. QED  BY <1>1, <1>2, <1>3 DEF Allowance

\* Any other step by which nobody becomes a seeker, or which one takes where
\* there is no root.
LEMMA QuietAllowance ==
  ASSUME IInv, Answering, UNCHANGED <<mount, generated, tampers>>,
         Seekers' \subseteq Seekers \/ mount # "root"
  PROVE  Allowance'
<1>1. /\ UNCHANGED <<Allowed, Earned>>
      /\ Allowed = Earned + Cardinality(Workers)
      /\ {Earned, Cardinality(Workers), generated} \subseteq Nat
      /\ Allowance
  BY Allowances DEF Allowed, Earned, IInv, TypeOK
<1>2. Cardinality(Seekers)' \in Nat /\ Cardinality(Seekers)' <= Cardinality(Workers)
  BY ManagedAssumption, FS_Subset, FS_CardinalityType DEF Seekers
<1>3. CASE Seekers' \subseteq Seekers
  BY <1>1, <1>3, SeekersCounted, SeekersFewer DEF Allowance
<1>4. CASE mount # "root"
  BY <1>1, <1>2, <1>4 DEF Allowance
<1>. QED  BY <1>3, <1>4

\* Every request keeps the allowance.
LEMMA ControllerAllowance ==
  ASSUME IInv, Answering, NEW w \in Workers, ControllerStep(w) \/ Unanswered(w)
  PROVE  Allowance'
<1>0. ManagedTypeOK /\ tampers' = tampers
  BY ControllerFrame DEF IInv, TypeOK
<1>. USE DEF Seekers, Missing, ManagedTypeOK
<1>1. CASE ReadCA(w)
  <2>1. /\ UNCHANGED <<mount, generated>>
        /\ Seekers' \subseteq Seekers \/ mount # "root"
    BY <1>0, <1>1, DecideType DEF ReadCA, RootFound, Goto, pki
  <2>. QED  BY <1>0, <2>1, QuietAllowance
<1>2. CASE ReadURLs(w)
  <2>1. UNCHANGED <<mount, generated>>
    BY <1>2 DEF ReadURLs
  <2>2. CASE Wants(w, "urls") /\ NotFound("urls")
    BY <1>0, <2>1, <2>2, QuietAllowance DEF MountFound, NotFound, Answering
  <2>3. CASE ~(Wants(w, "urls") /\ NotFound("urls"))
    <3>1. Seekers' \subseteq Seekers
      BY <1>0, <1>2, <2>3 DEF ReadURLs, Goto
    <3>. QED  BY <1>0, <2>1, <3>1, QuietAllowance
  <2>. QED  BY <2>2, <2>3
<1>3. CASE ReadCRL(w)
  <2>1. UNCHANGED <<mount, generated>>
    BY <1>3 DEF ReadCRL
  <2>2. CASE Wants(w, "crl") /\ NotFound("crl")
    BY <1>0, <2>1, <2>2, QuietAllowance DEF MountFound, NotFound, Answering
  <2>3. CASE ~(Wants(w, "crl") /\ NotFound("crl"))
    <3>1. Decide(w, TRUE, w \notin drift /\ ~Drifted(w, "crl"))
      BY <1>3, <2>3 DEF ReadCRL
    <3>2. Seekers' \subseteq Seekers
      BY <1>0, <3>1, DecideType
    <3>. QED  BY <1>0, <2>1, <3>2, QuietAllowance
  <2>. QED  BY <2>2, <2>3
<1>4. CASE GenerateRootCA(w)
  <2>1. Generate /\ Missing(w) /\ Seekers' \subseteq Seekers \ {w}
    BY <1>0, <1>4 DEF GenerateRootCA, Goto
  <2>. QED  BY <1>0, <2>1, GenerateAllowance
<1>5. CASE Unanswered(w)
  <2>1. Seekers' \subseteq Seekers \ {w}
    BY <1>0, <1>5 DEF Unanswered, Fail, Goto, Creating, Updating
  <2>2. CASE pc[w] = "create"
    <3>1. Missing(w) /\ Generate
      BY <1>5, <2>2 DEF Unanswered
    <3>. QED  BY <1>0, <2>1, <3>1, GenerateAllowance
  <2>3. CASE pc[w] # "create"
    <3>1. UNCHANGED <<mount, generated>>
      BY <1>5, <2>3 DEF Unanswered
    <3>. QED  BY <1>0, <2>1, <3>1, QuietAllowance
  <2>. QED  BY <2>2, <2>3
<1>6. CASE ConfigurePKIURLs(w) \/ ConfigurePKICRL(w)
  <2>1. UNCHANGED <<mount, generated>> /\ Seekers' \subseteq Seekers
    BY <1>0, <1>6 DEF ConfigurePKIURLs, ConfigurePKICRL, Goto
  <2>. QED  BY <1>0, <2>1, QuietAllowance
<1>7. CASE Refused(w) \/ Delete(w) \/ ObserveRefused(w)
  <2>1. UNCHANGED <<mount, generated>> /\ Seekers' \subseteq Seekers
    BY <1>0, <1>7
    DEF Refused, Fail, Creating, Updating, Delete, ObserveRefused, Goto, pki
  <2>. QED  BY <1>0, <2>1, QuietAllowance
<1>. QED
  BY <1>1, <1>2, <1>3, <1>4, <1>5, <1>6, <1>7 DEF ControllerStep

\* The inductive invariant holds initially.
LEMMA InvInit == Init => IInv
<1>. SUFFICES ASSUME Init PROVE IInv
  OBVIOUS
<1>1. TypeOK /\ Seekers = {} /\ generated = 0
  BY TypeInit DEF Init, ManagedInit, Seekers, Missing
<1>. QED  BY <1>1, Allowances, FS_EmptySet DEF IInv, Allowance

\* Every step keeps it.
LEMMA InvStep == IInv /\ [Next]_vars => IInv'
<1>0. [Next]_vars => answers' = answers
  BY ControllerFrame
  DEF Next, Managing, Unmanaged, User, EditSpec, Tamper, vars, pki
<1>. SUFFICES ASSUME IInv, Answering, Allowance, [Next]_vars PROVE Allowance'
  BY <1>0, TypeStep DEF IInv, Answering
<1>1. ASSUME NEW w \in Workers, Managing(w) PROVE Allowance'
  <2>1. UNCHANGED <<mount, generated, tampers>>
    BY <1>1 DEF Managing, Unmanaged
  <2>2. /\ \A v \in Workers \ {w} : pc'[v] = pc[v] /\ plan'[v] = plan[v]
        /\ Missing(w)' => Missing(w)
    BY <1>1, ReconcilerFrame, ReconcilerMissing DEF Managing, IInv, TypeOK
  <2>3. \A v \in Workers : Missing(v)' => Missing(v)
    BY <2>2 DEF Missing
  <2>4. Seekers' \subseteq Seekers
    BY <2>3 DEF Seekers
  <2>. QED  BY <2>1, <2>4, QuietAllowance
<1>2. ASSUME NEW w \in Workers, ControllerStep(w) \/ Unanswered(w)
      PROVE  Allowance'
  BY <1>2, ControllerAllowance
<1>3. CASE User \/ UNCHANGED vars
  <2>1. UNCHANGED <<mount, generated, tampers>> /\ Seekers' \subseteq Seekers
    BY <1>3
    DEF User, EditSpec, Edit, RequestDelete, Unmanaged, vars, managedVars, pki,
        Seekers, Missing
  <2>. QED  BY <2>1, QuietAllowance
<1>4. CASE Tamper
  <2>1. /\ Seekers' = Seekers
        /\ generated' = generated
        /\ tampers' = tampers + 1
    BY <1>4 DEF Tamper, managedVars, Seekers, Missing
  <2>2. /\ generated \in Nat /\ Allowance
        /\ {Earned, Cardinality(Workers), Cardinality(Seekers)} \subseteq Nat
        /\ Allowed = Earned + Cardinality(Workers)
        /\ Earned' = Allowed /\ Allowed' = Allowed + Cardinality(Workers)
    BY <2>1, Allowances, SeekersCounted DEF IInv, TypeOK
  <2>. QED  BY <2>1, <2>2 DEF Allowance
<1>. QED  BY <1>1, <1>2, <1>3, <1>4 DEF Next

\* However many processes there are, each generates one root, and one more for
\* each change made by others, where Vault answers for what nobody has set:
\* Observe reads the mount first (pkiconfig.go:125), so that neither a lost
\* answer nor a crash nor an overridden pending creation makes a process generate
\* another.
THEOREM RootsBounded ==
  Spec => [](answers.unset # "notfound" => RootsAccounted)
<1>1. IInv /\ Answering => RootsAccounted
  <2>1. IInv => Allowed \in Nat
    BY Allowances DEF IInv
  <2>2. IInv /\ Answering => generated <= Allowed
    BY <2>1, SeekersCounted DEF IInv, TypeOK, Allowance
  <2>3. TypeOK => 1 + tampers + 0 = 1 + tampers
    BY PKIConfigAssumption DEF TypeOK
  <2>. QED  BY <2>2, <2>3 DEF IInv, Allowed, RootsAccounted, Unset, Answering
<1>. QED  BY <1>1, InvInit, InvStep, PTL DEF Spec, Answering
=============================================================================
