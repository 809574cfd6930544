-------------------------- MODULE Certificate_proofs --------------------------
(***************************************************************************)
(* Theorems about Certificate, for any number of processes, of identifiers *)
(* and of backends and any bounds: the state keeps its type, and every     *)
(* valid certificate nobody knows of is paid for by an infrastructure      *)
(* failure, an overridden creation, a status that was not stored, a        *)
(* refused revocation or an edit of the backend; what is published at rest *)
(* is what is recorded; and the finalizer goes last.                       *)
(***************************************************************************)
EXTENDS Certificate, Managed_proofs

----------------------------------------------------------------------------
(***************************************************************************)
(* Type correctness.                                                       *)
(***************************************************************************)

\* Nobody sets an external name.
NoNames == ExternalNames = {NoId}

\* The type of what Vault holds.
VaultOK ==
    /\ issued \subseteq Ids
    /\ DOMAIN certs \subseteq issued
    /\ \A id \in DOMAIN certs : certs[id] \in Certs
    /\ kept \in 0 .. refusals
    /\ refusals \in 0 .. MaxRefusals

\* A specification that is carried stays one, and that of a reconcile is kept
\* to its end.
LEMMA CarriedSpecs ==
  ASSUME SpecifiedTypeOK(Backends), CarrySpec
  PROVE  /\ specCache' \in [Workers -> Backends]
         /\ specCopy' \in [Busy' -> Backends]
         /\ \A w \in Workers : pc[w] # "idle" => specCopy[w] \in Backends
         /\ \A w \in Workers : pc[w] # "idle" /\ pc'[w] # "idle" =>
               specCopy'[w] = specCopy[w]
         /\ \A w \in Workers : pc[w] = "idle" /\ pc'[w] # "idle" =>
               specCopy'[w] = specCache[w]
         /\ \A w \in Workers : specCache'[w] =
               IF w \in current' /\ w \notin current THEN spec ELSE specCache[w]
<1>1. Busy' = {w \in Workers : pc'[w] # "idle"}
  BY DEF Busy
<1>. QED  BY <1>1 DEF SpecifiedTypeOK, CarrySpec, Busy

\* A revocation touches one certificate, and no backend.
LEMMA RevokeMarks ==
  ASSUME VaultOK, NEW serial
  PROVE  /\ DOMAIN Revoke(serial) = DOMAIN certs
         /\ \A id \in DOMAIN certs :
               /\ Revoke(serial)[id] \in Certs
               /\ Revoke(serial)[id].backend = certs[id].backend
               /\ Revoke(serial)[id].age = certs[id].age
               /\ certs[id].revoked => Revoke(serial)[id].revoked
         /\ serial \in DOMAIN certs => Revoke(serial)[serial].revoked
<1>1. CASE serial \in DOMAIN certs
  <2>1. Revoke(serial)
          = [certs EXCEPT ![serial] = [certs[serial] EXCEPT !.revoked = TRUE]]
    BY <1>1 DEF Revoke
  <2>2. certs[serial] \in Certs
    BY <1>1 DEF VaultOK
  <2>3. /\ [certs[serial] EXCEPT !.revoked = TRUE] \in Certs
        /\ [certs[serial] EXCEPT !.revoked = TRUE].backend = certs[serial].backend
        /\ [certs[serial] EXCEPT !.revoked = TRUE].age = certs[serial].age
        /\ [certs[serial] EXCEPT !.revoked = TRUE].revoked = TRUE
    BY <2>2 DEF Certs
  <2>4. /\ DOMAIN Revoke(serial) = DOMAIN certs
        /\ Revoke(serial)[serial] = [certs[serial] EXCEPT !.revoked = TRUE]
        /\ \A id \in DOMAIN certs \ {serial} : Revoke(serial)[id] = certs[id]
    BY <1>1, <2>1
  <2>. QED  BY <1>1, <2>3, <2>4 DEF VaultOK
<1>2. CASE serial \notin DOMAIN certs
  BY <1>2 DEF Revoke, VaultOK
<1>. QED  BY <1>1, <1>2

\* A new certificate has a serial that was never given, and the backend of the
\* reconcile; the others are left alone.
LEMMA NewCertAdds ==
  ASSUME TypeOK, issued # Ids, NEW w \in Workers, pc[w] # "idle",
         NewCert(w, NewSerial)
  PROVE  /\ NewSerial \in Ids /\ NewSerial \notin issued /\ NewSerial # NoId
         /\ NewSerial \notin DOMAIN certs
         /\ issued' = issued \cup {NewSerial}
         /\ DOMAIN certs' = DOMAIN certs \cup {NewSerial}
         /\ \A id \in DOMAIN certs : certs'[id] = certs[id]
         /\ certs'[NewSerial] = [backend |-> specCopy[w], age |-> "young",
                                 revoked |-> FALSE]
         /\ specCopy[w] \in Backends
         /\ certs'[NewSerial] \in Certs
<1>1. NewSerial \in Ids \ issued
  BY DEF NewSerial, TypeOK
<1>2. specCopy[w] \in Backends
  BY DEF TypeOK, SpecifiedTypeOK, Busy
<1>3. NewSerial \notin DOMAIN certs
  BY <1>1 DEF TypeOK
<1>4. NewSerial # NoId
  BY <1>1, ManagedAssumption
<1>5. /\ issued' = issued \cup {NewSerial}
      /\ certs' = [i \in DOMAIN certs \cup {NewSerial} |->
                     IF i = NewSerial
                     THEN [backend |-> specCopy[w], age |-> "young", revoked |-> FALSE]
                     ELSE certs[i]]
  BY DEF NewCert
<1>. QED  BY <1>1, <1>2, <1>3, <1>4, <1>5 DEF Certs

\* ... so that Vault's state keeps its type.
LEMMA NewCertType ==
  ASSUME TypeOK, issued # Ids, NEW w \in Workers, pc[w] # "idle",
         NewCert(w, NewSerial), kept' = kept, refusals' = refusals
  PROVE  VaultOK'
  BY NewCertAdds DEF TypeOK, VaultOK

\* A step of the controller keeps the type, and leaves the stored resource and
\* the other workers alone.
LEMMA ControllerFrame ==
  ASSUME TypeOK, NEW w \in Workers, ControllerStep(w) \/ IssueUnanswered(w)
  PROVE  /\ TypeOK'
         /\ UNCHANGED <<api, conn, cache, current, fresh, overrides, discarded,
                        spec, edits>>
         /\ CarrySpec
         /\ pc[w] # "idle" /\ pc'[w] # "idle"
         /\ \A v \in Workers \ {w} :
               /\ mr'[v] = mr[v] /\ pc'[v] = pc[v]
               /\ plan'[v] = plan[v] /\ secret'[v] = secret[v]
         /\ \A v \in Workers : mr'[v].name = mr[v].name
         /\ \A v \in Workers : specCopy'[v] = specCopy[v] \/ pc[v] = "idle"
         /\ specCache' = specCache
<1>1. /\ UNCHANGED <<api, conn, cache, current, fresh, overrides, discarded,
                     spec, edits>>
      /\ CarrySpec
  BY DEF ControllerStep, Observe, RevokeOld, IssueCertificate, IssueUnanswered,
         IssueRefused, Delete, CallRefused
<1>2. /\ pc[w] # "idle"
      /\ \E step \in Steps \ {"idle"} : pc' = [pc EXCEPT ![w] = step]
      /\ pc' \in [Workers -> Steps]
  <2>1. /\ pc[w] # "idle"
        /\ \E step \in Steps \ {"idle"} : pc' = [pc EXCEPT ![w] = step]
    BY DEF ControllerStep, Observe, RevokeOld, IssueCertificate, IssueUnanswered,
           IssueRefused, IssueFailed, Delete, CallRefused, Decide, Goto, Steps
  <2>. QED  BY <2>1 DEF TypeOK, ManagedTypeOK
<1>3. /\ plan' \in [Workers -> {"pend", "update", "status"}]
      /\ \A v \in Workers \ {w} : plan'[v] = plan[v]
  BY DEF ControllerStep, Observe, RevokeOld, IssueCertificate, IssueUnanswered,
         IssueRefused, Delete, CallRefused, Decide, TypeOK, ManagedTypeOK
<1>4. /\ mr' \in [Workers -> Object] /\ secret' \in [Workers -> IdOrNone]
      /\ \A v \in Workers \ {w} : mr'[v] = mr[v] /\ secret'[v] = secret[v]
      /\ \A v \in Workers : mr'[v].name = mr[v].name
      /\ faults' \in 0 .. MaxFaults
  <2>1. CASE IssueCertificate(w)
    <3>1. NewSerial \in IdOrNone /\ faults' = faults
      BY <1>2, <2>1, NewCertAdds DEF IssueCertificate, IdOrNone
    <3>2. /\ mr' = [mr EXCEPT ![w] = [mr[w] EXCEPT !.status = NewSerial]]
          /\ secret' = [secret EXCEPT ![w] = NewSerial]
      BY <2>1 DEF IssueCertificate, UpdateStatus, ConnectionDetails
    <3>3. [mr[w] EXCEPT !.status = NewSerial] \in Object
      BY <3>1, ObjectUpdate DEF TypeOK, ManagedTypeOK
    <3>4. [mr[w] EXCEPT !.status = NewSerial].name = mr[w].name
      BY <3>1 DEF TypeOK, ManagedTypeOK, Object
    <3>. QED  BY <3>1, <3>2, <3>3, <3>4 DEF TypeOK, ManagedTypeOK
  <2>2. CASE ~IssueCertificate(w)
    <3>1. mr' = mr /\ secret' = secret
      BY <2>2
      DEF ControllerStep, Observe, RevokeOld, IssueUnanswered, IssueRefused,
          Delete, CallRefused
    <3>2. faults' \in 0 .. MaxFaults
      BY <2>2, ManagedAssumption
      DEF ControllerStep, Observe, RevokeOld, IssueUnanswered, IssueRefused,
          Delete, CallRefused, Fault, TypeOK, ManagedTypeOK
    <3>. QED  BY <3>1, <3>2 DEF TypeOK, ManagedTypeOK
  <2>. QED  BY <2>1, <2>2
<1>5. VaultOK'
  <2>0. VaultOK /\ kept \in Nat /\ refusals \in Nat
    BY CertificateAssumption DEF TypeOK, VaultOK
  <2>1. CASE IssueCertificate(w) \/ IssueUnanswered(w)
    BY <1>2, <2>1, NewCertType DEF IssueCertificate, IssueUnanswered
  <2>2. CASE RevokeOld(w) \/ Delete(w)
    <3>1. /\ issued' = issued
          /\ \/ certs' = Revoke(mr[w].status) /\ UNCHANGED <<kept, refusals>>
             \/ Refuse /\ kept' = kept + 1 /\ certs' = certs
      BY <2>2 DEF RevokeOld, Delete
    <3>2. CASE certs' = Revoke(mr[w].status) /\ UNCHANGED <<kept, refusals>>
      BY <2>0, <3>1, <3>2, RevokeMarks DEF VaultOK
    <3>3. CASE Refuse /\ kept' = kept + 1 /\ certs' = certs
      <4>1. kept' \in 0 .. refusals' /\ refusals' \in 0 .. MaxRefusals
        BY <2>0, <3>3, CertificateAssumption DEF VaultOK, Refuse
      <4>. QED  BY <2>0, <3>1, <3>3, <4>1 DEF VaultOK
    <3>. QED  BY <3>1, <3>2, <3>3
  <2>3. CASE Observe(w)
    BY <2>0, <2>3 DEF Observe, VaultOK, pki
  <2>4. CASE IssueRefused(w) \/ CallRefused(w)
    <3>1. UNCHANGED pki /\ Refuse
      BY <2>4 DEF IssueRefused, CallRefused
    <3>2. kept' \in 0 .. refusals' /\ refusals' \in 0 .. MaxRefusals
      BY <2>0, <3>1, CertificateAssumption DEF VaultOK, Refuse, pki
    <3>. QED  BY <2>0, <3>1, <3>2 DEF VaultOK, pki
  <2>. QED  BY <2>1, <2>2, <2>3, <2>4 DEF ControllerStep
<1>6. /\ specCache' \in [Workers -> Backends] /\ specCopy' \in [Busy' -> Backends]
      /\ \A v \in Workers : pc[v] # "idle" /\ pc'[v] # "idle" =>
            specCopy'[v] = specCopy[v]
      /\ \A v \in Workers : specCache'[v] = specCache[v]
      /\ specCache \in [Workers -> Backends]
  BY <1>1, CarriedSpecs DEF TypeOK, SpecifiedTypeOK
<1>7. pc'[w] # "idle" /\ \A v \in Workers \ {w} : pc'[v] = pc[v]
  BY <1>2 DEF TypeOK, ManagedTypeOK
<1>8. TypeOK'
  BY <1>1, <1>2, <1>3, <1>4, <1>5, <1>6
  DEF TypeOK, ManagedTypeOK, SpecifiedTypeOK, VaultOK
<1>9. specCache' = specCache
  BY <1>6
<1>. QED  BY <1>1, <1>2, <1>3, <1>4, <1>6, <1>7, <1>8, <1>9

\* An edit keeps the type, and outdates every copy.
LEMMA EditFrame ==
  ASSUME TypeOK, EditSpec
  PROVE  /\ TypeOK'
         /\ UNCHANGED <<api, conn, cache, mr, pc, plan, secret, faults,
                        overrides, discarded, certs, issued, kept, refusals>>
         /\ spec' # spec /\ edits' = edits + 1
         /\ current' = {} /\ fresh' = {}
         /\ CarrySpec
         /\ specCache' = specCache
         /\ \A w \in Workers : pc[w] # "idle" => specCopy'[w] = specCopy[w]
<1>1. PICK b \in Backends : Edit(b)
  BY DEF EditSpec
<1>2. /\ UNCHANGED <<api, conn, cache, mr, pc, plan, secret, faults, overrides,
                     discarded, certs, issued, kept, refusals>>
      /\ edits' = edits + 1 /\ spec' = b /\ b # spec
      /\ CarrySpec /\ current' = {} /\ fresh' = {}
  BY <1>1 DEF EditSpec, Edit, pki
<1>3. /\ specCache' \in [Workers -> Backends] /\ specCopy' \in [Busy' -> Backends]
      /\ \A v \in Workers : pc[v] # "idle" /\ pc'[v] # "idle" =>
            specCopy'[v] = specCopy[v]
      /\ \A v \in Workers : specCache'[v] = specCache[v]
      /\ specCache \in [Workers -> Backends]
  BY <1>2, CarriedSpecs DEF TypeOK, SpecifiedTypeOK
<1>4. edits' \in 0 .. MaxEdits
  BY <1>1, SpecifiedAssumption DEF Edit, TypeOK, SpecifiedTypeOK
<1>5. TypeOK'
  BY <1>2, <1>3, <1>4 DEF TypeOK, ManagedTypeOK, SpecifiedTypeOK
<1>6. specCache' = specCache
  BY <1>3
<1>. QED  BY <1>2, <1>3, <1>5, <1>6

\* What happens to the recorded certificate keeps the type: it ages, is revoked
\* or is forgotten once it has expired, and no other is touched.
LEMMA AgeingFrame ==
  ASSUME TypeOK, Age \/ OperatorRevokes \/ Tidy
  PROVE  /\ TypeOK'
         /\ UNCHANGED <<managedVars, specVars, issued, kept, refusals>>
         /\ DOMAIN certs' \subseteq DOMAIN certs
         /\ \A id \in DOMAIN certs' :
               /\ certs'[id].backend = certs[id].backend
               /\ certs[id].age = "expired" => certs'[id].age = "expired"
               /\ certs[id].revoked => certs'[id].revoked
         /\ \A id \in DOMAIN certs : id \notin DOMAIN certs' =>
               id = api.status /\ certs[id].age = "expired"
<1>1. UNCHANGED <<managedVars, specVars, issued, kept, refusals>>
  BY DEF Age, OperatorRevokes, Tidy
<1>2. VaultOK
  BY DEF TypeOK, VaultOK
<1>3. /\ DOMAIN certs' \subseteq DOMAIN certs
      /\ \A id \in DOMAIN certs' :
            /\ certs'[id] \in Certs
            /\ certs'[id].backend = certs[id].backend
            /\ certs[id].age = "expired" => certs'[id].age = "expired"
            /\ certs[id].revoked => certs'[id].revoked
      /\ \A id \in DOMAIN certs : id \notin DOMAIN certs' =>
            id = api.status /\ certs[id].age = "expired"
  <2>1. CASE Age
    <3>1. PICK age \in {"due", "expired"} :
             /\ certs' = [certs EXCEPT ![api.status]
                            = [certs[api.status] EXCEPT !.age = age]]
             /\ api.status \in DOMAIN certs
             /\ certs[api.status].age # "expired"
      BY <2>1 DEF Age
    <3>2. certs[api.status] \in Certs
      BY <1>2, <3>1 DEF VaultOK
    <3>3. /\ [certs[api.status] EXCEPT !.age = age] \in Certs
          /\ [certs[api.status] EXCEPT !.age = age].backend
               = certs[api.status].backend
          /\ [certs[api.status] EXCEPT !.age = age].revoked
               = certs[api.status].revoked
      BY <3>2 DEF Certs
    <3>. QED  BY <1>2, <3>1, <3>3 DEF VaultOK
  <2>2. CASE OperatorRevokes
    BY <1>2, <2>2, RevokeMarks DEF OperatorRevokes
  <2>3. CASE Tidy
    BY <1>2, <2>3 DEF Tidy, VaultOK
  <2>. QED  BY <2>1, <2>2, <2>3
<1>4. TypeOK'
  BY <1>1, <1>3 DEF TypeOK, ManagedTypeOK, SpecifiedTypeOK, managedVars,
                    specVars, Busy
<1>. QED  BY <1>1, <1>3, <1>4

\* So does the request to delete the resource.
LEMMA DeletionFrame ==
  ASSUME TypeOK, RequestDelete, Unmanaged, CarrySpec
  PROVE  /\ TypeOK'
         /\ UNCHANGED <<cache, mr, pc, plan, secret, faults, overrides,
                        discarded, spec, edits, pki>>
         /\ fresh' = {} /\ current' = {}
         /\ specCache' = specCache
         /\ \A w \in Workers : pc[w] # "idle" => specCopy'[w] = specCopy[w]
<1>1. /\ ManagedTypeOK' /\ api'.name = api.name
      /\ UNCHANGED <<cache, mr, pc, plan, secret, faults, overrides, discarded>>
      /\ fresh' = {} /\ current' = {}
  <2>1. api' \in Object /\ api'.name = api.name
    BY DEF RequestDelete, TypeOK, ManagedTypeOK, Object
  <2>. QED  BY <2>1 DEF RequestDelete, TypeOK, ManagedTypeOK
<1>2. /\ specCache' \in [Workers -> Backends] /\ specCopy' \in [Busy' -> Backends]
      /\ \A v \in Workers : pc[v] # "idle" /\ pc'[v] # "idle" =>
            specCopy'[v] = specCopy[v]
      /\ \A v \in Workers : specCache'[v] = specCache[v]
      /\ specCache \in [Workers -> Backends]
  BY <1>1, CarriedSpecs DEF TypeOK, SpecifiedTypeOK
<1>3. TypeOK'
  BY <1>1, <1>2 DEF TypeOK, SpecifiedTypeOK, Unmanaged, pki
<1>4. specCache' = specCache
  BY <1>2
<1>. QED  BY <1>1, <1>2, <1>3, <1>4 DEF Unmanaged

\* A step of the reconciler keeps the type, as long as nobody sets an external
\* name, and carries the specification.
LEMMA ManagingFrame ==
  ASSUME TypeOK, NoNames, NEW w \in Workers, Managing(w)
  PROVE  /\ TypeOK' /\ NoNames'
         /\ UNCHANGED <<spec, edits, pki, refusals>>
         /\ ReconcilerStep(w) \/ ReconcilerFault(w) \/ SyncCache(w)
         /\ \A v \in Workers : pc[v] # "idle" /\ pc'[v] # "idle" =>
               specCopy'[v] = specCopy[v]
         /\ \A v \in Workers : pc[v] = "idle" /\ pc'[v] # "idle" =>
               specCopy'[v] = specCache[v]
         /\ \A v \in Workers : specCache'[v] =
               IF v \in current' /\ v \notin current THEN spec ELSE specCache[v]
<1>1. /\ ReconcilerStep(w) \/ ReconcilerFault(w) \/ SyncCache(w)
      /\ UNCHANGED <<spec, edits, pki, refusals>>
      /\ CarrySpec
  BY DEF Managing, Reconciling, Unmanaged
<1>2. ManagedTypeOK' /\ ExternalNames' \subseteq {NoId}
  BY <1>1, ReconcilerType, ReconcilerRecords DEF TypeOK, NoNames
<1>3. api'.name = NoId /\ NoNames'
  BY <1>2 DEF NoNames, ExternalNames
<1>4. /\ specCache' \in [Workers -> Backends] /\ specCopy' \in [Busy' -> Backends]
      /\ \A v \in Workers : pc[v] # "idle" /\ pc'[v] # "idle" =>
            specCopy'[v] = specCopy[v]
      /\ \A v \in Workers : pc[v] = "idle" /\ pc'[v] # "idle" =>
            specCopy'[v] = specCache[v]
      /\ \A v \in Workers : specCache'[v] =
            IF v \in current' /\ v \notin current THEN spec ELSE specCache[v]
  BY <1>1, CarriedSpecs DEF TypeOK
<1>5. TypeOK'
  BY <1>1, <1>2, <1>3, <1>4 DEF TypeOK, SpecifiedTypeOK, pki
<1>. QED  BY <1>1, <1>3, <1>4, <1>5

\* The steps, by who takes them.
LEMMA Cases ==
  ASSUME [Next]_vars
  PROVE  \/ \E w \in Workers : Managing(w)
         \/ \E w \in Workers : ControllerStep(w) \/ IssueUnanswered(w)
         \/ EditSpec
         \/ RequestDelete /\ Unmanaged /\ CarrySpec
         \/ Age \/ OperatorRevokes \/ Tidy
         \/ UNCHANGED vars
  BY DEF Next, User

\* The initial states have the type, and nothing is recorded.
LEMMA TypeInit == Init => TypeOK /\ NoNames
<1>. SUFFICES ASSUME Init PROVE TypeOK /\ NoNames
  OBVIOUS
<1>1. ManagedTypeOK
  BY NewObjectType, ManagedInitType DEF Init, IdOrNone
<1>2. spec \in Backends /\ Busy = {}
  BY CertificateAssumption DEF Init, ManagedInit, Busy
<1>3. SpecifiedTypeOK(Backends)
  <2>1. <<>> \in [{} -> Backends]
    OBVIOUS
  <2>. QED
    BY <1>2, <2>1, SpecifiedAssumption DEF Init, SpecifiedInit, SpecifiedTypeOK
<1>4. api.name = NoId /\ \A w \in Workers : cache[w].name = NoId /\ mr[w].name = NoId
  BY DEF Init, ManagedInit, NewObject
<1>5. NoNames
  BY <1>4 DEF NoNames, ExternalNames
<1>6. VaultOK
  <2>1. DOMAIN certs = {}
    BY DEF Init
  <2>2. issued = {} /\ kept = 0 /\ refusals = 0
    BY DEF Init
  <2>. QED  BY <2>1, <2>2, CertificateAssumption DEF VaultOK
<1>. QED  BY <1>1, <1>3, <1>4, <1>5, <1>6 DEF TypeOK, VaultOK

\* Every step keeps the type, given that nobody sets an external name.
LEMMA TypeStep ==
  TypeOK /\ NoNames /\ [Next]_vars => TypeOK' /\ NoNames'
<1>. SUFFICES ASSUME TypeOK, NoNames, [Next]_vars
              PROVE  TypeOK' /\ NoNames'
  OBVIOUS
<1>1. CASE \E w \in Workers : Managing(w)
  BY <1>1, ManagingFrame
<1>2. CASE \E w \in Workers : ControllerStep(w) \/ IssueUnanswered(w)
  BY <1>2, ControllerFrame DEF NoNames, ExternalNames
<1>3. CASE EditSpec
  BY <1>3, EditFrame DEF NoNames, ExternalNames
<1>4. CASE RequestDelete /\ Unmanaged /\ CarrySpec
  <2>1. TypeOK' /\ UNCHANGED <<cache, mr>> /\ api'.name = NoId
    BY <1>4, DeletionFrame DEF TypeOK
  <2>. QED  BY <2>1 DEF NoNames, ExternalNames, TypeOK
<1>5. CASE Age \/ OperatorRevokes \/ Tidy
  BY <1>5, AgeingFrame DEF NoNames, ExternalNames, managedVars
<1>6. CASE UNCHANGED vars
  BY <1>6 DEF vars, managedVars, specVars, pki, TypeOK, ManagedTypeOK,
              SpecifiedTypeOK, Busy, NoNames, ExternalNames
<1>. QED  BY <1>1, <1>2, <1>3, <1>4, <1>5, <1>6, Cases

\* The state keeps its type, and the external name its default: the serial of
\* the certificate is kept in the status alone (updateStatus,
\* certificate.go:241), whose certificates Vault has issued to this resource.
THEOREM TypeCorrect == Spec => []TypeOK
  BY TypeInit, TypeStep, PTL DEF Spec

----------------------------------------------------------------------------
(***************************************************************************)
(* The inductive invariant.                                                *)
(***************************************************************************)

\* Every recorded serial is that of a certificate issued to the resource.
Recording ==
    /\ IsFiniteSet(issued)
    /\ Statuses \subseteq issued \cup {NoId}

\* What is of the latest version has the latest specification.
SpecsAgree ==
    /\ \A w \in current : specCache[w] = spec
    /\ \A w \in fresh : pc[w] \in Reading => specCopy[w] = spec

\* The way from "does not exist" to Create, or to the end of the resource, is
\* taken with a serial that the backend does not know.
Absent(w) ==
    \/ pc[w] = "finalizer" /\ plan[w] = "pend"
    \/ pc[w] \in {"pend", "create", "unfinalize"}

Sought == \A w \in Workers : Absent(w) => ~Found(specCopy[w], mr[w].status)

\* A worker has a certificate from its issue until its reconcile ends, of the
\* backend the reconcile works on, and nobody else has its serial before the
\* status is stored.  Only a failure takes the serial out of the worker's copy.
Holding(w) ==
    /\ pc[w] \in {"annotate", "publish", "status"}
    /\ secret[w] \in issued
    /\ secret[w] \in DOMAIN certs => certs[secret[w]].backend = specCopy[w]
    /\ api.status # secret[w]
    /\ pc[w] = "annotate" => mr[w].status = secret[w]
    /\ w \in fresh => mr[w].status \in {secret[w], api.status}
    /\ \A v \in Workers : cache[v].status # secret[w]
    /\ \A v \in Workers \ {w} : mr[v].status # secret[w] /\ secret[v] # secret[w]

Hands ==
    /\ \A w \in Workers : secret[w] # NoId => Holding(w)
    /\ \A w \in Workers : pc[w] = "annotate" => secret[w] # NoId

\* Workers in the middle of a creation, and workers about to write another
\* serial over the stored one.
Creators == {w \in Workers : pc[w] \in {"create", "annotate", "annotateFailed"}}

Writers == {w \in fresh : \/ pc[w] = "issue"
                          \/ /\ pc[w] \in {"publish", "status"}
                             /\ mr[w].status # api.status}

\* Not every worker creates another certificate for the backend that has the
\* recorded one: who recorded it does not.
Apart ==
    api.present /\ api.status \in DOMAIN certs =>
        \E w \in Workers :
            w \in Creators => specCopy[w] # certs[api.status].backend

History ==
    /\ CopiesAgree
    /\ Untouched
    /\ NoNames
    /\ Recording
    /\ SpecsAgree
    /\ Sought
    /\ Hands
    /\ Apart

\* What nobody knows of, the certificate aside a worker has issued itself.
Held == {secret[w] : w \in {v \in Workers : /\ secret[v] # NoId
                                            /\ mr[v].status = secret[v]}}

Lost == {id \in DOMAIN certs : Valid(id)} \ (Held \cup Recorded)

\* The recorded certificate is one of the backend of the specification.
Placed == Found(spec, api.status)

\* A valid one that is not will be lost with the next creation, and so will the
\* one that a late worker is about to record.
Astray == api.present /\ Valid(api.status) /\ ~Placed

Behind == {w \in Creators \cup Writers : specCopy[w] # spec}

\* Workers that have found the recorded certificate in need of a new one.
Updaters == {w \in fresh : \/ pc[w] = "update"
                           \/ pc[w] = "finalizer" /\ plan[w] = "update"}

\* What is recorded is about to be replaced and has been paid for, as astray or
\* because it is no longer valid.
Writing == Writers # {}

Overwritten == Writing /\ ~(Valid(api.status) /\ Placed)

Recreated ==
    /\ api.pending
    /\ Creators # {}
    /\ \/ ~Placed /\ Updaters = {}
       \/ ~Valid(api.status) /\ Creators = Workers

Pledged == api.present /\ (Overwritten \/ Recreated)

Count(condition) == IF condition THEN 1 ELSE 0

\* What can still be lost: what each creation overwrites, what the writers
\* overwrite, of whom one succeeds, and what is or will be recorded astray.
Exposed ==
    Cardinality(Lost) + Cardinality(Creators) + Count(Writing)
        + Count(Astray) + Cardinality(Behind)

Mishaps == faults + overrides + discarded + kept

Toll == Cardinality(Workers) * edits

Ledger == Exposed <= Mishaps + Toll + Count(Pledged)

IInv == TypeOK /\ History /\ Ledger

----------------------------------------------------------------------------
(***************************************************************************)
(* What can become of a certificate.                                       *)
(***************************************************************************)

\* An issued certificate stays with its backend, and once it is no longer
\* valid, or no longer known, it stays so.
Weathered ==
    \A id \in issued \cup {NoId} :
        /\ id \in DOMAIN certs' => /\ id \in DOMAIN certs
                                   /\ certs'[id].backend = certs[id].backend
        /\ Valid(id)' => Valid(id)

\* A step of the controller, and what it does to the state of its worker.
LEMMA ControllerCases ==
  ASSUME TypeOK, NEW w \in Workers, ControllerStep(w) \/ IssueUnanswered(w)
  PROVE  \/ /\ Observe(w) /\ pc[w] = "observe"
            /\ certs' = certs /\ issued' = issued
            /\ mr' = mr /\ secret' = secret
            /\ pc'[w] \in {"delete", "unfinalize", "finalizer"}
            /\ pc'[w] \in {"delete", "unfinalize"} => mr[w].deleting
            /\ pc'[w] = "unfinalize" => ~Found(specCopy[w], mr[w].status)
            /\ plan'[w] = "pend" => ~Found(specCopy[w], mr[w].status)
            /\ plan'[w] = "update" => Found(specCopy[w], mr[w].status)
         \/ /\ RevokeOld(w) \/ Delete(w)
            /\ certs' \in {certs, Revoke(mr[w].status)} /\ issued' = issued
            /\ mr' = mr /\ secret' = secret
            /\ \/ pc[w] = "update" /\ pc'[w] = "issue" /\ RevokeOld(w)
               \/ pc[w] = "delete" /\ pc'[w] = "status"
         \/ /\ IssueCertificate(w) /\ NewCert(w, NewSerial) /\ issued # Ids
            /\ mr'[w].status = NewSerial /\ secret'[w] = NewSerial
            /\ \/ pc[w] = "create" /\ pc'[w] = "annotate"
               \/ pc[w] = "issue" /\ pc'[w] = "publish"
         \/ /\ IssueUnanswered(w) /\ NewCert(w, NewSerial) /\ issued # Ids
            /\ mr' = mr /\ secret' = secret
            /\ \/ pc[w] = "create" /\ pc'[w] = "annotateFailed"
               \/ pc[w] = "issue" /\ pc'[w] = "status"
         \/ /\ IssueRefused(w) \/ CallRefused(w)
            /\ certs' = certs /\ issued' = issued
            /\ mr' = mr /\ secret' = secret
            /\ \/ pc[w] = "create" /\ pc'[w] = "annotateFailed"
               \/ pc[w] \in {"issue", "observe", "delete"} /\ pc'[w] = "status"
<1>. USE DEF TypeOK, ManagedTypeOK
<1>1. CASE Observe(w)
  BY <1>1 DEF Observe, Decide, Goto, pki
<1>2. CASE RevokeOld(w)
  BY <1>2 DEF RevokeOld, Goto
<1>3. CASE Delete(w)
  BY <1>3 DEF Delete, Goto
<1>4. CASE IssueCertificate(w)
  <2>1. mr[w] \in Object /\ NewSerial \in IdOrNone
    BY <1>4, NewCertAdds DEF IssueCertificate, IdOrNone
  <2>2. [mr[w] EXCEPT !.status = NewSerial].status = NewSerial
    BY <2>1 DEF Object
  <2>. QED
    BY <1>4, <2>2 DEF IssueCertificate, UpdateStatus, ConnectionDetails, Goto
<1>5. CASE IssueUnanswered(w)
  BY <1>5 DEF IssueUnanswered, IssueFailed, Goto
<1>6. CASE IssueRefused(w)
  BY <1>6 DEF IssueRefused, IssueFailed, Goto, pki
<1>7. CASE CallRefused(w)
  BY <1>7 DEF CallRefused, Goto, pki
<1>. QED  BY <1>1, <1>2, <1>3, <1>4, <1>5, <1>6, <1>7 DEF ControllerStep

\* No step brings a certificate back.
LEMMA CertsWeather ==
  ASSUME TypeOK, NoNames, [Next]_vars
  PROVE  Weathered
<1>1. VaultOK /\ NoId \notin DOMAIN certs
  BY ManagedAssumption DEF TypeOK, VaultOK
<1>2. ASSUME certs' = certs PROVE Weathered
  BY <1>2 DEF Weathered, Valid
<1>3. ASSUME NEW serial, certs' = Revoke(serial) PROVE Weathered
  BY <1>1, <1>3, RevokeMarks DEF Weathered, Valid
<1>4. ASSUME NEW w \in Workers, issued # Ids, pc[w] # "idle",
             NewCert(w, NewSerial)
      PROVE  Weathered
  BY <1>4, NewCertAdds DEF Weathered, Valid
<1>5. CASE \E w \in Workers : Managing(w)
  BY <1>2, <1>5, ManagingFrame DEF pki
<1>6. ASSUME NEW w \in Workers, ControllerStep(w) \/ IssueUnanswered(w)
      PROVE  Weathered
  BY <1>2, <1>3, <1>4, <1>6, ControllerCases, ControllerFrame
<1>7. CASE EditSpec
  BY <1>2, <1>7, EditFrame
<1>8. CASE RequestDelete /\ Unmanaged /\ CarrySpec
  BY <1>2, <1>8, DeletionFrame DEF pki
<1>9. CASE Age \/ OperatorRevokes \/ Tidy
  BY <1>1, <1>9, AgeingFrame DEF Weathered, Valid
<1>10. CASE UNCHANGED vars
  BY <1>2, <1>10 DEF vars, pki
<1>. QED  BY <1>5, <1>6, <1>7, <1>8, <1>9, <1>10, Cases

----------------------------------------------------------------------------
(***************************************************************************)
(* The history of copies, serials and hands.                               *)
(***************************************************************************)

\* Copies of the latest version stay what the API server stores, and nothing is
\* done for a resource without a finalizer.
LEMMA CopiesStep ==
  ASSUME TypeOK, NoNames, CopiesAgree, Untouched, [Next]_vars
  PROVE  CopiesAgree' /\ Untouched'
<1>1. ManagedTypeOK
  BY DEF TypeOK
<1>2. CASE \E w \in Workers : Managing(w)
  BY <1>1, <1>2, ManagingFrame, ReconcilerCopies, ReconcilerUntouched
<1>3. ASSUME NEW w \in Workers, ControllerStep(w) \/ IssueUnanswered(w)
      PROVE  CopiesAgree' /\ Untouched'
  <2>1. /\ UNCHANGED <<api, cache, current, fresh>>
        /\ \A v \in Workers \ {w} :
              mr'[v] = mr[v] /\ pc'[v] = pc[v] /\ secret'[v] = secret[v]
    BY <1>3, ControllerFrame
  <2>2. pc'[w] \in Reading => pc[w] \in Reading /\ mr'[w] = mr[w]
    BY <1>3, ControllerCases DEF Reading
  <2>3. \/ pc[w] \notin Before
        \/ pc'[w] \in Before /\ mr'[w] = mr[w] /\ secret'[w] = secret[w]
        \/ mr[w].deleting
    BY <1>3, ControllerCases DEF Before
  <2>4. CopiesAgree'
    BY <1>1, <2>1, <2>2, ControllerCopies
  <2>5. Untouched'
    BY <1>1, <2>1, <2>3, ControllerUntouched
  <2>. QED  BY <2>4, <2>5
<1>4. CASE EditSpec
  BY <1>4, EditFrame DEF CopiesAgree, Untouched
<1>5. CASE RequestDelete /\ Unmanaged /\ CarrySpec
  BY <1>1, <1>5, UserCopies, UserUntouched DEF UserStep
<1>6. CASE Age \/ OperatorRevokes \/ Tidy
  BY <1>6, AgeingFrame DEF CopiesAgree, Untouched, managedVars
<1>7. CASE UNCHANGED vars
  BY <1>7 DEF CopiesAgree, Untouched, vars, managedVars
<1>. QED  BY <1>2, <1>3, <1>4, <1>5, <1>6, <1>7, Cases

\* Serials are those of issued certificates.
LEMMA RecordingStep ==
  ASSUME TypeOK, NoNames, Recording, [Next]_vars
  PROVE  Recording'
<1>. USE DEF Recording
<1>1. CASE \E w \in Workers : Managing(w)
  <2>1. Statuses' \subseteq Statuses \cup {NoId} /\ issued' = issued
    BY <1>1, ManagingFrame, ReconcilerRecords DEF TypeOK, pki
  <2>. QED  BY <2>1
<1>2. ASSUME NEW w \in Workers, ControllerStep(w) \/ IssueUnanswered(w)
      PROVE  Recording'
  <2>1. /\ UNCHANGED <<api, cache>>
        /\ \A v \in Workers \ {w} : mr'[v] = mr[v]
        /\ pc[w] # "idle"
    BY <1>2, ControllerFrame
  <2>2. \/ issued' = issued /\ mr' = mr
        \/ issued' = issued \cup {NewSerial} /\ mr'[w].status \in {mr[w].status, NewSerial}
    BY <1>2, <2>1, ControllerCases, NewCertAdds
  <2>3. issued \subseteq issued' /\ IsFiniteSet(issued')
    BY <2>2, FS_AddElement
  <2>4. \A v \in Workers : mr'[v].status \in issued' \cup {NoId}
    BY <2>1, <2>2 DEF Statuses
  <2>5. /\ api.status \in issued \cup {NoId}
        /\ \A v \in Workers : cache[v].status \in issued \cup {NoId}
    BY DEF Statuses
  <2>. QED  BY <2>1, <2>3, <2>4, <2>5 DEF Statuses
<1>3. CASE EditSpec
  BY <1>3, EditFrame DEF Statuses
<1>4. CASE RequestDelete /\ Unmanaged /\ CarrySpec
  <2>1. UNCHANGED <<cache, mr, issued>>
    BY <1>4, DeletionFrame DEF pki
  <2>2. api'.status = api.status
    BY <1>4, RequestDeleteStores DEF TypeOK
  <2>. QED  BY <2>1, <2>2 DEF Statuses
<1>5. CASE Age \/ OperatorRevokes \/ Tidy
  BY <1>5, AgeingFrame DEF Statuses, managedVars
<1>6. CASE UNCHANGED vars
  BY <1>6 DEF Statuses, vars, managedVars, pki
<1>. QED  BY <1>1, <1>2, <1>3, <1>4, <1>5, <1>6, Cases

\* What is of the latest version keeps the latest specification.
LEMMA SpecsStep ==
  ASSUME TypeOK, NoNames, SpecsAgree, [Next]_vars
  PROVE  SpecsAgree'
<1>. USE DEF SpecsAgree
<1>1. ASSUME NEW w \in Workers, Managing(w)
      PROVE  SpecsAgree'
  <2>1. /\ spec' = spec
        /\ ReconcilerStep(w) \/ ReconcilerFault(w) \/ SyncCache(w)
        /\ \A v \in Workers : pc[v] # "idle" /\ pc'[v] # "idle" =>
              specCopy'[v] = specCopy[v]
        /\ \A v \in Workers : pc[v] = "idle" /\ pc'[v] # "idle" =>
              specCopy'[v] = specCache[v]
        /\ \A v \in Workers : specCache'[v] =
              IF v \in current' /\ v \notin current THEN spec ELSE specCache[v]
    BY <1>1, ManagingFrame
  <2>2. current' \subseteq Workers /\ fresh' \subseteq Workers
    BY <1>1, ManagingFrame DEF TypeOK, ManagedTypeOK
  <2>3. \A v \in current' : specCache'[v] = spec'
    BY <2>1, <2>2
  <2>4. ASSUME NEW v \in fresh', pc'[v] \in Reading
        PROVE  specCopy'[v] = spec'
    <3>1. v \in Workers /\ pc'[v] # "idle"
      BY <2>2, <2>4 DEF Reading
    <3>2. CASE Reconcile(w) /\ v = w
      BY <2>1, <3>1, <3>2 DEF Reconcile
    <3>3. CASE ~(Reconcile(w) /\ v = w)
      <4>1. v \in fresh /\ pc[v] \in Reading /\ pc[v] # "idle"
        <5>1. CASE v # w
          BY <2>1, <2>4, <3>1, <5>1, ReconcilerFrame DEF TypeOK, Reading
        <5>2. CASE v = w
          <6>. USE <2>4, <3>1, <5>2 DEF TypeOK, ManagedTypeOK, Reading
          <6>1. CASE AddFinalizer(w)
            BY <6>1 DEF AddFinalizer, Store
          <6>2. CASE MarkCreatePending(w) \/ SaveAnnotations(w)
            BY <6>2 DEF MarkCreatePending, SaveAnnotations, Goto
          <6>3. CASE RemoveFinalizer(w) \/ Conflict(w) \/ SaveStatus(w)
                     \/ StatusConflict(w) \/ Abort(w)
            BY <6>3 DEF RemoveFinalizer, Conflict, SaveStatus, StatusConflict,
                        Abort, Finish, Goto
          <6>4. CASE PublishConnection(w) \/ LosePublication(w) \/ LoseAnnotations(w)
            BY <6>4 DEF PublishConnection, LosePublication, LoseAnnotations, Goto
          <6>5. CASE SyncCache(w)
            BY <6>5 DEF SyncCache
          <6>. QED
            BY <2>1, <3>3, <6>1, <6>2, <6>3, <6>4, <6>5
            DEF ReconcilerStep, ReconcilerFault
        <5>. QED  BY <5>1, <5>2
      <4>. QED  BY <2>1, <3>1, <4>1
    <3>. QED  BY <3>2, <3>3
  <2>. QED  BY <2>3, <2>4
<1>2. ASSUME NEW w \in Workers, ControllerStep(w) \/ IssueUnanswered(w)
      PROVE  SpecsAgree'
  <2>1. /\ UNCHANGED <<current, fresh, spec, specCache>>
        /\ pc[w] # "idle"
        /\ \A v \in Workers \ {w} : pc'[v] = pc[v]
        /\ \A v \in Workers : specCopy'[v] = specCopy[v] \/ pc[v] = "idle"
    BY <1>2, ControllerFrame
  <2>2. pc'[w] \in Reading => pc[w] \in Reading
    BY <1>2, ControllerCases DEF Reading
  <2>3. fresh \subseteq Workers
    BY DEF TypeOK, ManagedTypeOK
  <2>. QED  BY <2>1, <2>2, <2>3 DEF Reading
<1>3. CASE EditSpec
  BY <1>3, EditFrame
<1>4. CASE RequestDelete /\ Unmanaged /\ CarrySpec
  BY <1>4, DeletionFrame
<1>5. CASE Age \/ OperatorRevokes \/ Tidy
  BY <1>5, AgeingFrame DEF managedVars, specVars
<1>6. CASE UNCHANGED vars
  BY <1>6 DEF vars, managedVars, specVars
<1>. QED  BY <1>1, <1>2, <1>3, <1>4, <1>5, <1>6, Cases

\* Who goes the way of "does not exist" has a serial that is not known to the
\* backend it works on.
LEMMA SoughtStep ==
  ASSUME TypeOK, NoNames, Recording, CopiesAgree, Sought, [Next]_vars
  PROVE  Sought'
<1>0. Weathered
  BY CertsWeather
\* One argument for who was on that way before.
<1>1. ASSUME NEW v \in Workers, mr'[v].status = mr[v].status,
             specCopy'[v] = specCopy[v], Absent(v)
      PROVE  ~Found(specCopy[v], mr[v].status)'
  <2>1. ~Found(specCopy[v], mr[v].status)
    BY <1>1 DEF Sought
  <2>2. mr[v].status \in issued \cup {NoId}
    BY DEF Recording, Statuses
  <2>. QED  BY <1>0, <1>1, <2>1, <2>2 DEF Found, Weathered
<1>2. ASSUME UNCHANGED <<mr, pc, plan>>,
             \A v \in Workers : pc[v] # "idle" => specCopy'[v] = specCopy[v]
      PROVE  Sought'
  BY <1>1, <1>2 DEF Sought, Absent
<1>3. ASSUME NEW w \in Workers, Managing(w)
      PROVE  Sought'
  <2>1. /\ ReconcilerStep(w) \/ ReconcilerFault(w) \/ SyncCache(w)
        /\ \A v \in Workers : pc[v] # "idle" /\ pc'[v] # "idle" =>
              specCopy'[v] = specCopy[v]
    BY <1>3, ManagingFrame
  <2>2. \A v \in Workers \ {w} :
           mr'[v] = mr[v] /\ pc'[v] = pc[v] /\ plan'[v] = plan[v]
    BY <2>1, ReconcilerFrame DEF TypeOK
  <2>3. Absent(w)' => Absent(w) /\ mr'[w].status = mr[w].status
    <3>. USE DEF TypeOK, ManagedTypeOK, Absent
    <3>1. CASE Reconcile(w)
      BY <3>1 DEF Reconcile, Goto
    <3>2. CASE AddFinalizer(w)
      BY <3>2, AddFinalizerStores DEF AddFinalizer, Goto
    <3>3. CASE MarkCreatePending(w)
      BY <3>3, MarkCreatePendingStores DEF MarkCreatePending, Goto
    <3>4. CASE RemoveFinalizer(w) \/ Conflict(w) \/ SaveStatus(w)
               \/ StatusConflict(w) \/ Abort(w)
      BY <3>4 DEF RemoveFinalizer, Conflict, SaveStatus, StatusConflict, Abort,
                  Finish, Goto
    <3>5. CASE SaveAnnotations(w)
      BY <3>5 DEF SaveAnnotations, Goto
    <3>6. CASE PublishConnection(w) \/ LosePublication(w) \/ LoseAnnotations(w)
      BY <3>6 DEF PublishConnection, LosePublication, LoseAnnotations, Goto
    <3>7. CASE SyncCache(w)
      BY <3>7 DEF SyncCache
    <3>. QED
      BY <2>1, <3>1, <3>2, <3>3, <3>4, <3>5, <3>6, <3>7
      DEF ReconcilerStep, ReconcilerFault
  <2>4. ASSUME NEW v \in Workers, Absent(v)'
        PROVE  ~Found(specCopy[v], mr[v].status)'
    <3>1. Absent(v) /\ mr'[v].status = mr[v].status
      BY <2>2, <2>3, <2>4 DEF Absent
    <3>2. specCopy'[v] = specCopy[v]
      BY <2>1, <2>4, <3>1 DEF Absent
    <3>. QED  BY <1>1, <3>1, <3>2
  <2>. QED  BY <2>4 DEF Sought
<1>4. ASSUME NEW w \in Workers, ControllerStep(w) \/ IssueUnanswered(w)
      PROVE  Sought'
  <2>1. /\ \A v \in Workers \ {w} :
              mr'[v] = mr[v] /\ pc'[v] = pc[v] /\ plan'[v] = plan[v]
        /\ \A v \in Workers : specCopy'[v] = specCopy[v] \/ pc[v] = "idle"
        /\ pc[w] # "idle"
    BY <1>4, ControllerFrame
  <2>2. ASSUME NEW v \in Workers \ {w}, Absent(v)'
        PROVE  ~Found(specCopy[v], mr[v].status)'
    <3>1. Absent(v) /\ mr'[v].status = mr[v].status /\ pc[v] # "idle"
      BY <2>1, <2>2 DEF Absent
    <3>. QED  BY <1>1, <2>1, <3>1
  <2>3. ASSUME Absent(w)'
        PROVE  ~Found(specCopy[w], mr[w].status)'
    <3>1. /\ mr' = mr /\ certs' = certs
          /\ ~Found(specCopy[w], mr[w].status)
      BY <1>4, <2>3, ControllerCases DEF Absent
    <3>. QED  BY <2>1, <3>1 DEF Found
  <2>. QED  BY <2>2, <2>3 DEF Sought
<1>5. CASE EditSpec
  BY <1>2, <1>5, EditFrame
<1>6. CASE RequestDelete /\ Unmanaged /\ CarrySpec
  BY <1>2, <1>6, DeletionFrame
<1>7. CASE Age \/ OperatorRevokes \/ Tidy
  BY <1>2, <1>7, AgeingFrame DEF managedVars, specVars
<1>8. CASE UNCHANGED vars
  BY <1>2, <1>8 DEF vars, managedVars, specVars
<1>. QED  BY <1>3, <1>4, <1>5, <1>6, <1>7, <1>8, Cases

\* The reconciler leaves new certificates to who holds them.
LEMMA ManagingHands ==
  ASSUME TypeOK, NoNames, CopiesAgree, Hands, NEW w \in Workers, Managing(w)
  PROVE  Hands'
<1>. USE DEF TypeOK, ManagedTypeOK
<1>1. /\ ReconcilerStep(w) \/ ReconcilerFault(w) \/ SyncCache(w)
      /\ certs' = certs /\ issued' = issued
      /\ \A v \in Workers : pc[v] # "idle" /\ pc'[v] # "idle" =>
            specCopy'[v] = specCopy[v]
  BY ManagingFrame DEF pki
<1>2. /\ \A v \in Workers \ {w} :
            /\ mr'[v] = mr[v] /\ pc'[v] = pc[v] /\ secret'[v] = secret[v]
      /\ fresh' \subseteq fresh \cup {w}
      /\ api' = api \/ fresh' \subseteq {w}
  BY <1>1, ReconcilerFrame
<1>3. /\ api'.status = api.status
            \/ (SaveStatus(w) /\ api'.status = mr[w].status)
      /\ \A v \in Workers : cache'[v].status \in {cache[v].status, api.status}
      /\ mr'[w].status \in {mr[w].status, cache[w].status, api.status, NoId}
      /\ secret'[w] \in {secret[w], NoId}
  BY <1>1, ReconcilerStatuses, ReconcilerSecrets
<1>4. ASSUME NEW v \in Workers \ {w}, secret'[v] # NoId
      PROVE  Holding(v)'
  <2>1. Holding(v) /\ secret'[v] = secret[v] /\ mr'[v] = mr[v] /\ pc'[v] = pc[v]
    BY <1>2, <1>4 DEF Hands
  <2>2. specCopy'[v] = specCopy[v]
    BY <1>1, <2>1 DEF Holding
  <2>3. api'.status # secret[v] /\ \A u \in Workers : cache'[u].status # secret[v]
    BY <1>3, <2>1 DEF Holding
  <2>4. \A u \in Workers \ {v} : mr'[u].status # secret[v] /\ secret'[u] # secret[v]
    BY <1>2, <1>3, <1>4, <2>1 DEF Holding
  <2>5. v \in fresh' => v \in fresh /\ api' = api
    BY <1>2
  <2>. QED  BY <1>1, <2>1, <2>2, <2>3, <2>4, <2>5 DEF Holding
\* What remains is the worker itself, in each of its steps.
<1>5. ASSUME pc'[w] \in {"annotate", "publish", "status"}, pc[w] # "idle",
             pc'[w] = "annotate" => pc[w] = "annotate" /\ mr'[w] = mr[w],
             secret'[w] = secret[w], api'.status = api.status,
             mr'[w].status = mr[w].status \/ mr'[w].status = api.status,
             w \in fresh' /\ w \notin fresh => pc[w] = "annotate"
                                                \/ mr'[w].status = api.status
                                                \/ secret[w] = NoId
      PROVE  Hands'
  <2>1. ASSUME secret'[w] # NoId PROVE Holding(w)'
    <3>1. Holding(w)
      BY <1>5, <2>1 DEF Hands
    <3>2. specCopy'[w] = specCopy[w]
      BY <1>1, <1>5
    <3>3. /\ \A u \in Workers : cache'[u].status # secret[w]
          /\ \A u \in Workers \ {w} : mr'[u].status # secret[w] /\ secret'[u] # secret[w]
      BY <1>2, <1>3, <3>1 DEF Holding
    <3>4. w \in fresh' => mr'[w].status \in {secret[w], api.status}
      BY <1>5, <2>1, <3>1 DEF Holding
    <3>. QED  BY <1>1, <1>5, <3>1, <3>2, <3>3, <3>4 DEF Holding
  <2>2. pc'[w] = "annotate" => secret'[w] # NoId
    BY <1>5 DEF Hands
  <2>. QED  BY <1>2, <1>4, <2>1, <2>2 DEF Hands
<1>6. ASSUME secret'[w] = NoId, pc'[w] # "annotate"
      PROVE  Hands'
  BY <1>2, <1>4, <1>6 DEF Hands
<1>7. secret[w] # NoId => pc[w] \in {"annotate", "publish", "status"}
  BY DEF Hands, Holding
<1>8. CASE Reconcile(w)
  BY <1>6, <1>7, <1>8 DEF Reconcile, Goto
<1>9. CASE AddFinalizer(w)
  BY <1>6, <1>7, <1>9 DEF AddFinalizer, Goto
<1>10. CASE MarkCreatePending(w)
  BY <1>6, <1>7, <1>10 DEF MarkCreatePending, Goto
<1>11. CASE RemoveFinalizer(w) \/ Conflict(w) \/ SaveStatus(w)
            \/ StatusConflict(w) \/ Abort(w)
  BY <1>6, <1>11 DEF RemoveFinalizer, Conflict, SaveStatus, StatusConflict, Abort,
                     Finish, Goto
<1>12. CASE SaveAnnotations(w)
  <2>1. /\ pc'[w] \in {"publish", "status"} /\ pc[w] \in {"annotate", "annotateFailed"}
        /\ secret' = secret
    BY <1>12 DEF SaveAnnotations, Goto
  <2>2. /\ api'.status = api.status
        /\ mr'[w].status = mr[w].status \/ mr'[w].status = api.status
    BY <1>12, SaveAnnotationsStores
  <2>. QED  BY <1>5, <1>7, <2>1, <2>2
<1>13. CASE PublishConnection(w) \/ LosePublication(w) \/ LoseAnnotations(w)
  BY <1>5, <1>13 DEF PublishConnection, LosePublication, LoseAnnotations, Goto
<1>14. CASE SyncCache(w)
  <2>1. UNCHANGED <<api, mr, fresh, pc, secret>>
    BY <1>14 DEF SyncCache
  <2>2. CASE secret[w] = NoId
    BY <1>6, <2>1, <2>2 DEF Hands
  <2>3. CASE secret[w] # NoId
    BY <1>5, <1>7, <2>1, <2>3 DEF Holding
  <2>. QED  BY <2>2, <2>3
<1>. QED
  BY <1>1, <1>8, <1>9, <1>10, <1>11, <1>12, <1>13, <1>14
  DEF ReconcilerStep, ReconcilerFault

\* So does the controller, whose new certificates nobody has seen before.
LEMMA ControllerHands ==
  ASSUME TypeOK, NoNames, Recording, Hands, [Next]_vars, NEW w \in Workers,
         ControllerStep(w) \/ IssueUnanswered(w)
  PROVE  Hands'
<1>. USE DEF TypeOK, ManagedTypeOK
<1>1. /\ UNCHANGED <<api, cache, fresh>> /\ pc[w] # "idle"
      /\ \A v \in Workers \ {w} :
            mr'[v] = mr[v] /\ pc'[v] = pc[v] /\ secret'[v] = secret[v]
      /\ \A v \in Workers : specCopy'[v] = specCopy[v] \/ pc[v] = "idle"
  BY ControllerFrame
<1>2. Weathered
  BY CertsWeather
<1>3. /\ \A v \in Workers : secret[v] # NoId => Holding(v)
      /\ \A v \in Workers : pc[v] = "annotate" => secret[v] # NoId
  BY DEF Hands
<1>4. issued \subseteq issued'
  BY <1>1, ControllerCases, NewCertAdds
\* What is kept of a certificate in the hands of a worker.
<1>5. ASSUME NEW v \in Workers, secret[v] # NoId, secret'[v] = secret[v],
             mr'[v] = mr[v],
             pc'[v] \in {"annotate", "publish", "status"},
             pc'[v] = "annotate" => pc[v] = "annotate",
             \A u \in Workers \ {v} :
                mr'[u].status # secret[v] /\ secret'[u] # secret[v]
      PROVE  Holding(v)'
  <2>1. Holding(v)
    BY <1>3, <1>5
  <2>2. specCopy'[v] = specCopy[v] /\ secret[v] \in issued
    BY <1>1, <2>1 DEF Holding
  <2>3. secret[v] \in DOMAIN certs' => certs'[secret[v]].backend = specCopy[v]
    BY <1>2, <2>1, <2>2 DEF Holding, Weathered
  <2>. QED  BY <1>1, <1>4, <1>5, <2>1, <2>2, <2>3 DEF Holding
<1>6. CASE IssueCertificate(w)
  <2>1. /\ NewSerial \notin issued /\ NewSerial # NoId /\ NewSerial \in issued'
        /\ certs'[NewSerial].backend = specCopy[w]
        /\ mr'[w].status = NewSerial /\ secret'[w] = NewSerial
        /\ pc'[w] \in {"annotate", "publish"}
    <3>1. NewCert(w, NewSerial) /\ issued # Ids
      BY <1>6 DEF IssueCertificate
    <3>2. /\ mr'[w].status = NewSerial /\ secret'[w] = NewSerial
          /\ pc'[w] \in {"annotate", "publish"}
      <4>1. mr[w] \in Object /\ NewSerial \in IdOrNone
        BY <1>1, <3>1, NewCertAdds DEF IdOrNone
      <4>2. [mr[w] EXCEPT !.status = NewSerial].status = NewSerial
        BY <4>1 DEF Object
      <4>. QED
        BY <1>6, <4>2 DEF IssueCertificate, UpdateStatus, ConnectionDetails, Goto
    <3>3. /\ NewSerial \notin issued /\ NewSerial # NoId
          /\ issued' = issued \cup {NewSerial}
          /\ certs'[NewSerial] = [backend |-> specCopy[w], age |-> "young",
                                  revoked |-> FALSE]
      BY <1>1, <3>1, NewCertAdds
    <3>. QED  BY <3>2, <3>3
  <2>2. \A v \in Workers : /\ secret[v] # NewSerial /\ mr[v].status # NewSerial
                           /\ cache[v].status # NewSerial
    BY <1>3, <2>1 DEF Holding, Recording, Statuses
  <2>3. api.status # NewSerial
    BY <2>1 DEF Recording, Statuses
  <2>4. Holding(w)'
    BY <1>1, <2>1, <2>2, <2>3 DEF Holding
  <2>5. ASSUME NEW v \in Workers \ {w}, secret'[v] # NoId PROVE Holding(v)'
    <3>1. Holding(v) /\ secret[v] # NoId /\ secret'[v] = secret[v]
      BY <1>1, <1>3, <2>5
    <3>2. \A u \in Workers \ {v} : mr'[u].status # secret[v] /\ secret'[u] # secret[v]
      BY <1>1, <2>1, <2>2, <3>1 DEF Holding
    <3>. QED  BY <1>1, <1>5, <3>1, <3>2 DEF Holding
  <2>. QED  BY <1>1, <1>3, <2>1, <2>4, <2>5 DEF Hands
<1>7. CASE ~IssueCertificate(w)
  <2>1. /\ mr' = mr /\ secret' = secret /\ pc'[w] # "annotate"
        /\ pc[w] \notin {"annotate", "publish", "status"}
    BY <1>7, ControllerCases
  <2>2. secret[w] = NoId
    BY <1>3, <2>1 DEF Holding
  <2>3. ASSUME NEW v \in Workers, secret'[v] # NoId PROVE Holding(v)'
    BY <1>1, <1>3, <1>5, <2>1, <2>2, <2>3 DEF Holding
  <2>. QED  BY <1>1, <1>3, <2>1, <2>3 DEF Hands
<1>. QED  BY <1>6, <1>7

\* Whoever records a certificate is done with its creation, and whoever begins
\* another one works on another backend.
LEMMA ApartStep ==
  ASSUME TypeOK, NoNames, CopiesAgree, Untouched, Recording, Sought, Apart,
         [Next]_vars
  PROVE  Apart'
<1>0. Weathered
  BY CertsWeather
<1>. USE DEF TypeOK, ManagedTypeOK
\* What is recorded stays, and who is no creator of its backend stays none.
<1>1. ASSUME api'.status = api.status, api'.present => api.present,
             \A v \in Workers : v \in Creators' /\ pc[v] # "idle" =>
                specCopy'[v] = specCopy[v],
             \A v \in Workers : v \in Creators' /\ v \notin Creators =>
                ~Found(specCopy[v], api.status) /\ pc[v] # "idle"
      PROVE  Apart'
  <2>. SUFFICES ASSUME api'.present, api.status \in DOMAIN certs'
                PROVE  \E v \in Workers :
                          v \in Creators' => specCopy'[v] # certs'[api.status].backend
    BY <1>1 DEF Apart
  <2>1. /\ api.status \in DOMAIN certs
        /\ certs'[api.status].backend = certs[api.status].backend
    BY <1>0 DEF Weathered, Recording, Statuses
  <2>2. PICK v \in Workers : v \in Creators => specCopy[v] # certs[api.status].backend
    BY <1>1, <2>1 DEF Apart
  <2>3. CASE v \in Creators
    BY <1>1, <2>1, <2>2, <2>3 DEF Creators
  <2>4. CASE v \notin Creators
    BY <1>1, <2>1, <2>4 DEF Found
  <2>. QED  BY <2>3, <2>4
<1>2. ASSUME NEW w \in Workers, Managing(w)
      PROVE  Apart'
  <2>1. /\ ReconcilerStep(w) \/ ReconcilerFault(w) \/ SyncCache(w)
        /\ \A v \in Workers : pc[v] # "idle" /\ pc'[v] # "idle" =>
              specCopy'[v] = specCopy[v]
    BY <1>2, ManagingFrame
  <2>2. \A v \in Workers \ {w} : pc'[v] = pc[v]
    BY <2>1, ReconcilerFrame
  <2>3. \A v \in Workers : v \in Creators' /\ pc[v] # "idle" =>
           specCopy'[v] = specCopy[v]
    BY <2>1 DEF Creators
  <2>4. ASSUME w \in Creators' => w \in Creators,
               api'.status = api.status, api'.present => api.present
        PROVE  Apart'
    BY <1>1, <2>2, <2>3, <2>4 DEF Creators
  <2>5. CASE Reconcile(w) \/ SyncCache(w)
    BY <2>4, <2>5 DEF Reconcile, SyncCache, Goto, Creators
  <2>6. CASE AddFinalizer(w)
    <3>1. w \notin Creators'
      BY <2>6 DEF AddFinalizer, Goto, Creators
    <3>. QED  BY <2>4, <2>6, <3>1, AddFinalizerStores
  <2>7. CASE MarkCreatePending(w)
    <3>1. pc[w] = "pend" /\ w \in fresh /\ mr[w] = api
      BY <2>7 DEF MarkCreatePending, CopiesAgree, Reading
    <3>2. ~Found(specCopy[w], api.status)
      BY <3>1 DEF Sought, Absent
    <3>. QED
      BY <1>1, <2>2, <2>3, <2>7, <3>1, <3>2, MarkCreatePendingStores DEF Creators
  <2>8. CASE RemoveFinalizer(w)
    BY <2>8, RemoveFinalizerStores DEF Apart
  <2>9. CASE Conflict(w) \/ StatusConflict(w) \/ Abort(w)
    BY <2>4, <2>9 DEF Conflict, StatusConflict, Abort, Finish, Goto, Creators
  <2>10. CASE SaveAnnotations(w)
    <3>1. w \notin Creators'
      BY <2>10 DEF SaveAnnotations, Goto, Creators
    <3>. QED  BY <2>4, <2>10, <3>1, SaveAnnotationsStores
  <2>11. CASE PublishConnection(w) \/ LosePublication(w) \/ LoseAnnotations(w)
    BY <2>4, <2>11
    DEF PublishConnection, LosePublication, LoseAnnotations, Goto, Creators
  <2>12. CASE SaveStatus(w)
    BY <2>12 DEF SaveStatus, Finish, Goto, Creators, Apart
  <2>. QED
    BY <2>1, <2>5, <2>6, <2>7, <2>8, <2>9, <2>10, <2>11, <2>12
    DEF ReconcilerStep, ReconcilerFault
<1>3. ASSUME NEW w \in Workers, ControllerStep(w) \/ IssueUnanswered(w)
      PROVE  Apart'
  <2>1. /\ api' = api /\ pc[w] # "idle"
        /\ \A v \in Workers \ {w} : pc'[v] = pc[v]
        /\ \A v \in Workers : specCopy'[v] = specCopy[v] \/ pc[v] = "idle"
    BY <1>3, ControllerFrame
  <2>2. w \in Creators' => w \in Creators
    BY <1>3, ControllerCases DEF Creators
  <2>3. \A v \in Workers : v \in Creators' => v \in Creators
    BY <2>1, <2>2 DEF Creators
  <2>. QED  BY <1>1, <2>1, <2>3
<1>4. CASE EditSpec
  <2>1. /\ UNCHANGED <<api, pc>>
        /\ \A v \in Workers : pc[v] # "idle" => specCopy'[v] = specCopy[v]
    BY <1>4, EditFrame
  <2>2. Creators' = Creators
    BY <2>1 DEF Creators
  <2>. QED  BY <1>1, <2>1, <2>2
<1>5. CASE RequestDelete /\ Unmanaged /\ CarrySpec
  <2>1. /\ pc' = pc /\ api.present /\ api'.status = api.status
        /\ \A v \in Workers : pc[v] # "idle" => specCopy'[v] = specCopy[v]
    BY <1>5, DeletionFrame, RequestDeleteStores
  <2>2. Creators' = Creators
    BY <2>1 DEF Creators
  <2>. QED  BY <1>1, <2>1, <2>2
<1>6. CASE (Age \/ OperatorRevokes \/ Tidy) \/ UNCHANGED vars
  <2>1. UNCHANGED <<api, pc, specCopy>>
    BY <1>6, AgeingFrame DEF managedVars, specVars, vars
  <2>2. Creators' = Creators
    BY <2>1 DEF Creators
  <2>. QED  BY <1>1, <2>1, <2>2
<1>. QED  BY <1>2, <1>3, <1>4, <1>5, <1>6, Cases

\* What happens outside the workers leaves their hands alone.
LEMMA OutsideHands ==
  ASSUME TypeOK, NoNames, Recording, Untouched, Hands, [Next]_vars,
         \/ EditSpec
         \/ RequestDelete /\ Unmanaged /\ CarrySpec
         \/ Age \/ OperatorRevokes \/ Tidy
         \/ UNCHANGED vars
  PROVE  Hands'
<1>0. Weathered
  BY CertsWeather
<1>1. /\ UNCHANGED <<cache, mr, pc, secret, issued>>
      /\ api'.status = api.status
      /\ fresh' \subseteq fresh
      /\ \A v \in Workers : pc[v] # "idle" => specCopy'[v] = specCopy[v]
  <2>1. CASE EditSpec
    BY <2>1, EditFrame
  <2>2. CASE RequestDelete /\ Unmanaged /\ CarrySpec
    BY <2>2, DeletionFrame, RequestDeleteStores DEF TypeOK, pki
  <2>3. CASE Age \/ OperatorRevokes \/ Tidy
    BY <2>3, AgeingFrame DEF managedVars, specVars
  <2>4. CASE UNCHANGED vars
    BY <2>4 DEF vars, managedVars, specVars, pki
  <2>. QED  BY <2>1, <2>2, <2>3, <2>4
<1>2. ASSUME NEW v \in Workers, secret[v] # NoId PROVE Holding(v)'
  <2>1. Holding(v) /\ specCopy'[v] = specCopy[v]
    BY <1>1, <1>2 DEF Hands, Holding
  <2>2. secret[v] \in DOMAIN certs' => certs'[secret[v]].backend = specCopy[v]
    BY <1>0, <2>1 DEF Holding, Weathered
  <2>. QED  BY <1>1, <2>1, <2>2 DEF Holding
<1>. QED  BY <1>1, <1>2 DEF Hands

\* The history is kept by every step.
LEMMA HistoryStep ==
  ASSUME TypeOK, History, [Next]_vars
  PROVE  TypeOK' /\ History'
<1>1. TypeOK' /\ NoNames'
  BY TypeStep DEF History
<1>2. CopiesAgree' /\ Untouched'
  BY CopiesStep DEF History
<1>3. Recording' /\ SpecsAgree'
  BY RecordingStep, SpecsStep DEF History
<1>4. Sought' /\ Apart'
  BY SoughtStep, ApartStep DEF History
<1>5. Hands'
  BY ManagingHands, ControllerHands, OutsideHands, Cases DEF History
<1>. QED  BY <1>1, <1>2, <1>3, <1>4, <1>5 DEF History

----------------------------------------------------------------------------
(***************************************************************************)
(* Bookkeeping.                                                            *)
(***************************************************************************)

\* What the ledger counts is finite.
BooksOK ==
    /\ IsFiniteSet(Lost) /\ IsFiniteSet(Creators) /\ IsFiniteSet(Behind)
    /\ Cardinality(Lost) \in Nat /\ Cardinality(Creators) \in Nat
    /\ Cardinality(Behind) \in Nat
    /\ Mishaps \in Nat /\ Toll \in Nat /\ edits \in Nat
    /\ Cardinality(Workers) \in Nat

\* It is, since the workers are and the serials issued so far are.
LEMMA BooksFinite == TypeOK /\ Recording => BooksOK
<1>. SUFFICES ASSUME TypeOK, Recording PROVE BooksOK
  OBVIOUS
<1>1. /\ Lost \subseteq issued /\ IsFiniteSet(issued)
      /\ Creators \subseteq Workers /\ Behind \subseteq Workers
      /\ IsFiniteSet(Workers)
  BY ManagedAssumption
  DEF TypeOK, ManagedTypeOK, Recording, Lost, Creators, Writers, Behind
<1>2. /\ IsFiniteSet(Lost) /\ IsFiniteSet(Creators) /\ IsFiniteSet(Behind)
  BY <1>1, FS_Subset
<1>3. /\ Cardinality(Lost) \in Nat /\ Cardinality(Creators) \in Nat
      /\ Cardinality(Behind) \in Nat /\ Cardinality(Workers) \in Nat
  BY <1>1, <1>2, FS_CardinalityType
<1>4. Mishaps \in Nat
  BY ManagedAssumption, CertificateAssumption
  DEF TypeOK, ManagedTypeOK, Mishaps
<1>5. edits \in Nat
  BY SpecifiedAssumption DEF TypeOK, SpecifiedTypeOK
<1>6. Toll \in Nat
  <2>1. \A m, n \in Nat : m * n \in Nat
    OBVIOUS
  <2>. QED  BY <1>3, <1>5, <2>1 DEF Toll
<1>. QED  BY <1>2, <1>3, <1>4, <1>5, <1>6 DEF BooksOK

\* One edit more costs as much as there are workers.
LEMMA TollGrows ==
  ASSUME BooksOK, edits' = edits + 1
  PROVE  Toll' = Toll + Cardinality(Workers)
<1>1. \A m, n \in Nat : m * (n + 1) = m * n + m
  OBVIOUS
<1>. QED  BY <1>1 DEF BooksOK, Toll

\* The ledger stays balanced when what can be lost grows by no more than what
\* is paid: dl, dc and db are the differences of the sets, dm that of the price.
LEMMA Balance ==
  ASSUME BooksOK, BooksOK', Ledger,
         NEW dl \in Int, NEW dc \in Int, NEW db \in Int, NEW dm \in Int,
         Cardinality(Lost') <= Cardinality(Lost) + dl,
         Cardinality(Creators') <= Cardinality(Creators) + dc,
         Cardinality(Behind') <= Cardinality(Behind) + db,
         Mishaps + Toll + dm <= Mishaps' + Toll',
         dl + dc + db + Count(Writing') + Count(Astray') + Count(Pledged)
           <= dm + Count(Writing) + Count(Astray) + Count(Pledged')
  PROVE  Ledger'
<1>1. PICK l \in Nat, c \in Nat, b \in Nat, m \in Nat, t \in Nat :
         /\ l = Cardinality(Lost) /\ c = Cardinality(Creators)
         /\ b = Cardinality(Behind) /\ m = Mishaps /\ t = Toll
  BY DEF BooksOK
<1>2. PICK l2 \in Nat, c2 \in Nat, b2 \in Nat, m2 \in Nat, t2 \in Nat :
         /\ l2 = Cardinality(Lost') /\ c2 = Cardinality(Creators')
         /\ b2 = Cardinality(Behind') /\ m2 = Mishaps' /\ t2 = Toll'
  BY DEF BooksOK
<1>3. PICK w \in 0 .. 1, a \in 0 .. 1, p \in 0 .. 1 :
         w = Count(Writing) /\ a = Count(Astray) /\ p = Count(Pledged)
  BY DEF Count
<1>4. PICK w2 \in 0 .. 1, a2 \in 0 .. 1, p2 \in 0 .. 1 :
         w2 = Count(Writing') /\ a2 = Count(Astray') /\ p2 = Count(Pledged')
  BY DEF Count
<1>5. l + c + w + a + b <= m + t + p
  BY <1>1, <1>3 DEF Ledger, Exposed
<1>6. /\ l2 <= l + dl /\ c2 <= c + dc /\ b2 <= b + db /\ m + t + dm <= m2 + t2
      /\ dl + dc + db + w2 + a2 + p <= dm + w + a + p2
  BY <1>1, <1>2, <1>3, <1>4
<1>7. l2 + c2 + w2 + a2 + b2 <= m2 + t2 + p2
  BY <1>5, <1>6
<1>. QED  BY <1>2, <1>4, <1>7 DEF Ledger, Exposed

\* Nothing new is at stake, and a pledge ends with the creation or the writing
\* it is about, or is paid for.
LEMMA QuietMove ==
  ASSUME BooksOK, BooksOK', Ledger,
         Lost' \subseteq Lost, Creators' \subseteq Creators,
         Behind' \subseteq Behind, Writing' => Writing, Astray' => Astray,
         Mishaps <= Mishaps', Toll' = Toll,
         Pledged => \/ Pledged'
                    \/ Creators' # Creators
                    \/ Writing /\ ~Writing'
                    \/ Mishaps + 1 <= Mishaps'
  PROVE  Ledger'
<1>1. /\ Cardinality(Lost') <= Cardinality(Lost)
      /\ Cardinality(Creators') <= Cardinality(Creators)
      /\ Cardinality(Behind') <= Cardinality(Behind)
  BY NoMore DEF BooksOK
<1>2. Creators' # Creators => Cardinality(Creators') <= Cardinality(Creators) - 1
  BY OneGone DEF BooksOK
<1>3. /\ \A m, n, t \in Nat : m <= n => m + t + 0 <= n + t
      /\ \A m, n, t \in Nat : m + 1 <= n => m + t + 1 <= n + t
      /\ \A m \in Nat : m + 0 = m /\ m + (-1) = m - 1
  OBVIOUS
<1>4. Mishaps \in Nat /\ Mishaps' \in Nat /\ Toll \in Nat
  BY DEF BooksOK
<1>5. CASE Creators' # Creators
  <2>1. Cardinality(Creators') <= Cardinality(Creators) + (-1)
    BY <1>2, <1>3, <1>5 DEF BooksOK
  <2>2. 0 + (-1) + 0 + Count(Writing') + Count(Astray') + Count(Pledged)
           <= 0 + Count(Writing) + Count(Astray) + Count(Pledged')
    BY DEF Count
  <2>3. Mishaps + Toll + 0 <= Mishaps' + Toll'
    BY <1>3, <1>4
  <2>4. /\ Cardinality(Lost') <= Cardinality(Lost) + 0
        /\ Cardinality(Behind') <= Cardinality(Behind) + 0
    BY <1>1, <1>3 DEF BooksOK
  <2>5. 0 \in Int /\ -1 \in Int
    OBVIOUS
  <2>. QED  BY <2>1, <2>2, <2>3, <2>4, <2>5, Balance
<1>6. CASE Creators' = Creators
  <2>1. /\ Cardinality(Lost') <= Cardinality(Lost) + 0
        /\ Cardinality(Creators') <= Cardinality(Creators) + 0
        /\ Cardinality(Behind') <= Cardinality(Behind) + 0
    BY <1>1, <1>3 DEF BooksOK
  <2>2. CASE Mishaps + 1 <= Mishaps'
    <3>1. 0 + 0 + 0 + Count(Writing') + Count(Astray') + Count(Pledged)
             <= 1 + Count(Writing) + Count(Astray) + Count(Pledged')
      BY DEF Count
    <3>2. Mishaps + Toll + 1 <= Mishaps' + Toll'
      BY <1>3, <1>4, <2>2
    <3>3. 0 \in Int /\ 1 \in Int
      OBVIOUS
    <3>. QED  BY <2>1, <3>1, <3>2, <3>3, Balance
  <2>3. CASE ~(Mishaps + 1 <= Mishaps')
    <3>1. 0 + 0 + 0 + Count(Writing') + Count(Astray') + Count(Pledged)
             <= 0 + Count(Writing) + Count(Astray) + Count(Pledged')
      BY <1>6, <2>3 DEF Count
    <3>2. Mishaps + Toll + 0 <= Mishaps' + Toll'
      BY <1>3, <1>4
    <3>3. 0 \in Int
      OBVIOUS
    <3>. QED  BY <2>1, <3>1, <3>2, <3>3, Balance
  <2>. QED  BY <2>2, <2>3
<1>. QED  BY <1>5, <1>6


\* The same for a step that loses one certificate and pays for it.
LEMMA PaidMove ==
  ASSUME BooksOK, BooksOK', Ledger, NEW x,
         Lost' \subseteq Lost \cup {x}, Creators' \subseteq Creators,
         Behind' \subseteq Behind, Writing' => Writing, Astray' => Astray,
         Mishaps + 1 <= Mishaps', Toll' = Toll,
         Pledged => \/ Pledged'
                    \/ Creators' # Creators
                    \/ Writing /\ ~Writing'
  PROVE  Ledger'
<1>1. /\ Cardinality(Lost') <= Cardinality(Lost) + 1
      /\ Cardinality(Creators') <= Cardinality(Creators)
      /\ Cardinality(Behind') <= Cardinality(Behind)
  <2>1. Cardinality(Lost') <= Cardinality(Lost) + 1
    BY AtMostOneMore DEF BooksOK
  <2>2. /\ Cardinality(Creators') <= Cardinality(Creators)
        /\ Cardinality(Behind') <= Cardinality(Behind)
    BY NoMore DEF BooksOK
  <2>. QED  BY <2>1, <2>2
<1>2. Creators' # Creators => Cardinality(Creators') <= Cardinality(Creators) - 1
  BY OneGone DEF BooksOK
<1>3. /\ \A m, n, t \in Nat : m + 1 <= n => m + t + 1 <= n + t
      /\ \A m \in Nat : m + 0 = m /\ m + (-1) = m - 1
      /\ 0 \in Int /\ 1 \in Int /\ -1 \in Int
  OBVIOUS
<1>4. Mishaps + Toll + 1 <= Mishaps' + Toll'
  BY <1>3 DEF BooksOK
<1>5. Cardinality(Behind') <= Cardinality(Behind) + 0
  BY <1>1, <1>3 DEF BooksOK
<1>6. CASE Creators' # Creators
  <2>1. Cardinality(Creators') <= Cardinality(Creators) + (-1)
    BY <1>2, <1>3, <1>6 DEF BooksOK
  <2>2. 1 + (-1) + 0 + Count(Writing') + Count(Astray') + Count(Pledged)
           <= 1 + Count(Writing) + Count(Astray) + Count(Pledged')
    BY DEF Count
  <2>. QED  BY <1>1, <1>3, <1>4, <1>5, <2>1, <2>2, Balance
<1>7. CASE Creators' = Creators
  <2>1. Cardinality(Creators') <= Cardinality(Creators) + 0
    BY <1>1, <1>3 DEF BooksOK
  <2>2. 1 + 0 + 0 + Count(Writing') + Count(Astray') + Count(Pledged)
           <= 1 + Count(Writing) + Count(Astray) + Count(Pledged')
    BY <1>7 DEF Count
  <2>. QED  BY <1>1, <1>3, <1>4, <1>5, <2>1, <2>2, Balance
<1>. QED  BY <1>6, <1>7

\* What leaves the stored resource and its certificate where they are leaves
\* the pledge, and nothing goes astray.
LEMMA PledgeKept ==
  ASSUME TypeOK, Recording, Weathered, spec' = spec,
         api'.present = api.present, api'.status = api.status,
         api'.pending = api.pending,
         Updaters' \subseteq Updaters \/ Placed
  PROVE  /\ Astray' => Astray
         /\ Valid(api.status)' => Valid(api.status)
         /\ Placed' => Placed
         /\ Pledged => \/ Pledged'
                       \/ Creators' # Creators
                       \/ Writing /\ ~Writing'
<1>1. api.status \in issued \cup {NoId}
  BY DEF Recording, Statuses
<1>2. /\ Valid(api.status)' => Valid(api.status)
      /\ Placed' => Placed
      /\ Valid(api.status)' /\ Placed => Placed'
  BY <1>1 DEF Weathered, Valid, Placed, Found
<1>3. Astray' => Astray
  BY <1>2 DEF Astray
<1>4. Overwritten => Overwritten' \/ (Writing /\ ~Writing')
  BY <1>2 DEF Overwritten
<1>5. Recreated /\ Creators' = Creators => Recreated'
  BY <1>2 DEF Recreated
<1>. QED  BY <1>2, <1>3, <1>4, <1>5 DEF Pledged

\* A step that puts nothing new at stake keeps the ledger.
LEMMA QuietStep ==
  ASSUME TypeOK, TypeOK', Recording, Recording', Ledger, Weathered,
         spec' = spec, edits' = edits, Mishaps <= Mishaps',
         api'.present = api.present, api'.status = api.status,
         api'.pending = api.pending,
         Updaters' \subseteq Updaters \/ Placed,
         Lost' \subseteq Lost, Creators' \subseteq Creators,
         Behind' \subseteq Behind, Writing' => Writing
  PROVE  Ledger'
<1>1. BooksOK /\ BooksOK'
  BY BooksFinite, PTL
<1>2. Toll' = Toll
  BY DEF Toll
<1>. QED  BY <1>1, <1>2, PledgeKept, QuietMove

\* So does one that loses a certificate and pays for it.
LEMMA PaidStep ==
  ASSUME TypeOK, TypeOK', Recording, Recording', Ledger, Weathered,
         spec' = spec, edits' = edits, Mishaps + 1 <= Mishaps',
         api'.present = api.present, api'.status = api.status,
         api'.pending = api.pending,
         Updaters' \subseteq Updaters \/ Placed,
         NEW x, Lost' \subseteq Lost \cup {x}, Creators' \subseteq Creators,
         Behind' \subseteq Behind, Writing' => Writing
  PROVE  Ledger'
<1>1. BooksOK /\ BooksOK'
  BY BooksFinite, PTL
<1>2. Toll' = Toll
  BY DEF Toll
<1>. QED  BY <1>1, <1>2, PledgeKept, PaidMove

\* What one worker does can lose only what that worker has in its hands.
LEMMA HandsKept ==
  ASSUME NEW w \in Workers,
         \A v \in Workers \ {w} : mr'[v] = mr[v] /\ secret'[v] = secret[v],
         \A id \in DOMAIN certs' : Valid(id)' => Valid(id),
         Recorded' = Recorded
  PROVE  /\ Lost' \subseteq Lost \cup {secret[w]}
         /\ secret[w] = NoId => Lost' \subseteq Lost
         /\ mr[w].status # secret[w] => Lost' \subseteq Lost
         /\ secret'[w] = secret[w] /\ mr'[w].status = mr[w].status =>
               Lost' \subseteq Lost
<1>1. \A id : Valid(id)' => id \in DOMAIN certs' /\ Valid(id) /\ id \in DOMAIN certs
  BY DEF Valid
<1>2. Held \subseteq Held' \cup {secret[w]}
  BY DEF Held
<1>3. ASSUME \/ secret[w] = NoId
             \/ mr[w].status # secret[w]
             \/ secret'[w] = secret[w] /\ mr'[w].status = mr[w].status
      PROVE  Held \subseteq Held'
  BY <1>3 DEF Held
<1>. QED  BY <1>1, <1>2, <1>3 DEF Lost

----------------------------------------------------------------------------
(***************************************************************************)
(* The ledger and the reconciler.                                          *)
(***************************************************************************)

\* A step of the reconciler changes what is at stake for one worker only.
LEMMA ManagingStakes ==
  ASSUME TypeOK, History, NEW w \in Workers, Managing(w)
  PROVE  /\ \A v \in Workers \ {w} :
               /\ v \in Creators' <=> v \in Creators
               /\ v \in Writers' => v \in Writers
               /\ v \in Updaters' => v \in Updaters
               /\ v \in Behind' => v \in Behind
         /\ w \in Behind' /\ w \in Creators \cup Writers => w \in Behind
         /\ Writers' \subseteq Workers /\ Updaters' \subseteq Workers
         /\ Creators' \subseteq Workers /\ Behind' \subseteq Workers
         /\ TypeOK' /\ Recording' /\ Weathered
         /\ certs' = certs /\ spec' = spec /\ edits' = edits /\ kept' = kept
         /\ faults <= faults' /\ overrides <= overrides'
         /\ discarded <= discarded'
         /\ Mishaps <= Mishaps'
         /\ faults' = faults + 1 => Mishaps + 1 <= Mishaps'
         /\ overrides' = overrides + 1 => Mishaps + 1 <= Mishaps'
         /\ discarded' = discarded + 1 => Mishaps + 1 <= Mishaps'
<1>1. /\ ReconcilerStep(w) \/ ReconcilerFault(w) \/ SyncCache(w)
      /\ UNCHANGED <<spec, edits, certs, kept>>
      /\ TypeOK'
      /\ \A v \in Workers : pc[v] # "idle" /\ pc'[v] # "idle" =>
            specCopy'[v] = specCopy[v]
  BY ManagingFrame DEF History, pki
<1>2. /\ \A v \in Workers \ {w} :
            mr'[v] = mr[v] /\ pc'[v] = pc[v] /\ plan'[v] = plan[v]
      /\ fresh' \subseteq fresh \cup {w}
      /\ api' = api \/ fresh' \subseteq {w}
  BY <1>1, ReconcilerFrame DEF TypeOK
<1>3. Recording' /\ Weathered
  <2>1. [Next]_vars
    BY DEF Next
  <2>. QED  BY <2>1, RecordingStep, CertsWeather DEF History
<1>4. /\ faults <= faults' /\ overrides <= overrides' /\ discarded <= discarded'
  BY <1>1, ReconcilerCounts DEF TypeOK
<1>5. /\ Mishaps <= Mishaps'
      /\ faults' = faults + 1 => Mishaps + 1 <= Mishaps'
      /\ overrides' = overrides + 1 => Mishaps + 1 <= Mishaps'
      /\ discarded' = discarded + 1 => Mishaps + 1 <= Mishaps'
  <2>1. /\ faults \in Nat /\ overrides \in Nat /\ discarded \in Nat /\ kept \in Nat
        /\ faults' \in Nat /\ overrides' \in Nat /\ discarded' \in Nat
    BY <1>1, ManagedAssumption, CertificateAssumption
    DEF TypeOK, ManagedTypeOK
  <2>2. \A f, o, d, f2, o2, d2, k \in Nat :
           f <= f2 /\ o <= o2 /\ d <= d2 =>
              /\ f + o + d + k <= f2 + o2 + d2 + k
              /\ f2 = f + 1 => f + o + d + k + 1 <= f2 + o2 + d2 + k
              /\ o2 = o + 1 => f + o + d + k + 1 <= f2 + o2 + d2 + k
              /\ d2 = d + 1 => f + o + d + k + 1 <= f2 + o2 + d2 + k
    OBVIOUS
  <2>3. Mishaps' = faults' + overrides' + discarded' + kept
    BY <1>1 DEF Mishaps
  <2>. QED  BY <1>4, <2>1, <2>2, <2>3 DEF Mishaps
<1>6. /\ fresh' \subseteq Workers /\ fresh \subseteq Workers
  BY <1>1 DEF TypeOK, ManagedTypeOK
<1>7. /\ Writers' \subseteq Workers /\ Updaters' \subseteq Workers
      /\ Creators' \subseteq Workers /\ Behind' \subseteq Workers
  BY <1>6 DEF Writers, Updaters, Creators, Behind
<1>8. ASSUME NEW v \in Workers \ {w}
      PROVE  /\ v \in Creators' <=> v \in Creators
             /\ v \in Writers' => v \in Writers
             /\ v \in Updaters' => v \in Updaters
  <2>1. v \in fresh' => v \in fresh /\ api' = api
    BY <1>2
  <2>2. v \in Creators' <=> v \in Creators
    BY <1>2 DEF Creators
  <2>3. v \in Writers' => v \in Writers
    BY <1>2, <2>1 DEF Writers
  <2>4. v \in Updaters' => v \in Updaters
    BY <1>2, <2>1 DEF Updaters
  <2>. QED  BY <2>2, <2>3, <2>4
<1>9. ASSUME NEW v \in Workers, v \in Creators \cup Writers, v \in Behind'
      PROVE  v \in Behind
  <2>1. pc[v] # "idle" /\ pc'[v] # "idle"
    BY <1>9 DEF Creators, Writers, Behind
  <2>2. specCopy'[v] = specCopy[v]
    BY <1>1, <2>1
  <2>. QED  BY <1>1, <1>9, <2>2 DEF Behind
<1>10. ASSUME NEW v \in Workers \ {w}, v \in Behind' PROVE v \in Behind
  BY <1>8, <1>9, <1>10 DEF Behind
<1>. QED  BY <1>1, <1>3, <1>4, <1>5, <1>7, <1>8, <1>9, <1>10

\* When the stored resource is left as it is and the worker neither loses the
\* certificate in its hands nor puts anything new at stake, nothing changes.
LEMMA ManagingQuiet ==
  ASSUME TypeOK, History, Ledger, NEW w \in Workers, Managing(w),
         api'.present = api.present, api'.status = api.status,
         api'.pending = api.pending,
         \/ secret[w] = NoId
         \/ mr[w].status # secret[w]
         \/ secret'[w] = secret[w] /\ mr'[w].status = mr[w].status,
         w \in Creators' => w \in Creators,
         w \in Writers' => w \in Writers,
         w \in Updaters' => w \in Updaters
  PROVE  Ledger'
<1>1. /\ ReconcilerStep(w) \/ ReconcilerFault(w) \/ SyncCache(w)
  BY ManagingFrame DEF History
<1>2. \A v \in Workers \ {w} : mr'[v] = mr[v] /\ secret'[v] = secret[v]
  BY <1>1, ReconcilerFrame DEF TypeOK
<1>3. Recorded' = Recorded
  BY DEF Recorded
<1>4. \A id \in DOMAIN certs' : Valid(id)' => Valid(id)
  BY ManagingStakes DEF Valid
<1>5. Lost' \subseteq Lost
  <2>1. \/ secret[w] = NoId
        \/ mr[w].status # secret[w]
        \/ secret'[w] = secret[w] /\ mr'[w].status = mr[w].status
    OBVIOUS
  <2>. QED  BY <1>2, <1>3, <1>4, <2>1, HandsKept
<1>6. /\ Creators' \subseteq Creators /\ Writers' \subseteq Writers
      /\ Updaters' \subseteq Updaters
  BY ManagingStakes
<1>7. Behind' \subseteq Behind
  <2>1. w \in Behind' => w \in Creators \cup Writers
    BY <1>6 DEF Behind
  <2>. QED  BY <2>1, ManagingStakes
<1>8. Writing' => Writing
  BY <1>6 DEF Writing
<1>9. Recording
  BY DEF History
<1>. QED  BY <1>5, <1>6, <1>7, <1>8, <1>9, ManagingStakes, QuietStep

\* When it does lose it, somebody pays.
LEMMA ManagingPaid ==
  ASSUME TypeOK, History, Ledger, NEW w \in Workers, Managing(w),
         api'.present = api.present, api'.status = api.status,
         api'.pending = api.pending,
         Mishaps + 1 <= Mishaps',
         w \in Creators' => w \in Creators,
         w \in Writers' => w \in Writers,
         w \in Updaters' => w \in Updaters
  PROVE  Ledger'
<1>1. /\ ReconcilerStep(w) \/ ReconcilerFault(w) \/ SyncCache(w)
  BY ManagingFrame DEF History
<1>2. \A v \in Workers \ {w} : mr'[v] = mr[v] /\ secret'[v] = secret[v]
  BY <1>1, ReconcilerFrame DEF TypeOK
<1>3. Recorded' = Recorded
  BY DEF Recorded
<1>4. \A id \in DOMAIN certs' : Valid(id)' => Valid(id)
  BY ManagingStakes DEF Valid
<1>5. Lost' \subseteq Lost \cup {secret[w]}
  BY <1>2, <1>3, <1>4, HandsKept
<1>6. /\ Creators' \subseteq Creators /\ Writers' \subseteq Writers
      /\ Updaters' \subseteq Updaters
  BY ManagingStakes
<1>7. Behind' \subseteq Behind
  <2>1. w \in Behind' => w \in Creators \cup Writers
    BY <1>6 DEF Behind
  <2>. QED  BY <2>1, ManagingStakes
<1>8. Writing' => Writing
  BY <1>6 DEF Writing
<1>9. Recording
  BY DEF History
<1>. QED  BY <1>5, <1>6, <1>7, <1>8, <1>9, ManagingStakes, PaidStep

\* A creation that begins overwrites nothing that anybody wants: it is a pledge
\* of its own, and who ignored the former one has paid.
LEMMA PendingLedger ==
  ASSUME TypeOK, History, Ledger, NEW w \in Workers, MarkCreatePending(w),
         Managing(w)
  PROVE  Ledger'
<1>1. BooksOK /\ BooksOK'
  <2>1. Recording /\ TypeOK' /\ Recording'
    BY ManagingStakes DEF History
  <2>. QED  BY <2>1, BooksFinite, PTL
<1>2. /\ pc[w] = "pend" /\ w \in fresh /\ pc'[w] = "create" /\ fresh' = {w}
      /\ secret' = secret /\ mr[w] = api /\ api.present
      /\ api'.present = api.present /\ api'.status = api.status /\ api'.pending
      /\ ~Placed
  <2>1. /\ pc[w] = "pend" /\ w \in fresh /\ pc'[w] = "create" /\ secret' = secret
    BY DEF MarkCreatePending, Goto, TypeOK, ManagedTypeOK
  <2>2. mr[w] = api /\ api.present /\ specCopy[w] = spec
    BY <2>1 DEF History, CopiesAgree, SpecsAgree, Reading
  <2>3. ~Placed
    BY <2>1, <2>2 DEF History, Sought, Absent, Placed
  <2>4. /\ api'.present = api.present /\ api'.status = api.status /\ api'.pending
        /\ fresh' = {w}
    BY MarkCreatePendingStores DEF TypeOK
  <2>. QED  BY <2>1, <2>2, <2>3, <2>4
<1>3. ~Writing' /\ Updaters' = {} /\ w \in Creators'
  BY <1>2 DEF Writing, Writers, Updaters, Creators
<1>4. ~Placed' /\ (Astray' => Astray)
  BY <1>2, ManagingStakes DEF Placed, Astray, Valid, Found
<1>5. Pledged'
  BY <1>2, <1>3, <1>4 DEF Pledged, Recreated
<1>6. Lost' \subseteq Lost
  <2>1. secret[w] = NoId
    BY <1>2 DEF History, Hands, Holding
  <2>2. \A v \in Workers \ {w} : mr'[v] = mr[v] /\ secret'[v] = secret[v]
    BY DEF MarkCreatePending
  <2>3. Recorded' = Recorded
    BY <1>2 DEF Recorded
  <2>4. \A id \in DOMAIN certs' : Valid(id)' => Valid(id)
    BY ManagingStakes DEF Valid
  <2>. QED  BY <2>1, <2>2, <2>3, <2>4, HandsKept
<1>7. Creators' \subseteq Creators \cup {w}
  BY ManagingStakes
<1>8. Behind' \subseteq Behind
  <2>1. specCopy'[w] = spec /\ spec' = spec
    BY <1>2, ManagingFrame DEF History, SpecsAgree, Reading
  <2>2. w \notin Behind'
    BY <2>1 DEF Behind
  <2>. QED  BY <2>2, ManagingStakes
<1>9. /\ Cardinality(Lost') <= Cardinality(Lost) + 0
      /\ Cardinality(Creators') <= Cardinality(Creators) + 1
      /\ Cardinality(Behind') <= Cardinality(Behind) + 0
  <2>1. Cardinality(Creators') <= Cardinality(Creators) + 1
    BY <1>1, <1>7, AtMostOneMore DEF BooksOK
  <2>2. /\ Cardinality(Lost') <= Cardinality(Lost)
        /\ Cardinality(Behind') <= Cardinality(Behind)
    BY <1>1, <1>6, <1>8, NoMore DEF BooksOK
  <2>3. \A m \in Nat : m + 0 = m
    OBVIOUS
  <2>. QED  BY <1>1, <2>1, <2>2, <2>3 DEF BooksOK
<1>10. Toll' = Toll
  BY ManagingStakes DEF Toll
<1>11. 0 \in Int /\ 1 \in Int
  OBVIOUS
<1>12. CASE api.pending
  <2>1. Mishaps + 1 <= Mishaps'
    <3>1. overrides' = overrides + 1
      BY <1>2, <1>12 DEF MarkCreatePending, CountOverride
    <3>. QED  BY <3>1, ManagingStakes
  <2>2. Mishaps + Toll + 1 <= Mishaps' + Toll'
    <3>1. \A m, n, t \in Nat : m + 1 <= n => m + t + 1 <= n + t
      OBVIOUS
    <3>. QED  BY <1>1, <1>10, <2>1, <3>1 DEF BooksOK
  <2>3. 0 + 1 + 0 + Count(Writing') + Count(Astray') + Count(Pledged)
           <= 1 + Count(Writing) + Count(Astray) + Count(Pledged')
    BY <1>3, <1>4, <1>5 DEF Count
  <2>. QED  BY <1>1, <1>9, <1>11, <2>2, <2>3, Balance
<1>13. CASE ~api.pending
  <2>1. Mishaps + Toll + 0 <= Mishaps' + Toll'
    <3>1. \A m, n, t \in Nat : m <= n => m + t + 0 <= n + t
      OBVIOUS
    <3>. QED  BY <1>1, <1>10, <3>1, ManagingStakes DEF BooksOK
  <2>2. Pledged => Writing
    BY <1>13 DEF Pledged, Overwritten, Recreated
  <2>3. 0 + 1 + 0 + Count(Writing') + Count(Astray') + Count(Pledged)
           <= 0 + Count(Writing) + Count(Astray) + Count(Pledged')
    BY <1>3, <1>4, <1>5, <2>2 DEF Count
  <2>. QED  BY <1>1, <1>9, <1>11, <2>1, <2>3, Balance
<1>. QED  BY <1>12, <1>13

\* When the annotations of a creation are stored or given up, the creation is
\* over, and its worker may go on to write its status.
LEMMA AnnotatedLedger ==
  ASSUME TypeOK, History, Ledger, NEW w \in Workers, Managing(w),
         SaveAnnotations(w) \/ LoseAnnotations(w)
  PROVE  Ledger'
<1>1. BooksOK /\ BooksOK'
  <2>1. Recording /\ TypeOK' /\ Recording'
    BY ManagingStakes DEF History
  <2>. QED  BY <2>1, BooksFinite, PTL
<1>2. /\ pc[w] \in {"annotate", "annotateFailed"} /\ pc'[w] \in {"publish", "status"}
      /\ secret' = secret
      /\ \A v \in Workers \ {w} : mr'[v] = mr[v]
      /\ api'.present = api.present /\ api'.status = api.status
      /\ \/ mr'[w].status = mr[w].status
         \/ SaveAnnotations(w) /\ mr'[w].status = api.status /\ faults' = faults + 1
      /\ SaveAnnotations(w) => api.present
      /\ LoseAnnotations(w) => api' = api /\ fresh' = fresh
      /\ LoseAnnotations(w) /\ api.present => faults' = faults + 1
      /\ SaveAnnotations(w) => fresh' = {w}
  <2>1. LoseAnnotations(w) =>
           /\ pc[w] \in {"annotate", "annotateFailed"} /\ pc'[w] = "status"
           /\ secret' = secret /\ mr' = mr /\ api' = api /\ fresh' = fresh
           /\ api.present => faults' = faults + 1
    BY DEF LoseAnnotations, Goto, TypeOK, ManagedTypeOK, Fault
  <2>2. SaveAnnotations(w) =>
           /\ pc[w] \in {"annotate", "annotateFailed"}
           /\ pc'[w] \in {"publish", "status"}
           /\ secret' = secret
           /\ \A v \in Workers \ {w} : mr'[v] = mr[v]
    BY DEF SaveAnnotations, Goto, TypeOK, ManagedTypeOK
  <2>. QED  BY <2>1, <2>2, SaveAnnotationsStores DEF TypeOK
<1>3. Creators' \subseteq Creators /\ Creators' # Creators
  <2>1. w \in Creators /\ w \notin Creators'
    BY <1>2 DEF Creators
  <2>. QED  BY <2>1, ManagingStakes
<1>4. Cardinality(Creators') <= Cardinality(Creators) + (-1)
  <2>1. \A m \in Nat : m - 1 = m + (-1)
    OBVIOUS
  <2>. QED  BY <1>1, <1>3, <2>1, OneGone DEF BooksOK
<1>5. Cardinality(Behind') <= Cardinality(Behind) + 0
  <2>1. w \in Creators
    BY <1>2 DEF Creators
  <2>2. Behind' \subseteq Behind
    BY <2>1, ManagingStakes
  <2>3. \A m \in Nat : m + 0 = m
    OBVIOUS
  <2>. QED  BY <1>1, <2>2, <2>3, NoMore DEF BooksOK
<1>6. /\ Astray' => Astray
      /\ Valid(api.status)' => Valid(api.status)
      /\ Placed' => Placed
  BY <1>2, ManagingStakes DEF Placed, Astray, Valid, Found
<1>7. /\ Recorded' = Recorded
      /\ \A id \in DOMAIN certs' : Valid(id)' => Valid(id)
  BY <1>2, ManagingStakes DEF Recorded, Valid
<1>8. /\ mr'[w].status = mr[w].status => Lost' \subseteq Lost
      /\ Lost' \subseteq Lost \cup {secret[w]}
  BY <1>2, <1>7, HandsKept
<1>9. Toll' = Toll
  BY ManagingStakes DEF Toll
<1>10. /\ 0 \in Int /\ 1 \in Int /\ -1 \in Int
       /\ \A m, n, t \in Nat : m + 1 <= n => m + t + 1 <= n + t
       /\ \A m, n, t \in Nat : m <= n => m + t + 0 <= n + t
       /\ \A m \in Nat : m + 0 = m
  OBVIOUS
<1>11. mr'[w].status = mr[w].status => Cardinality(Lost') <= Cardinality(Lost) + 0
  BY <1>1, <1>8, <1>10, NoMore DEF BooksOK
<1>12. Cardinality(Lost') <= Cardinality(Lost) + 1
  BY <1>1, <1>8, AtMostOneMore DEF BooksOK
<1>13. CASE LoseAnnotations(w) /\ mr'[w].status = mr[w].status
  <2>1. CASE api.present
    <3>1. Mishaps + Toll + 1 <= Mishaps' + Toll'
      BY <1>1, <1>2, <1>9, <1>10, <1>13, <2>1, ManagingStakes DEF BooksOK
    <3>2. 0 + (-1) + 0 + Count(Writing') + Count(Astray') + Count(Pledged)
             <= 1 + Count(Writing) + Count(Astray) + Count(Pledged')
      BY <1>6 DEF Count
    <3>. QED  BY <1>1, <1>4, <1>5, <1>10, <1>11, <1>13, <3>1, <3>2, Balance
  <2>2. CASE ~api.present
    <3>1. Mishaps + Toll + 0 <= Mishaps' + Toll'
      BY <1>1, <1>9, <1>10, ManagingStakes DEF BooksOK
    <3>2. ~Pledged /\ ~Writing'
      BY <1>2, <1>13, <2>2 DEF Pledged, Writing, Writers, History, CopiesAgree
    <3>3. 0 + (-1) + 0 + Count(Writing') + Count(Astray') + Count(Pledged)
             <= 0 + Count(Writing) + Count(Astray) + Count(Pledged')
      BY <1>6, <3>2 DEF Count
    <3>. QED  BY <1>1, <1>4, <1>5, <1>10, <1>11, <1>13, <3>1, <3>3, Balance
  <2>. QED  BY <2>1, <2>2
<1>14. CASE SaveAnnotations(w) /\ mr'[w].status = mr[w].status
  <2>1. Mishaps + Toll + 0 <= Mishaps' + Toll'
    BY <1>1, <1>9, <1>10, ManagingStakes DEF BooksOK
  <2>2. Writing' /\ ~Writing /\ Pledged => Pledged'
    BY <1>2, <1>6, <1>14 DEF Pledged, Overwritten, Recreated
  <2>3. 0 + (-1) + 0 + Count(Writing') + Count(Astray') + Count(Pledged)
           <= 0 + Count(Writing) + Count(Astray) + Count(Pledged')
    BY <1>6, <2>2 DEF Count
  <2>. QED  BY <1>1, <1>4, <1>5, <1>10, <1>11, <1>14, <2>1, <2>3, Balance
<1>15. CASE /\ SaveAnnotations(w) /\ mr'[w].status = api.status
            /\ faults' = faults + 1
  <2>1. Mishaps + Toll + 1 <= Mishaps' + Toll'
    BY <1>1, <1>9, <1>10, <1>15, ManagingStakes DEF BooksOK
  <2>2. ~Writing'
    BY <1>2, <1>15 DEF Writing, Writers
  <2>3. 1 + (-1) + 0 + Count(Writing') + Count(Astray') + Count(Pledged)
           <= 1 + Count(Writing) + Count(Astray) + Count(Pledged')
    BY <1>6, <2>2 DEF Count
  <2>. QED  BY <1>1, <1>4, <1>5, <1>10, <1>12, <2>1, <2>3, Balance
<1>. QED  BY <1>2, <1>13, <1>14, <1>15

\* Another serial over the recorded one: the writing is over, what it overwrites
\* was pledged or astray when it was not lost already, and what it records was
\* lost before or in the hands of its worker, who was behind if it is astray.
LEMMA WrittenLedger ==
  ASSUME TypeOK, History, Ledger, NEW w \in Workers, Managing(w), SaveStatus(w),
         mr[w].status # api.status
  PROVE  Ledger'
<1>1. BooksOK /\ BooksOK'
  <2>1. Recording /\ TypeOK' /\ Recording'
    BY ManagingStakes DEF History
  <2>. QED  BY <2>1, BooksFinite, PTL
<1>2. /\ pc[w] = "status" /\ w \in fresh /\ pc'[w] = "idle" /\ fresh' = {}
      /\ api.present /\ api'.present = api.present
      /\ api'.status = mr[w].status
      /\ secret'[w] = NoId
      /\ \A v \in Workers \ {w} :
            secret'[v] = secret[v] /\ mr'[v] = mr[v] /\ pc'[v] = pc[v]
  <2>1. /\ pc[w] = "status" /\ w \in fresh /\ pc'[w] = "idle"
        /\ secret'[w] = NoId
        /\ \A v \in Workers \ {w} :
              secret'[v] = secret[v] /\ mr'[v] = mr[v] /\ pc'[v] = pc[v]
    BY DEF SaveStatus, Finish, Goto, TypeOK, ManagedTypeOK
  <2>2. api.present
    BY <2>1 DEF History, CopiesAgree
  <2>3. /\ api'.present = api.present /\ api'.status = mr[w].status
        /\ fresh' = {}
    BY SaveStatusStores DEF TypeOK
  <2>. QED  BY <2>1, <2>2, <2>3
<1>3. /\ w \in Writers /\ Writing /\ ~Writing'
      /\ Creators' = Creators
  <2>1. w \notin Creators /\ w \notin Creators'
    BY <1>2 DEF Creators
  <2>2. Creators' = Creators
    BY <2>1, ManagingStakes DEF Creators
  <2>. QED  BY <1>2, <2>2 DEF Writers, Writing
<1>4. Behind' \subseteq Behind \ {w}
  <2>1. w \notin Behind'
    BY <1>2, <1>3 DEF Behind, Writers, Creators
  <2>. QED  BY <2>1, ManagingStakes
\* What was recorded and what is.
<1>5. DEFINE old == api.status
             new == mr[w].status
<1>6. /\ old # new
      /\ \A id : Valid(id)' <=> Valid(id)
      /\ Recorded = {old} /\ Recorded' = {new}
  BY <1>2, ManagingStakes DEF Recorded, Valid
<1>7. /\ old \notin Held /\ Lost' \subseteq Lost \cup {old}
      /\ new \notin Lost'
      /\ ~Valid(old) => Lost' \subseteq Lost
      /\ secret[w] = NoId /\ Valid(new) => new \in Lost
  <2>1. \A v \in Workers : secret[v] # NoId => secret[v] # old
    BY DEF History, Hands, Holding
  <2>2. old \notin Held
    BY <2>1 DEF Held
  <2>3. Held \subseteq Held' \cup {new}
    BY <1>2 DEF Held
  <2>4. new \notin Lost'
    BY <1>6 DEF Lost
  <2>5. Lost' \subseteq Lost \cup {old}
    BY <1>6, <2>3, <2>4, ManagingStakes DEF Lost
  <2>6. ~Valid(old) => Lost' \subseteq Lost
    BY <1>6, <2>5, ManagingStakes DEF Lost
  <2>7. ASSUME secret[w] = NoId, Valid(new) PROVE new \in Lost
    <3>1. \A v \in Workers : secret[v] # NoId => secret[v] # new
      BY <2>7 DEF History, Hands, Holding
    <3>2. new \notin Held
      BY <3>1 DEF Held
    <3>3. new \in DOMAIN certs
      BY <2>7 DEF Valid
    <3>. QED  BY <1>6, <2>7, <3>2, <3>3 DEF Lost
  <2>. QED  BY <2>2, <2>4, <2>5, <2>6, <2>7
<1>8. secret[w] # NoId /\ Astray' => w \in Behind
  <2>. SUFFICES ASSUME secret[w] # NoId, Astray' PROVE w \in Behind
    OBVIOUS
  <2>1. Holding(w) /\ new = secret[w]
    BY <1>2, <1>6 DEF History, Hands, Holding
  <2>2. Valid(new) /\ ~Found(spec, new)
    BY <1>2, <1>6, ManagingStakes DEF Astray, Placed, Found
  <2>3. certs[new].backend = specCopy[w] /\ certs[new].backend # spec
    BY <2>1, <2>2 DEF Holding, Found, Valid
  <2>. QED  BY <1>3, <2>3 DEF Behind
\* In numbers.
<1>9. \E dl, db \in Int :
         /\ Cardinality(Lost') <= Cardinality(Lost) + dl
         /\ Cardinality(Behind') <= Cardinality(Behind) + db
         /\ dl + db + Count(Astray') <= Count(Valid(old))
  <2>1. /\ \A m \in Nat : m + 0 = m /\ m - 1 = m + (-1)
        /\ 0 \in Int /\ 1 \in Int /\ -1 \in Int
    OBVIOUS
  <2>2. Cardinality(Behind') <= Cardinality(Behind) + 0
    <3>1. Cardinality(Behind') <= Cardinality(Behind)
      BY <1>1, <1>4, NoMore DEF BooksOK
    <3>. QED  BY <1>1, <2>1, <3>1 DEF BooksOK
  <2>3. w \in Behind => Cardinality(Behind') <= Cardinality(Behind) + (-1)
    <3>1. w \in Behind => Cardinality(Behind') <= Cardinality(Behind) - 1
      BY <1>1, <1>4, OneGone DEF BooksOK
    <3>. QED  BY <1>1, <2>1, <3>1 DEF BooksOK
  <2>4. Cardinality(Lost') <= Cardinality(Lost) + 1
    BY <1>1, <1>7, AtMostOneMore DEF BooksOK
  <2>5. ~Valid(old) => Cardinality(Lost') <= Cardinality(Lost) + 0
    <3>1. ~Valid(old) => Cardinality(Lost') <= Cardinality(Lost)
      BY <1>1, <1>7, NoMore DEF BooksOK
    <3>. QED  BY <1>1, <2>1, <3>1 DEF BooksOK
  <2>6. Astray' => Valid(new)
    BY <1>2, <1>6 DEF Astray, Valid
  <2>7. CASE ~Astray'
    <3>1. CASE Valid(old)
      <4>1. 1 + 0 + Count(Astray') <= Count(Valid(old))
        BY <2>7, <3>1 DEF Count
      <4>. QED  BY <2>1, <2>2, <2>4, <4>1
    <3>2. CASE ~Valid(old)
      <4>1. 0 + 0 + Count(Astray') <= Count(Valid(old))
        BY <2>7, <3>2 DEF Count
      <4>. QED  BY <2>1, <2>2, <2>5, <3>2, <4>1
    <3>. QED  BY <3>1, <3>2
  <2>8. CASE Astray' /\ secret[w] # NoId
    <3>1. CASE Valid(old)
      <4>1. 1 + (-1) + Count(Astray') <= Count(Valid(old))
        BY <2>8, <3>1 DEF Count
      <4>. QED  BY <1>8, <2>1, <2>3, <2>4, <2>8, <4>1
    <3>2. CASE ~Valid(old)
      <4>1. 0 + (-1) + Count(Astray') <= Count(Valid(old))
        BY <2>8, <3>2 DEF Count
      <4>. QED  BY <1>8, <2>1, <2>3, <2>5, <2>8, <3>2, <4>1
    <3>. QED  BY <3>1, <3>2
  <2>9. CASE Astray' /\ secret[w] = NoId
    <3>1. new \in Lost /\ new \notin Lost'
      BY <1>7, <2>6, <2>9
    <3>2. CASE Valid(old)
      <4>1. Lost' \subseteq (Lost \ {new}) \cup {old}
        BY <1>7, <3>1
      <4>2. /\ IsFiniteSet(Lost \ {new})
            /\ Cardinality(Lost \ {new}) = Cardinality(Lost) - 1
            /\ Cardinality(Lost \ {new}) \in Nat
        BY <1>1, <3>1, OneLess, FS_Subset DEF BooksOK
      <4>3. Cardinality(Lost') <= Cardinality(Lost \ {new}) + 1
        BY <4>1, <4>2, AtMostOneMore
      <4>4. Cardinality(Lost') <= Cardinality(Lost) + 0
        BY <1>1, <4>2, <4>3 DEF BooksOK
      <4>5. 0 + 0 + Count(Astray') <= Count(Valid(old))
        BY <2>9, <3>2 DEF Count
      <4>. QED  BY <2>1, <2>2, <4>4, <4>5
    <3>3. CASE ~Valid(old)
      <4>1. Cardinality(Lost') <= Cardinality(Lost) - 1
        BY <1>1, <1>7, <3>1, <3>3, OneGone DEF BooksOK
      <4>2. Cardinality(Lost') <= Cardinality(Lost) + (-1)
        BY <1>1, <2>1, <4>1 DEF BooksOK
      <4>3. -1 + 0 + Count(Astray') <= Count(Valid(old))
        BY <2>9, <3>3 DEF Count
      <4>. QED  BY <2>1, <2>2, <4>2, <4>3
    <3>. QED  BY <3>2, <3>3
  <2>. QED  BY <2>7, <2>8, <2>9
<1>10. PICK dl \in Int, db \in Int :
         /\ Cardinality(Lost') <= Cardinality(Lost) + dl
         /\ Cardinality(Behind') <= Cardinality(Behind) + db
         /\ dl + db + Count(Astray') <= Count(Valid(old))
  BY <1>9
<1>11. Valid(old) /\ Pledged => Astray
  BY DEF Pledged, Overwritten, Recreated, Astray
<1>12. dl + 0 + db + Count(Writing') + Count(Astray') + Count(Pledged)
          <= 0 + Count(Writing) + Count(Astray) + Count(Pledged')
  <2>1. Count(Valid(old)) + Count(Pledged) <= 1 + Count(Astray)
    BY <1>11 DEF Count
  <2>2. PICK v \in 0 .. 1, p \in 0 .. 1, p2 \in 0 .. 1, a \in 0 .. 1, a2 \in 0 .. 1 :
           /\ v = Count(Valid(old)) /\ p = Count(Pledged) /\ p2 = Count(Pledged')
           /\ a = Count(Astray) /\ a2 = Count(Astray')
    BY DEF Count
  <2>3. Count(Writing') = 0 /\ Count(Writing) = 1
    BY <1>3 DEF Count
  <2>4. dl + db + a2 <= v /\ v + p <= 1 + a
    BY <1>10, <2>1, <2>2
  <2>5. dl + 0 + db + 0 + a2 + p <= 0 + 1 + a + p2
    BY <2>2, <2>4
  <2>. QED  BY <2>2, <2>3, <2>5
<1>13. Mishaps + Toll + 0 <= Mishaps' + Toll'
  <2>1. Toll' = Toll
    BY ManagingStakes DEF Toll
  <2>2. \A m, n, t \in Nat : m <= n => m + t + 0 <= n + t
    OBVIOUS
  <2>. QED  BY <1>1, <2>1, <2>2, ManagingStakes DEF BooksOK
<1>14. Cardinality(Creators') <= Cardinality(Creators) + 0 /\ 0 \in Int
  <2>1. \A m \in Nat : m <= m + 0
    OBVIOUS
  <2>. QED  BY <1>1, <1>3, <2>1 DEF BooksOK
<1>. QED  BY <1>1, <1>10, <1>12, <1>13, <1>14, Balance

\* The end of the resource: its certificate is not one of the backend, so that
\* a valid one was astray, and who ignored a pending creation has paid.
LEMMA RemovedLedger ==
  ASSUME TypeOK, History, Ledger, NEW w \in Workers, Managing(w),
         RemoveFinalizer(w)
  PROVE  Ledger'
<1>1. BooksOK /\ BooksOK'
  <2>1. Recording /\ TypeOK' /\ Recording'
    BY ManagingStakes DEF History
  <2>. QED  BY <2>1, BooksFinite, PTL
<1>2. /\ pc[w] = "unfinalize" /\ w \in fresh /\ pc'[w] = "idle" /\ fresh' = {}
      /\ mr[w] = api /\ api.present /\ ~api'.present /\ ~Placed
      /\ \A v \in Workers \ {w} : secret'[v] = secret[v] /\ mr'[v] = mr[v]
  <2>1. /\ pc[w] = "unfinalize" /\ w \in fresh /\ pc'[w] = "idle"
        /\ \A v \in Workers \ {w} : secret'[v] = secret[v] /\ mr'[v] = mr[v]
    BY DEF RemoveFinalizer, Finish, Goto, TypeOK, ManagedTypeOK
  <2>2. mr[w] = api /\ api.present /\ specCopy[w] = spec
    BY <2>1 DEF History, CopiesAgree, SpecsAgree, Reading
  <2>3. ~Placed
    BY <2>1, <2>2 DEF History, Sought, Absent, Placed
  <2>4. ~api'.present /\ fresh' = {}
    BY RemoveFinalizerStores DEF TypeOK
  <2>. QED  BY <2>1, <2>2, <2>3, <2>4
<1>3. ~Writing' /\ ~Astray' /\ ~Pledged'
  BY <1>2 DEF Writing, Writers, Astray, Pledged
<1>4. Creators' \subseteq Creators
  <2>1. w \notin Creators'
    BY <1>2 DEF Creators
  <2>. QED  BY <2>1, ManagingStakes
<1>5. Behind' \subseteq Behind
  <2>1. w \notin Behind'
    BY <1>2 DEF Behind, Creators, Writers
  <2>. QED  BY <2>1, ManagingStakes
<1>6. /\ Lost' \subseteq Lost \cup {api.status}
      /\ ~Valid(api.status) => Lost' \subseteq Lost
  <2>1. secret[w] = NoId
    BY <1>2 DEF History, Hands, Holding
  <2>2. Held \subseteq Held'
    BY <1>2, <2>1 DEF Held
  <2>3. \A id : Valid(id)' <=> Valid(id)
    BY ManagingStakes DEF Valid
  <2>4. Recorded = {api.status}
    BY <1>2 DEF Recorded
  <2>. QED  BY <2>2, <2>3, <2>4, ManagingStakes DEF Lost
<1>7. Valid(api.status) => Astray
  BY <1>2 DEF Astray
<1>8. Pledged /\ ~Writing => Mishaps + 1 <= Mishaps'
  <2>1. Pledged /\ ~Writing => api.pending
    BY DEF Pledged, Overwritten, Recreated
  <2>2. api.pending => overrides' = overrides + 1
    BY <1>2 DEF RemoveFinalizer, CountOverride
  <2>. QED  BY <2>1, <2>2, ManagingStakes
<1>9. /\ \A m \in Nat : m + 0 = m
      /\ \A m, n, t \in Nat : m + 1 <= n => m + t + 1 <= n + t
      /\ \A m, n, t \in Nat : m <= n => m + t + 0 <= n + t
      /\ 0 \in Int /\ 1 \in Int
  OBVIOUS
<1>10. /\ Cardinality(Creators') <= Cardinality(Creators) + 0
       /\ Cardinality(Behind') <= Cardinality(Behind) + 0
  BY <1>1, <1>4, <1>5, <1>9, NoMore DEF BooksOK
<1>11. PICK dl \in Int : /\ Cardinality(Lost') <= Cardinality(Lost) + dl
                         /\ dl <= Count(Astray)
  <2>1. CASE Valid(api.status)
    <3>1. Cardinality(Lost') <= Cardinality(Lost) + 1
      BY <1>1, <1>6, AtMostOneMore DEF BooksOK
    <3>2. 1 <= Count(Astray)
      BY <1>7, <2>1 DEF Count
    <3>. QED  BY <1>9, <3>1, <3>2
  <2>2. CASE ~Valid(api.status)
    <3>1. Cardinality(Lost') <= Cardinality(Lost) + 0
      BY <1>1, <1>6, <1>9, <2>2, NoMore DEF BooksOK
    <3>2. 0 <= Count(Astray)
      BY DEF Count
    <3>. QED  BY <1>9, <3>1, <3>2
  <2>. QED  BY <2>1, <2>2
<1>12. PICK dm \in Int : /\ Mishaps + Toll + dm <= Mishaps' + Toll'
                         /\ Count(Pledged) <= dm + Count(Writing)
  <2>1. Toll' = Toll
    BY ManagingStakes DEF Toll
  <2>2. CASE Pledged /\ ~Writing
    <3>1. Mishaps + Toll + 1 <= Mishaps' + Toll'
      BY <1>1, <1>8, <1>9, <2>1, <2>2 DEF BooksOK
    <3>2. Count(Pledged) <= 1 + Count(Writing)
      BY DEF Count
    <3>. QED  BY <1>9, <3>1, <3>2
  <2>3. CASE ~(Pledged /\ ~Writing)
    <3>1. Mishaps + Toll + 0 <= Mishaps' + Toll'
      BY <1>1, <1>9, <2>1, ManagingStakes DEF BooksOK
    <3>2. Count(Pledged) <= 0 + Count(Writing)
      BY <2>3 DEF Count
    <3>. QED  BY <1>9, <3>1, <3>2
  <2>. QED  BY <2>2, <2>3
<1>13. dl + 0 + 0 + Count(Writing') + Count(Astray') + Count(Pledged)
          <= dm + Count(Writing) + Count(Astray) + Count(Pledged')
  <2>1. PICK p \in 0 .. 1, a \in 0 .. 1, v \in 0 .. 1 :
           p = Count(Pledged) /\ a = Count(Astray) /\ v = Count(Writing)
    BY DEF Count
  <2>2. Count(Writing') = 0 /\ Count(Astray') = 0 /\ Count(Pledged') = 0
    BY <1>3 DEF Count
  <2>3. dl <= a /\ p <= dm + v
    BY <1>11, <1>12, <2>1
  <2>4. dl + 0 + 0 + 0 + 0 + p <= dm + v + a + 0
    BY <2>3
  <2>. QED  BY <2>1, <2>2, <2>4
<1>. QED  BY <1>1, <1>9, <1>10, <1>11, <1>12, <1>13, Balance

\* The reconciler keeps the ledger.
LEMMA ManagingLedger ==
  ASSUME TypeOK, History, Ledger, NEW w \in Workers, Managing(w)
  PROVE  Ledger'
<1>1. ReconcilerStep(w) \/ ReconcilerFault(w) \/ SyncCache(w)
  BY ManagingFrame DEF History
<1>2. secret[w] # NoId => /\ pc[w] \in {"annotate", "publish", "status"}
                          /\ api.status # secret[w]
  BY DEF History, Hands, Holding
<1>3. w \in fresh /\ pc[w] \in Reading => mr[w] = api
  BY DEF History, CopiesAgree
<1>. USE DEF TypeOK, ManagedTypeOK
<1>4. CASE Reconcile(w)
  <2>1. api' = api /\ pc[w] = "idle" /\ pc'[w] = "observe"
    BY <1>4 DEF Reconcile, Goto
  <2>2. w \notin Creators' /\ w \notin Writers' /\ w \notin Updaters'
    BY <2>1 DEF Creators, Writers, Updaters
  <2>. QED  BY <1>2, <2>1, <2>2, ManagingQuiet
<1>5. CASE AddFinalizer(w)
  <2>1. /\ pc[w] = "finalizer" /\ pc'[w] = plan[w]
        /\ api'.present = api.present /\ api'.status = api.status
        /\ api'.pending = api.pending /\ mr'[w].status = mr[w].status
        /\ fresh' \subseteq fresh
        /\ plan[w] \in {"pend", "update", "status"}
    BY <1>5, AddFinalizerStores DEF AddFinalizer, Goto
  <2>2. w \notin Creators'
    BY <2>1 DEF Creators
  <2>3. w \notin Writers'
    BY <1>3, <2>1 DEF Writers, Reading
  <2>4. w \in Updaters' => w \in Updaters
    BY <2>1 DEF Updaters
  <2>. QED  BY <1>2, <2>1, <2>2, <2>3, <2>4, ManagingQuiet
<1>6. CASE MarkCreatePending(w)
  BY <1>6, PendingLedger
<1>7. CASE RemoveFinalizer(w)
  BY <1>7, RemovedLedger
<1>8. CASE Conflict(w)
  <2>1. api' = api /\ pc'[w] = "idle" /\ secret[w] = NoId
    BY <1>2, <1>8 DEF Conflict, Finish, Goto
  <2>2. w \notin Creators' /\ w \notin Writers' /\ w \notin Updaters'
    BY <2>1 DEF Creators, Writers, Updaters
  <2>. QED  BY <2>1, <2>2, ManagingQuiet
<1>9. CASE SaveAnnotations(w) \/ LoseAnnotations(w)
  BY <1>9, AnnotatedLedger
<1>10. CASE PublishConnection(w) \/ LosePublication(w)
  <2>1. /\ api' = api /\ pc[w] = "publish" /\ pc'[w] = "status"
        /\ mr' = mr /\ secret' = secret /\ fresh' = fresh
    BY <1>10 DEF PublishConnection, LosePublication, Goto
  <2>2. /\ w \notin Creators' /\ w \notin Updaters'
        /\ w \in Writers' => w \in Writers
    BY <2>1 DEF Creators, Writers, Updaters
  <2>. QED  BY <2>1, <2>2, ManagingQuiet
<1>11. CASE SaveStatus(w)
  <2>1. CASE mr[w].status # api.status
    BY <1>11, <2>1, WrittenLedger
  <2>2. CASE mr[w].status = api.status
    <3>1. /\ api'.present = api.present /\ api'.status = api.status
          /\ api'.pending = api.pending
      BY <1>11, <2>2, SaveStatusStores
    <3>2. pc'[w] = "idle"
      BY <1>11 DEF SaveStatus, Finish, Goto
    <3>3. w \notin Creators' /\ w \notin Writers' /\ w \notin Updaters'
      BY <3>2 DEF Creators, Writers, Updaters
    <3>. QED  BY <1>2, <2>2, <3>1, <3>3, ManagingQuiet
  <2>. QED  BY <2>1, <2>2
<1>12. CASE StatusConflict(w)
  <2>1. api' = api /\ pc'[w] = "idle"
    BY <1>12 DEF StatusConflict, Finish, Goto
  <2>2. w \notin Creators' /\ w \notin Writers' /\ w \notin Updaters'
    BY <2>1 DEF Creators, Writers, Updaters
  <2>3. CASE secret[w] # NoId /\ mr[w].status = secret[w]
    <3>1. discarded' = discarded + 1
      BY <1>2, <1>12, <2>3 DEF StatusConflict, CountDiscarded
    <3>. QED  BY <2>1, <2>2, <3>1, ManagingStakes, ManagingPaid
  <2>4. CASE ~(secret[w] # NoId /\ mr[w].status = secret[w])
    BY <2>1, <2>2, <2>4, ManagingQuiet
  <2>. QED  BY <2>3, <2>4
<1>13. CASE Abort(w)
  <2>1. api' = api /\ pc'[w] = "idle" /\ faults' = faults + 1
    BY <1>13 DEF Abort, Finish, Goto, Fault
  <2>2. w \notin Creators' /\ w \notin Writers' /\ w \notin Updaters'
    BY <2>1 DEF Creators, Writers, Updaters
  <2>. QED  BY <2>1, <2>2, ManagingStakes, ManagingPaid
<1>14. CASE SyncCache(w)
  <2>1. UNCHANGED <<api, mr, fresh, pc, plan, secret>>
    BY <1>14 DEF SyncCache
  <2>2. /\ w \in Creators' => w \in Creators
        /\ w \in Writers' => w \in Writers
        /\ w \in Updaters' => w \in Updaters
    BY <2>1 DEF Creators, Writers, Updaters
  <2>. QED  BY <2>1, <2>2, ManagingQuiet
<1>. QED
  BY <1>1, <1>4, <1>5, <1>6, <1>7, <1>8, <1>9, <1>10, <1>11, <1>12, <1>13, <1>14
  DEF ReconcilerStep, ReconcilerFault

----------------------------------------------------------------------------
(***************************************************************************)
(* The ledger, the controller and everybody else.                          *)
(***************************************************************************)

\* A step of the controller changes what is at stake for its worker only, and
\* begins no creation.
LEMMA ControllerStakes ==
  ASSUME TypeOK, History, NEW w \in Workers, ControllerStep(w) \/ IssueUnanswered(w)
  PROVE  /\ TypeOK' /\ Recording' /\ Weathered
         /\ UNCHANGED <<api, cache, fresh, spec, edits, overrides, discarded>>
         /\ Creators' = Creators
         /\ \A v \in Workers \ {w} :
               /\ mr'[v] = mr[v] /\ secret'[v] = secret[v]
               /\ v \in Writers' <=> v \in Writers
               /\ v \in Updaters' <=> v \in Updaters
         /\ \A v \in Behind' : v \in Creators \cup Writers => v \in Behind
         /\ Writers' \subseteq Workers /\ Updaters' \subseteq Workers
         /\ w \in fresh /\ pc[w] \in Reading => mr[w] = api /\ specCopy[w] = spec
         /\ pc[w] # "status" => secret[w] = NoId
<1>1. /\ TypeOK'
      /\ UNCHANGED <<api, cache, fresh, spec, edits, overrides, discarded>>
      /\ \A v \in Workers \ {w} :
            /\ mr'[v] = mr[v] /\ pc'[v] = pc[v]
            /\ plan'[v] = plan[v] /\ secret'[v] = secret[v]
      /\ \A v \in Workers : specCopy'[v] = specCopy[v] \/ pc[v] = "idle"
  BY ControllerFrame
<1>2. Recording' /\ Weathered
  <2>1. [Next]_vars
    BY DEF Next
  <2>. QED  BY <2>1, RecordingStep, CertsWeather DEF History
<1>3. /\ w \in Creators' <=> w \in Creators
      /\ pc[w] \notin {"annotate", "publish", "status"}
  BY ControllerCases DEF Creators
<1>4. Creators' = Creators
  BY <1>1, <1>3 DEF Creators
<1>5. /\ \A v \in Workers \ {w} :
            /\ v \in Writers' <=> v \in Writers
            /\ v \in Updaters' <=> v \in Updaters
  BY <1>1 DEF Writers, Updaters
<1>6. ASSUME NEW v \in Behind', v \in Creators \cup Writers PROVE v \in Behind
  <2>1. v \in Workers /\ pc[v] # "idle"
    BY <1>6 DEF Creators, Writers, TypeOK, ManagedTypeOK
  <2>2. specCopy'[v] = specCopy[v]
    BY <1>1, <2>1
  <2>. QED  BY <1>1, <1>6, <2>2 DEF Behind
<1>7. Writers' \subseteq Workers /\ Updaters' \subseteq Workers
  <2>1. fresh' \subseteq Workers
    BY <1>1 DEF TypeOK, ManagedTypeOK
  <2>. QED  BY <2>1 DEF Writers, Updaters
<1>8. w \in fresh /\ pc[w] \in Reading => mr[w] = api /\ specCopy[w] = spec
  BY DEF History, CopiesAgree, SpecsAgree
<1>9. secret[w] = NoId
  BY <1>3 DEF History, Hands, Holding
<1>. QED  BY <1>1, <1>2, <1>4, <1>5, <1>6, <1>7, <1>8, <1>9

\* A step of the controller that begins no writing and loses no certificate
\* keeps the ledger.
LEMMA ControllerQuiet ==
  ASSUME TypeOK, History, Ledger, NEW w \in Workers,
         ControllerStep(w) \/ IssueUnanswered(w),
         w \in Writers' => w \in Writers,
         w \in Updaters' => w \in Updaters \/ Placed,
         faults' = faults, kept <= kept',
         Lost' \subseteq Lost
  PROVE  Ledger'
<1>1. Writers' \subseteq Writers /\ (Updaters' \subseteq Updaters \/ Placed)
  BY ControllerStakes
<1>2. Writing' => Writing
  BY <1>1 DEF Writing
<1>3. Behind' \subseteq Behind
  <2>1. \A v \in Behind' : v \in Creators \cup Writers
    BY <1>1, ControllerStakes DEF Behind
  <2>. QED  BY <2>1, ControllerStakes
<1>4. Mishaps <= Mishaps'
  <2>1. /\ faults \in Nat /\ overrides \in Nat /\ discarded \in Nat
        /\ kept \in Nat /\ kept' \in Nat
    BY ControllerStakes, ManagedAssumption, CertificateAssumption
    DEF TypeOK, ManagedTypeOK
  <2>2. Mishaps' = faults + overrides + discarded + kept'
    BY ControllerStakes DEF Mishaps
  <2>3. \A f, o, d, k, l \in Nat : k <= l => f + o + d + k <= f + o + d + l
    OBVIOUS
  <2>. QED  BY <2>1, <2>2, <2>3 DEF Mishaps
<1>5. Recording /\ Creators' \subseteq Creators
  BY ControllerStakes DEF History
<1>. QED  BY <1>1, <1>2, <1>3, <1>4, <1>5, ControllerStakes, QuietStep

\* A renewal of what is recorded: it has been revoked, so that writing over it
\* is pledged, or the refusal has been counted.
LEMMA RenewalLedger ==
  ASSUME TypeOK, History, Ledger, NEW w \in Workers, RevokeOld(w),
         w \in fresh, ~Writing
  PROVE  Ledger'
<1>0. ControllerStep(w) \/ IssueUnanswered(w)
  BY DEF ControllerStep
<1>. USE DEF TypeOK, ManagedTypeOK
<1>1. BooksOK /\ BooksOK'
  <2>1. Recording /\ TypeOK' /\ Recording'
    BY <1>0, ControllerStakes DEF History
  <2>. QED  BY <2>1, BooksFinite, PTL
<1>2. /\ pc[w] = "update" /\ pc'[w] = "issue" /\ faults' = faults
      /\ mr' = mr /\ secret' = secret
      /\ \/ certs' = Revoke(mr[w].status) /\ kept' = kept
         \/ certs' = certs /\ kept' = kept + 1
      /\ api' = api /\ mr[w] = api /\ specCopy[w] = spec /\ api.present
  <2>1. /\ pc[w] = "update" /\ pc'[w] = "issue" /\ faults' = faults
        /\ mr' = mr /\ secret' = secret
        /\ \/ certs' = Revoke(mr[w].status) /\ kept' = kept
           \/ certs' = certs /\ kept' = kept + 1
    BY DEF RevokeOld, Goto
  <2>2. api' = api /\ mr[w] = api /\ specCopy[w] = spec
    BY <1>0, <2>1, ControllerStakes DEF Reading
  <2>3. api.present
    BY DEF History, CopiesAgree
  <2>. QED  BY <2>1, <2>2, <2>3
<1>3. w \in Writers' /\ Writing'
  BY <1>0, <1>2, ControllerStakes DEF Writers, Writing
<1>4. ~Pledged
  <2>1. w \in Updaters
    BY <1>2 DEF Updaters
  <2>2. w \notin Creators
    BY <1>2 DEF Creators
  <2>. QED  BY <2>1, <2>2 DEF Pledged, Overwritten, Recreated
<1>5. Lost' \subseteq Lost
  <2>1. DOMAIN certs' \subseteq DOMAIN certs
    BY <1>2, RevokeMarks DEF VaultOK
  <2>2. \A id \in DOMAIN certs' : Valid(id)' => Valid(id)
    BY <1>0, <2>1, ControllerStakes DEF Weathered
  <2>3. Recorded' = Recorded
    BY <1>2 DEF Recorded
  <2>. QED  BY <1>2, <2>2, <2>3, HandsKept
<1>6. Behind' \subseteq Behind
  <2>1. specCopy'[w] = spec /\ spec' = spec
    BY <1>0, <1>2, ControllerFrame
  <2>2. w \notin Behind'
    BY <2>1 DEF Behind
  <2>3. \A v \in Behind' : v \in Creators \cup Writers
    BY <1>0, <2>2, ControllerStakes DEF Behind
  <2>. QED  BY <1>0, <2>3, ControllerStakes
<1>7. Astray' => Astray
  <2>1. Weathered /\ spec' = spec
    BY <1>0, ControllerStakes
  <2>. QED
    BY <1>2, <2>1
    DEF Weathered, Astray, Placed, Found, Valid, History, Recording, Statuses
<1>8. /\ \A m \in Nat : m + 0 = m
      /\ \A m, n, t \in Nat : m + 1 <= n => m + t + 1 <= n + t
      /\ \A m, n, t \in Nat : m <= n => m + t + 0 <= n + t
      /\ 0 \in Int /\ 1 \in Int
  OBVIOUS
<1>9. /\ Cardinality(Lost') <= Cardinality(Lost) + 0
      /\ Cardinality(Creators') <= Cardinality(Creators) + 0
      /\ Cardinality(Behind') <= Cardinality(Behind) + 0
  <2>1. Creators' = Creators
    BY <1>0, ControllerStakes
  <2>2. /\ Cardinality(Lost') <= Cardinality(Lost)
        /\ Cardinality(Creators') <= Cardinality(Creators)
        /\ Cardinality(Behind') <= Cardinality(Behind)
    BY <1>1, <1>5, <1>6, <2>1, NoMore DEF BooksOK
  <2>. QED  BY <1>1, <1>8, <2>2 DEF BooksOK
<1>10. Toll' = Toll
  BY <1>0, ControllerStakes DEF Toll
<1>11. /\ Mishaps <= Mishaps'
       /\ kept' = kept + 1 => Mishaps + 1 <= Mishaps'
  <2>1. /\ faults \in Nat /\ overrides \in Nat /\ discarded \in Nat /\ kept \in Nat
    BY ManagedAssumption, CertificateAssumption
  <2>2. Mishaps' = faults + overrides + discarded + kept'
    BY <1>0, <1>2, ControllerStakes DEF Mishaps
  <2>3. \A f, o, d, k \in Nat : /\ f + o + d + k <= f + o + d + k
                                /\ f + o + d + k <= f + o + d + (k + 1)
                                /\ f + o + d + k + 1 <= f + o + d + (k + 1)
    OBVIOUS
  <2>. QED  BY <1>2, <2>1, <2>2, <2>3 DEF Mishaps
<1>12. CASE certs' = Revoke(mr[w].status)
  <2>1. ~Valid(api.status)'
    BY <1>2, <1>12, RevokeMarks DEF Valid, VaultOK
  <2>2. Pledged'
    BY <1>2, <1>3, <2>1 DEF Pledged, Overwritten
  <2>3. Mishaps + Toll + 0 <= Mishaps' + Toll'
    BY <1>1, <1>8, <1>10, <1>11 DEF BooksOK
  <2>4. 0 + 0 + 0 + Count(Writing') + Count(Astray') + Count(Pledged)
           <= 0 + Count(Writing) + Count(Astray) + Count(Pledged')
    BY <1>4, <1>7, <2>2 DEF Count
  <2>. QED  BY <1>1, <1>8, <1>9, <2>3, <2>4, Balance
<1>13. CASE kept' = kept + 1
  <2>1. Mishaps + Toll + 1 <= Mishaps' + Toll'
    BY <1>1, <1>8, <1>10, <1>11, <1>13 DEF BooksOK
  <2>2. 0 + 0 + 0 + Count(Writing') + Count(Astray') + Count(Pledged)
           <= 1 + Count(Writing) + Count(Astray) + Count(Pledged')
    BY <1>4, <1>7 DEF Count
  <2>. QED  BY <1>1, <1>8, <1>9, <2>1, <2>2, Balance
<1>. QED  BY <1>2, <1>12, <1>13

\* The controller keeps the ledger: a renewal revokes what it replaces, or the
\* refusal is counted, and a certificate whose issue is not answered is lost to
\* the failure.
LEMMA ControllerLedger ==
  ASSUME TypeOK, History, Ledger, NEW w \in Workers,
         ControllerStep(w) \/ IssueUnanswered(w)
  PROVE  Ledger'
<1>. USE DEF TypeOK, ManagedTypeOK
<1>1. Recorded' = Recorded
  BY ControllerStakes DEF Recorded
<1>2. \A v \in Workers \ {w} : mr'[v] = mr[v] /\ secret'[v] = secret[v]
  BY ControllerStakes
\* A step that issues nothing.
<1>3. ASSUME certs' \in {certs, Revoke(mr[w].status)}, mr' = mr, secret' = secret
      PROVE  Lost' \subseteq Lost
  <2>1. DOMAIN certs \subseteq issued
    OBVIOUS
  <2>2. DOMAIN certs' \subseteq DOMAIN certs
    BY <1>3, RevokeMarks DEF VaultOK
  <2>3. \A id \in DOMAIN certs' : Valid(id)' => Valid(id)
    BY <2>1, <2>2, ControllerStakes DEF Weathered
  <2>. QED  BY <1>1, <1>2, <1>3, <2>3, HandsKept
<1>4. w \in fresh => w \in Workers /\ api.present
  BY DEF History, CopiesAgree
<1>5. CASE Observe(w)
  <2>1. /\ certs' = certs /\ mr' = mr /\ secret' = secret
        /\ pc[w] = "observe" /\ pc'[w] \in {"delete", "unfinalize", "finalizer"}
        /\ plan'[w] = "update" => Found(specCopy[w], mr[w].status)
        /\ faults' = faults /\ kept' = kept
    <3>1. /\ certs' = certs /\ mr' = mr /\ secret' = secret
          /\ pc[w] = "observe" /\ faults' = faults /\ kept' = kept
      BY <1>5 DEF Observe, pki
    <3>2. pc'[w] \in {"delete", "unfinalize", "finalizer"}
      BY <1>5 DEF Observe, Decide, Goto
    <3>3. plan'[w] = "update" => Found(specCopy[w], mr[w].status)
      BY <1>5 DEF Observe, Decide
    <3>. QED  BY <3>1, <3>2, <3>3
  <2>2. w \notin Writers'
    BY <2>1 DEF Writers
  <2>3. w \in Updaters' => Placed
    <3>1. w \in fresh => mr[w] = api /\ specCopy[w] = spec
      BY <2>1, ControllerStakes DEF Reading
    <3>. QED  BY <2>1, <3>1, ControllerStakes DEF Updaters, Placed
  <2>4. kept <= kept'
    BY <2>1
  <2>. QED  BY <1>3, <2>1, <2>2, <2>3, <2>4, ControllerQuiet
<1>6. CASE Delete(w) \/ CallRefused(w) \/ IssueRefused(w)
  <2>1. /\ certs' \in {certs, Revoke(mr[w].status)} /\ mr' = mr /\ secret' = secret
        /\ faults' = faults /\ kept' = kept
        /\ \/ pc[w] = "create" /\ pc'[w] = "annotateFailed"
           \/ pc[w] \in {"issue", "observe", "delete"} /\ pc'[w] = "status"
    BY <1>6 DEF Delete, CallRefused, IssueRefused, IssueFailed, Goto, pki
  <2>2. w \in fresh /\ pc[w] \in {"observe", "delete"} => mr[w] = api
    BY ControllerStakes DEF Reading
  <2>3. w \in Writers' => w \in Writers
    BY <2>1, <2>2, ControllerStakes DEF Writers
  <2>4. w \notin Updaters'
    BY <2>1 DEF Updaters
  <2>5. kept <= kept'
    BY <2>1
  <2>. QED  BY <1>3, <2>1, <2>3, <2>4, <2>5, ControllerQuiet
<1>7. CASE IssueCertificate(w) \/ IssueUnanswered(w)
  <2>1. /\ pc[w] \in {"create", "issue"} /\ issued # Ids /\ NewCert(w, NewSerial)
        /\ pc[w] = "create" => pc'[w] \in {"annotate", "annotateFailed"}
        /\ pc[w] = "issue" => pc'[w] \in {"publish", "status"}
        /\ kept' = kept
    BY <1>7 DEF IssueCertificate, IssueUnanswered, IssueFailed, Goto
  <2>2. w \in Writers' => w \in Writers
    BY <2>1, ControllerStakes DEF Writers
  <2>3. w \notin Updaters'
    BY <2>1 DEF Updaters
  <2>4. /\ NewSerial \notin issued
        /\ DOMAIN certs' = DOMAIN certs \cup {NewSerial}
        /\ \A id \in DOMAIN certs : certs'[id] = certs[id]
    BY <2>1, NewCertAdds
  <2>5. \A id : Valid(id)' => Valid(id) \/ id = NewSerial
    BY <2>4 DEF Valid
  <2>6. secret[w] = NoId
    BY <2>1, ControllerStakes
  <2>7. Held \subseteq Held'
    BY <1>2, <2>6 DEF Held
  <2>8. Lost' \subseteq Lost \cup {NewSerial}
    BY <1>1, <2>4, <2>5, <2>7 DEF Lost, Valid
  <2>9. CASE IssueCertificate(w)
    <3>1. mr'[w].status = NewSerial /\ secret'[w] = NewSerial /\ faults' = faults
      <4>1. mr[w] \in Object /\ NewSerial \in IdOrNone
        BY <2>1, NewCertAdds DEF IdOrNone
      <4>2. [mr[w] EXCEPT !.status = NewSerial].status = NewSerial
        BY <4>1 DEF Object
      <4>. QED
        BY <2>9, <4>2 DEF IssueCertificate, UpdateStatus, ConnectionDetails
    <3>2. NewSerial # NoId
      BY <2>1, NewCertAdds
    <3>3. \E v \in Workers : /\ secret'[v] # NoId /\ mr'[v].status = secret'[v]
                             /\ secret'[v] = NewSerial
      BY <3>1, <3>2
    <3>4. NewSerial \in Held'
      BY <3>3 DEF Held
    <3>5. Lost' \subseteq Lost
      BY <2>8, <3>4 DEF Lost
    <3>6. kept <= kept'
      BY <2>1
    <3>. QED  BY <2>2, <2>3, <3>1, <3>5, <3>6, ControllerQuiet
  <2>10. CASE IssueUnanswered(w)
    <3>1. Mishaps + 1 <= Mishaps'
      <4>1. faults' = faults + 1
        BY <2>10 DEF IssueUnanswered, Fault
      <4>2. /\ faults \in Nat /\ overrides \in Nat /\ discarded \in Nat /\ kept \in Nat
        BY ManagedAssumption, CertificateAssumption
      <4>3. Mishaps' = faults + 1 + overrides + discarded + kept
        BY <2>1, <4>1, ControllerStakes DEF Mishaps
      <4>4. \A f, o, d, k \in Nat : f + o + d + k + 1 <= f + 1 + o + d + k
        OBVIOUS
      <4>. QED  BY <4>2, <4>3, <4>4 DEF Mishaps
    <3>2. Writers' \subseteq Writers /\ Updaters' \subseteq Updaters
      BY <2>2, <2>3, ControllerStakes
    <3>3. Writing' => Writing
      BY <3>2 DEF Writing
    <3>4. Behind' \subseteq Behind
      <4>1. \A v \in Behind' : v \in Creators \cup Writers
        BY <3>2, ControllerStakes DEF Behind
      <4>. QED  BY <4>1, ControllerStakes
    <3>5. Recording /\ Creators' \subseteq Creators
      BY ControllerStakes DEF History
    <3>. QED  BY <2>8, <3>1, <3>2, <3>3, <3>4, <3>5, ControllerStakes, PaidStep
  <2>. QED  BY <1>7, <2>9, <2>10
<1>8. CASE RevokeOld(w)
  <2>1. /\ pc[w] = "update" /\ pc'[w] = "issue" /\ faults' = faults
        /\ mr' = mr /\ secret' = secret
        /\ \/ certs' = Revoke(mr[w].status) /\ kept' = kept
           \/ certs' = certs /\ kept' = kept + 1
    BY <1>8 DEF RevokeOld, Goto
  <2>2. kept \in Nat /\ kept <= kept' /\ kept' \in Nat
    BY <2>1, ControllerStakes, CertificateAssumption
  <2>3. Lost' \subseteq Lost
    BY <1>3, <2>1
  <2>4. w \notin Updaters'
    BY <2>1 DEF Updaters
  <2>5. CASE w \notin fresh \/ Writing
    <3>1. CASE w \notin fresh
      <4>1. w \notin Writers'
        BY <3>1, ControllerStakes DEF Writers
      <4>. QED  BY <2>1, <2>2, <2>3, <2>4, <4>1, ControllerQuiet
    <3>2. CASE Writing
      <4>1. Writing' => Writing
        BY <3>2
      <4>2. Updaters' \subseteq Updaters
        BY <2>4, ControllerStakes
      <4>3. Behind' \subseteq Behind
        <5>1. CASE w \in fresh
          <6>1. specCopy'[w] = spec
            BY <2>1, <5>1, ControllerFrame DEF History, SpecsAgree, Reading
          <6>2. w \notin Behind'
            BY <6>1, ControllerStakes DEF Behind
          <6>3. \A v \in Behind' : v \in Creators \cup Writers
            BY <6>2, ControllerStakes DEF Behind
          <6>. QED  BY <6>3, ControllerStakes
        <5>2. CASE w \notin fresh
          <6>1. w \notin Writers'
            BY <5>2, ControllerStakes DEF Writers
          <6>2. \A v \in Behind' : v \in Creators \cup Writers
            BY <6>1, ControllerStakes DEF Behind
          <6>. QED  BY <6>2, ControllerStakes
        <5>. QED  BY <5>1, <5>2
      <4>4. Mishaps <= Mishaps'
        <5>1. /\ faults \in Nat /\ overrides \in Nat /\ discarded \in Nat
          BY ManagedAssumption
        <5>2. Mishaps' = faults + overrides + discarded + kept'
          BY <2>1, ControllerStakes DEF Mishaps
        <5>3. \A f, o, d, k, l \in Nat : k <= l => f + o + d + k <= f + o + d + l
          OBVIOUS
        <5>. QED  BY <2>2, <5>1, <5>2, <5>3 DEF Mishaps
      <4>5. Recording /\ Creators' \subseteq Creators
        BY ControllerStakes DEF History
      <4>. QED
        BY <2>3, <4>1, <4>2, <4>3, <4>4, <4>5, ControllerStakes, QuietStep
    <3>. QED  BY <2>5, <3>1, <3>2
  <2>6. CASE w \in fresh /\ ~Writing
    BY <2>6, RenewalLedger, <1>8
  <2>. QED  BY <2>5, <2>6
<1>. QED  BY <1>5, <1>6, <1>7, <1>8 DEF ControllerStep

\* An edit of the backend costs one certificate per process: one for each
\* creation that was for the former backend, and one for the recorded one unless
\* some process is not in the middle of such a creation.
LEMMA EditLedger ==
  ASSUME TypeOK, History, Ledger, EditSpec
  PROVE  Ledger'
<1>1. /\ UNCHANGED <<api, mr, pc, secret, certs, faults, overrides, discarded, kept>>
      /\ edits' = edits + 1 /\ fresh' = {}
      /\ \A v \in Workers : pc[v] # "idle" => specCopy'[v] = specCopy[v]
  BY EditFrame
<1>2. TypeOK' /\ Recording'
  <2>1. [Next]_vars
    BY DEF Next, User
  <2>. QED  BY <2>1, EditFrame, RecordingStep DEF History
<1>3. BooksOK /\ BooksOK'
  <2>1. Recording
    BY DEF History
  <2>. QED  BY <1>2, <2>1, BooksFinite, PTL
<1>4. /\ Lost' = Lost /\ Creators' = Creators /\ ~Writing' /\ Updaters' = {}
      /\ \A id : Valid(id)' <=> Valid(id)
  <2>1. \A id : Valid(id)' <=> Valid(id)
    BY <1>1 DEF Valid
  <2>2. Recorded' = Recorded /\ Held' = Held
    BY <1>1 DEF Recorded, Held
  <2>3. Lost' = Lost
    BY <1>1, <2>1, <2>2 DEF Lost
  <2>4. Creators' = Creators /\ ~Writing' /\ Updaters' = {}
    BY <1>1 DEF Creators, Writing, Writers, Updaters
  <2>. QED  BY <2>1, <2>3, <2>4
<1>5. Behind' \subseteq Creators
  <2>1. Writers' = {} /\ Creators' = Creators
    BY <1>1, <1>4 DEF Writers
  <2>. QED  BY <2>1 DEF Behind
<1>6. Cardinality(Behind') <= Cardinality(Workers)
  <2>1. Behind' \subseteq Workers
    BY <1>5 DEF Creators
  <2>. QED  BY <2>1, NoMore, ManagedAssumption
<1>7. Behind' # Workers => Cardinality(Behind') <= Cardinality(Workers) - 1
  <2>1. Behind' \subseteq Workers
    BY <1>5 DEF Creators
  <2>. QED  BY <2>1, OneGone, ManagedAssumption
\* What becomes astray was pledged by nobody, and either some worker is not
\* behind or one was already.
<1>8. ASSUME Astray', ~Astray
      PROVE  ~Pledged /\ (Behind' # Workers \/ Behind # {})
  <2>1. api.present /\ Valid(api.status) /\ Placed
    BY <1>1, <1>4, <1>8 DEF Astray
  <2>2. ~Pledged
    BY <2>1 DEF Pledged, Overwritten, Recreated
  <2>3. PICK v \in Workers : v \in Creators => specCopy[v] # spec
    BY <2>1 DEF History, Apart, Placed, Found
  <2>4. v \in Creators => v \in Behind
    BY <2>3 DEF Behind
  <2>. QED  BY <1>5, <2>2, <2>4
\* A pledge that is dropped belonged to a writer, or to what was astray, or not
\* every worker is in the middle of a creation.
<1>9. ASSUME Pledged, ~Pledged', ~Writing
      PROVE  (Astray /\ ~Astray') \/ Behind' # Workers
  <2>1. api.present /\ Recreated
    BY <1>9 DEF Pledged, Overwritten
  <2>2. ~Recreated'
    BY <1>1, <1>9, <2>1 DEF Pledged
  <2>3. Placed' /\ (Valid(api.status) \/ Creators # Workers)
    BY <1>1, <1>4, <2>1, <2>2 DEF Recreated
  <2>4. CASE Creators # Workers
    <3>1. Creators \subseteq Workers
      BY DEF Creators
    <3>. QED  BY <1>5, <2>4, <3>1
  <2>5. CASE Valid(api.status) /\ Creators = Workers
    <3>1. ~Placed
      BY <2>1, <2>5 DEF Recreated
    <3>2. Astray /\ ~Astray'
      BY <2>1, <2>3, <2>5, <3>1 DEF Astray
    <3>. QED  BY <3>2
  <2>. QED  BY <2>3, <2>4, <2>5
\* In numbers.
<1>10. PICK n \in Nat, b \in Nat, b2 \in Nat :
          n = Cardinality(Workers) /\ b = Cardinality(Behind)
          /\ b2 = Cardinality(Behind')
  BY <1>3 DEF BooksOK
<1>11. PICK p \in 0 .. 1, p2 \in 0 .. 1, a \in 0 .. 1, a2 \in 0 .. 1, v \in 0 .. 1 :
          /\ p = Count(Pledged) /\ p2 = Count(Pledged')
          /\ a = Count(Astray) /\ a2 = Count(Astray') /\ v = Count(Writing)
  BY DEF Count
<1>12. b2 + a2 + p <= n + v + a + b + p2
  <2>1. b2 <= n /\ (Behind' # Workers => b2 <= n - 1)
    BY <1>6, <1>7, <1>10
  <2>2. Behind # {} => 1 <= b
    <3>1. Behind # {} => Cardinality(Behind) # 0
      BY <1>3, FS_EmptySet DEF BooksOK
    <3>. QED  BY <1>10, <3>1
  <2>3. CASE Astray' /\ ~Astray
    <3>1. p = 0 /\ a2 = 1 /\ a = 0
      BY <1>8, <1>11, <2>3 DEF Count
    <3>2. b2 + 1 <= n + b
      BY <1>8, <2>1, <2>2, <2>3
    <3>. QED  BY <3>1, <3>2
  <2>4. CASE ~(Astray' /\ ~Astray)
    <3>1. a2 <= a
      BY <1>11, <2>4 DEF Count
    <3>2. CASE Pledged /\ ~Pledged' /\ ~Writing
      <4>1. p = 1 /\ p2 = 0 /\ v = 0
        BY <1>11, <3>2 DEF Count
      <4>2. (a = 1 /\ a2 = 0) \/ b2 <= n - 1
        BY <1>9, <1>11, <2>1, <3>2 DEF Count
      <4>. QED  BY <2>1, <3>1, <4>1, <4>2
    <3>3. CASE ~(Pledged /\ ~Pledged' /\ ~Writing)
      <4>1. p <= p2 + v
        BY <1>11, <3>3 DEF Count
      <4>. QED  BY <2>1, <3>1, <4>1
    <3>. QED  BY <3>2, <3>3
  <2>. QED  BY <2>3, <2>4
<1>13. /\ n \in Int /\ b2 - b \in Int /\ 0 \in Int
       /\ Cardinality(Behind') <= Cardinality(Behind) + (b2 - b)
       /\ 0 + 0 + (b2 - b) + Count(Writing') + Count(Astray') + Count(Pledged)
             <= n + Count(Writing) + Count(Astray) + Count(Pledged')
  <2>1. b2 <= b + (b2 - b)
    OBVIOUS
  <2>2. Count(Writing') = 0
    BY <1>4 DEF Count
  <2>3. 0 + 0 + (b2 - b) + 0 + a2 + p <= n + v + a + p2
    BY <1>12
  <2>. QED  BY <1>10, <1>11, <2>1, <2>2, <2>3
<1>14. /\ Cardinality(Lost') <= Cardinality(Lost) + 0
       /\ Cardinality(Creators') <= Cardinality(Creators) + 0
  <2>1. \A m \in Nat : m <= m + 0
    OBVIOUS
  <2>. QED  BY <1>3, <1>4, <2>1 DEF BooksOK
<1>15. Mishaps + Toll + n <= Mishaps' + Toll'
  <2>1. Toll' = Toll + n
    BY <1>1, <1>3, <1>10, TollGrows
  <2>2. Mishaps' = Mishaps
    BY <1>1 DEF Mishaps
  <2>3. \A m, t, k \in Nat : m + t + k <= m + (t + k)
    OBVIOUS
  <2>. QED  BY <1>3, <2>1, <2>2, <2>3 DEF BooksOK
<1>. QED  BY <1>3, <1>13, <1>14, <1>15, Balance

\* The request to delete the resource outdates every copy, and ends a resource
\* for which nothing has been done.
LEMMA DeletionLedger ==
  ASSUME TypeOK, History, Ledger, RequestDelete, Unmanaged, CarrySpec
  PROVE  Ledger'
<1>1. /\ UNCHANGED <<mr, pc, secret, faults, overrides, discarded, spec, edits,
                     certs, kept>>
      /\ fresh' = {}
      /\ \A v \in Workers : pc[v] # "idle" => specCopy'[v] = specCopy[v]
  BY DeletionFrame DEF pki
<1>2. /\ api.present /\ api'.present = api.finalizer
      /\ api'.pending = api.pending /\ api'.status = api.status
  BY RequestDeleteStores DEF TypeOK
<1>3. /\ TypeOK' /\ Recording' /\ Recording /\ Weathered
  <2>1. [Next]_vars
    BY DEF Next, User
  <2>. QED  BY <2>1, DeletionFrame, RecordingStep, CertsWeather DEF History
<1>4. /\ Creators' = Creators /\ ~Writing' /\ Updaters' = {} /\ Mishaps' = Mishaps
      /\ Held' = Held
      /\ \A id : Valid(id)' <=> Valid(id)
  BY <1>1 DEF Creators, Writing, Writers, Updaters, Mishaps, Held, Valid
<1>5. Behind' \subseteq Behind
  <2>1. Behind' \subseteq Creators
    BY <1>1, <1>4 DEF Behind, Writers
  <2>2. \A v \in Creators : specCopy'[v] = specCopy[v]
    BY <1>1 DEF Creators
  <2>. QED  BY <1>1, <2>1, <2>2 DEF Behind
<1>6. Mishaps <= Mishaps'
  <2>1. Mishaps \in Nat
    BY <1>3, BooksFinite DEF BooksOK
  <2>. QED  BY <1>4, <2>1
<1>7. CASE api.finalizer
  <2>1. api'.present = api.present
    BY <1>2, <1>7
  <2>2. Recorded' = Recorded
    BY <1>2, <2>1 DEF Recorded
  <2>3. Lost' = Lost
    BY <1>1, <1>4, <2>2 DEF Lost
  <2>4. /\ Lost' \subseteq Lost /\ Creators' \subseteq Creators
        /\ Updaters' \subseteq Updaters
        /\ Writing' => Writing
    BY <1>4, <2>3
  <2>. QED  BY <1>1, <1>2, <1>3, <1>5, <1>6, <2>1, <2>4, QuietStep
<1>8. CASE ~api.finalizer
  <2>1. /\ api.status = NoId /\ Creators = {}
        /\ \A v \in Workers : pc[v] \in Before
    BY <1>2, <1>8 DEF History, Untouched, NewObject, Creators, Before
  <2>2. NoId \notin DOMAIN certs
    BY ManagedAssumption DEF TypeOK
  <2>3. Lost' \subseteq Lost
    BY <1>1, <1>2, <1>4, <2>1, <2>2 DEF Lost, Recorded
  <2>4. ~Writing /\ ~Pledged
    <3>1. \A v \in Workers : mr[v].status = NoId
      BY <1>2, <1>8 DEF History, Untouched, NewObject
    <3>2. fresh \subseteq Workers
      BY DEF TypeOK, ManagedTypeOK
    <3>3. ~Writing
      BY <2>1, <3>1, <3>2 DEF Writing, Writers, Before
    <3>. QED  BY <2>1, <3>3 DEF Pledged, Overwritten, Recreated
  <2>5. ~Astray'
    BY <1>2, <1>8 DEF Astray, TypeOK, ManagedTypeOK, Object
  <2>6. BooksOK /\ BooksOK'
    BY <1>3, BooksFinite, PTL
  <2>7. Toll' = Toll
    BY <1>1 DEF Toll
  <2>8. Creators' \subseteq Creators
    BY <1>4
  <2>. QED
    BY <1>4, <1>5, <1>6, <2>3, <2>4, <2>5, <2>6, <2>7, <2>8, QuietMove
<1>. QED  BY <1>7, <1>8

\* Time, operators and Vault's cleaning lose nothing, nor does a step that
\* changes nothing.
LEMMA AgeingLedger ==
  ASSUME TypeOK, History, Ledger, (Age \/ OperatorRevokes \/ Tidy) \/ UNCHANGED vars
  PROVE  Ledger'
<1>1. UNCHANGED <<managedVars, specVars, issued, kept>> /\ TypeOK'
  BY AgeingFrame, TypeStep DEF vars, pki, managedVars, specVars, History
<1>2. Recording' /\ Recording /\ Weathered
  <2>1. [Next]_vars
    BY DEF Next
  <2>. QED  BY <2>1, RecordingStep, CertsWeather DEF History
<1>3. \A id \in DOMAIN certs' : id \in DOMAIN certs /\ (Valid(id)' => Valid(id))
  BY <1>1, <1>2, AgeingFrame DEF Weathered, TypeOK, vars
<1>4. Lost' \subseteq Lost
  BY <1>1, <1>3 DEF Lost, Held, Recorded, managedVars
<1>5. /\ Creators' = Creators /\ Writers' = Writers /\ Updaters' = Updaters
      /\ Behind' = Behind /\ Writing' = Writing
  BY <1>1 DEF Creators, Writers, Updaters, Behind, Writing, managedVars, specVars
<1>6. Mishaps <= Mishaps'
  <2>1. Mishaps \in Nat
    BY <1>2, BooksFinite DEF BooksOK
  <2>2. Mishaps' = Mishaps
    BY <1>1 DEF Mishaps, managedVars
  <2>. QED  BY <2>1, <2>2
<1>7. /\ api' = api /\ spec' = spec /\ edits' = edits
  BY <1>1 DEF managedVars, specVars
<1>8. /\ Creators' \subseteq Creators /\ Updaters' \subseteq Updaters
      /\ Behind' \subseteq Behind /\ (Writing' => Writing)
  BY <1>5
<1>. QED  BY <1>1, <1>2, <1>4, <1>6, <1>7, <1>8, QuietStep

----------------------------------------------------------------------------
(***************************************************************************)
(* The theorems.                                                           *)
(***************************************************************************)

\* Nothing has happened yet.
LEMMA InvInit == Init => IInv
<1>. SUFFICES ASSUME Init PROVE IInv
  OBVIOUS
<1>1. TypeOK /\ NoNames
  BY TypeInit
<1>2. /\ api = NewObject /\ certs = <<>> /\ issued = {} /\ fresh = {}
      /\ faults = 0 /\ overrides = 0 /\ discarded = 0 /\ kept = 0 /\ edits = 0
      /\ \A w \in Workers : /\ cache[w] = NewObject /\ mr[w] = NewObject
                            /\ secret[w] = NoId /\ pc[w] = "idle"
                            /\ specCache[w] = spec
  BY DEF Init, ManagedInit, SpecifiedInit
<1>3. /\ NewObject.status = NoId /\ NewObject.present /\ NewObject \in Object
  BY NewObjectType DEF NewObject
<1>4. Recording
  BY <1>2, <1>3, FS_EmptySet DEF Recording, Statuses
<1>5. CopiesAgree /\ Untouched /\ SpecsAgree
  BY <1>1, <1>2, <1>3
  DEF CopiesAgree, Untouched, SpecsAgree, Before, TypeOK, ManagedTypeOK
<1>6. Sought /\ Hands /\ Apart
  BY <1>2 DEF Sought, Absent, Hands, Apart
<1>7. /\ Lost = {} /\ Creators = {} /\ Behind = {} /\ ~Writing /\ ~Astray
  <2>1. Creators = {} /\ Writers = {}
    BY <1>2 DEF Creators, Writers
  <2>2. Lost = {} /\ ~Astray
    BY <1>2 DEF Lost, Astray, Valid
  <2>. QED  BY <2>1, <2>2 DEF Behind, Writing
<1>8. ~Pledged
  BY <1>7 DEF Pledged, Overwritten, Recreated
<1>9. Ledger
  <2>1. Exposed = 0
    BY <1>7, FS_EmptySet DEF Exposed, Count
  <2>2. Mishaps = 0
    BY <1>2 DEF Mishaps
  <2>3. BooksOK
    BY <1>1, <1>4, BooksFinite
  <2>4. Count(Pledged) = 0
    BY <1>8 DEF Count
  <2>5. \A t \in Nat : 0 <= 0 + t + 0
    OBVIOUS
  <2>. QED  BY <2>1, <2>2, <2>3, <2>4, <2>5 DEF Ledger, BooksOK
<1>. QED  BY <1>1, <1>4, <1>5, <1>6, <1>9 DEF IInv, History

\* Every step keeps the invariant.
LEMMA InvStep == IInv /\ [Next]_vars => IInv'
<1>. SUFFICES ASSUME IInv, [Next]_vars PROVE IInv'
  OBVIOUS
<1>1. TypeOK /\ History /\ Ledger
  BY DEF IInv
<1>2. TypeOK' /\ History'
  BY <1>1, HistoryStep
<1>3. Ledger'
  BY <1>1, Cases, ManagingLedger, ControllerLedger, EditLedger, DeletionLedger,
     AgeingLedger
<1>. QED  BY <1>2, <1>3 DEF IInv

\* What nobody knows of is among what is lost, and whoever has pledged what is
\* recorded is still creating or writing.
LEMMA InvBounds == IInv => LeaksAccounted
<1>. SUFFICES ASSUME IInv PROVE LeaksAccounted
  OBVIOUS
<1>1. BooksOK /\ Ledger
  BY BooksFinite DEF IInv, History
<1>2. Held \subseteq InHand
  BY DEF Held, InHand
<1>3. Orphans \subseteq Lost
  BY <1>2 DEF Orphans, Lost
<1>4. Cardinality(Orphans) \in Nat /\ Cardinality(Orphans) <= Cardinality(Lost)
  BY <1>1, <1>3, NoMore DEF BooksOK
<1>5. Count(Pledged) <= Cardinality(Creators) + Count(Writing)
  <2>1. Creators # {} => Cardinality(Creators) # 0
    BY <1>1, FS_EmptySet DEF BooksOK
  <2>2. Pledged => Writing \/ Creators # {}
    BY DEF Pledged, Overwritten, Recreated
  <2>. QED  BY <1>1, <2>1, <2>2 DEF BooksOK, Count
<1>6. PICK o \in Nat, l \in Nat, c \in Nat, b \in Nat, m \in Nat, t \in Nat :
         /\ o = Cardinality(Orphans) /\ l = Cardinality(Lost)
         /\ c = Cardinality(Creators) /\ b = Cardinality(Behind)
         /\ m = Mishaps /\ t = Toll
  BY <1>1, <1>4 DEF BooksOK
<1>7. PICK v \in 0 .. 1, a \in 0 .. 1, p \in 0 .. 1 :
         v = Count(Writing) /\ a = Count(Astray) /\ p = Count(Pledged)
  BY DEF Count
<1>8. l + c + v + a + b <= m + t + p
  BY <1>1, <1>6, <1>7 DEF Ledger, Exposed
<1>9. o <= l /\ p <= c + v
  BY <1>4, <1>5, <1>6, <1>7
<1>10. o <= m + t
  BY <1>8, <1>9
<1>. QED  BY <1>6, <1>10 DEF LeaksAccounted, Mishaps, Toll

\* The serials, the copies and the hands they are in, and the price of what is
\* or can still be lost, for any number of provider processes.
THEOREM InductiveInvariant == Spec => []IInv
  BY InvInit, InvStep, PTL DEF Spec

\* Every valid certificate that neither the resource nor a worker knows is paid
\* for: Update (certificate.go:159) issues another one once it has asked to
\* revoke the former, Create (certificate.go:142) issues one when Observe has
\* not found it, and the status that is stored in the end drops the former
\* serial.  It holds for any number of processes, identifiers and backends.
THEOREM LeaksBounded == Spec => []LeaksAccounted
  BY InductiveInvariant, InvBounds, PTL

----------------------------------------------------------------------------
(***************************************************************************)
(* What is published.                                                      *)
(***************************************************************************)

\* Nothing has happened that can keep the certificate from being published.
Clean ==
    /\ faults = 0 /\ discarded = 0
    /\ Undisputed /\ NotEditedBack
    /\ api.present

\* A copy has the certificate its worker was issued, or else, where the worker is
\* going to create or to store a status, the recorded one.
Carrying ==
    \A w \in Workers :
        /\ secret[w] # NoId => mr[w].status = secret[w]
        /\ pc[w] \in {"create", "annotateFailed"} => mr[w].status = api.status
        /\ w \in fresh /\ secret[w] = NoId
              /\ pc[w] \in {"issue", "publish", "status"} =>
                 mr[w].status = api.status

\* A worker that has a new certificate, or is on the way to it.
Renewing(w) ==
    \/ secret[w] # NoId
    \/ pc[w] \in {"update", "issue"}
    \/ pc[w] = "finalizer" /\ plan[w] = "update"

\* While one creates, nobody else can record a new certificate: the backend does
\* not know the recorded one, so that nobody finds it in need of renewal.
Alone ==
    \A u \in Creators :
        /\ edits <= 1 => ~Placed
        /\ \A v \in fresh \ {u} : ~Renewing(v)

\* Before the first edit there is one backend.
OneBackend ==
    edits = 0 =>
        /\ \A id \in DOMAIN certs : certs[id].backend = spec
        /\ \A w \in Workers : specCache[w] = spec
        /\ \A w \in Workers : pc[w] # "idle" => specCopy[w] = spec

\* Workers that have published a certificate and not recorded it.
Outgoing == {w \in Workers : pc[w] = "status" /\ secret[w] # NoId}

\* What is published is the recorded certificate or that of such a worker; it is
\* the latter's as long as one of them can still record its own.
Leading ==
    Outgoing \cap fresh # {} \/ conn # api.status =>
        \E v \in Outgoing : secret[v] = conn

PublishedTracked == Clean => Carrying /\ Alone /\ Leading

\* The reconciler ends no spell of bad luck: no failure is taken back, and no
\* resource comes back.
LEMMA ManagingClean ==
  ASSUME TypeOK, History, Marked, NEW w \in Workers, Managing(w)
  PROVE  /\ Marked'
         /\ Clean' => /\ Clean /\ faults' = faults /\ discarded' = discarded
                      /\ faults \in Nat /\ discarded \in Nat
<1>1. /\ ReconcilerStep(w) \/ ReconcilerFault(w) \/ SyncCache(w)
      /\ edits' = edits /\ TypeOK'
  BY ManagingFrame DEF History
<1>2. Marked' /\ (Undisputed' => Undisputed)
  BY <1>1, ReconcilerMarked DEF TypeOK, History
<1>3. /\ faults \in Nat /\ discarded \in Nat /\ faults' \in Nat /\ discarded' \in Nat
      /\ faults <= faults' /\ discarded <= discarded'
  BY <1>1, ManagingStakes, ManagedAssumption DEF TypeOK, ManagedTypeOK
<1>4. api'.present => api.present
  <2>1. CASE UNCHANGED api
    BY <2>1
  <2>2. CASE AddFinalizer(w) \/ MarkCreatePending(w) \/ RemoveFinalizer(w)
    BY <2>2, AddFinalizerStores, MarkCreatePendingStores, RemoveFinalizerStores
    DEF TypeOK
  <2>3. CASE SaveAnnotations(w) \/ SaveStatus(w)
    BY <2>3, SaveAnnotationsStores, SaveStatusStores DEF TypeOK
  <2>. QED
    BY <1>1, <2>1, <2>2, <2>3
    DEF ReconcilerStep, ReconcilerFault, Reconcile, Conflict, PublishConnection,
        StatusConflict, LoseAnnotations, LosePublication, Abort, SyncCache
<1>5. NotEditedBack' = NotEditedBack
  BY <1>1 DEF NotEditedBack
<1>. QED  BY <1>2, <1>3, <1>4, <1>5 DEF Clean

\* It begins a creation only with the pending annotation.
LEMMA CreationBegins ==
  ASSUME TypeOK, NEW w \in Workers,
         ReconcilerStep(w) \/ ReconcilerFault(w) \/ SyncCache(w)
  PROVE  \A u \in Creators' \ Creators : u = w /\ MarkCreatePending(w)
<1>1. SUFFICES ASSUME w \in Creators' \ Creators PROVE MarkCreatePending(w)
  BY ReconcilerFrame DEF TypeOK, Creators
<1>2. /\ pc'[w] \in {"create", "annotate", "annotateFailed"}
      /\ pc[w] \notin {"create", "annotate", "annotateFailed"}
  BY <1>1 DEF Creators
<1>. USE DEF TypeOK, ManagedTypeOK
<1>3. CASE Reconcile(w) \/ AddFinalizer(w) \/ SyncCache(w)
  BY <1>2, <1>3 DEF Reconcile, AddFinalizer, SyncCache, Goto
<1>4. CASE RemoveFinalizer(w) \/ Conflict(w) \/ SaveStatus(w) \/ StatusConflict(w)
             \/ Abort(w)
  BY <1>2, <1>4
  DEF RemoveFinalizer, Conflict, SaveStatus, StatusConflict, Abort, Finish, Goto
<1>5. CASE SaveAnnotations(w) \/ LoseAnnotations(w) \/ PublishConnection(w)
             \/ LosePublication(w)
  BY <1>2, <1>5
  DEF SaveAnnotations, LoseAnnotations, PublishConnection, LosePublication, Goto
<1>. QED  BY <1>3, <1>4, <1>5 DEF ReconcilerStep, ReconcilerFault

\* It writes another certificate into the status only for a worker that has
\* published it, and never while another worker is creating.
LEMMA RecordedStands ==
  ASSUME TypeOK, History, Carrying, Alone, NEW w \in Workers, Managing(w)
  PROVE  /\ api'.status # api.status =>
               /\ SaveStatus(w) /\ w \in Outgoing \cap fresh
               /\ api'.status = secret[w]
         /\ Creators \cup Creators' # {} => api'.status = api.status
<1>1. ReconcilerStep(w) \/ ReconcilerFault(w) \/ SyncCache(w)
  BY ManagingFrame DEF History
<1>2. \A v \in Workers \ {w} : pc'[v] = pc[v]
  BY <1>1, ReconcilerFrame DEF TypeOK
<1>3. SUFFICES ASSUME api'.status # api.status
               PROVE  /\ SaveStatus(w) /\ w \in Outgoing \cap fresh
                      /\ api'.status = secret[w]
                      /\ Creators = {} /\ Creators' = {}
  OBVIOUS
<1>4. SaveStatus(w) /\ api'.status = mr[w].status
  BY <1>1, <1>3, ReconcilerStatuses DEF TypeOK
<1>5. pc[w] = "status" /\ w \in fresh /\ pc'[w] = "idle"
  BY <1>4 DEF SaveStatus, Finish, Goto, TypeOK, ManagedTypeOK
<1>6. secret[w] # NoId
  BY <1>3, <1>4, <1>5 DEF Carrying
<1>7. Creators = {}
  BY <1>5, <1>6 DEF Alone, Renewing, Creators
<1>8. Creators' = {}
  BY <1>2, <1>5, <1>7 DEF Creators
<1>. QED  BY <1>4, <1>5, <1>6, <1>7, <1>8 DEF Outgoing, Carrying

\* The copies stay as they should.
LEMMA ManagingCarrying ==
  ASSUME TypeOK, History, Marked, PublishedTracked, NEW w \in Workers, Managing(w),
         Clean'
  PROVE  Carrying'
<1>1. ReconcilerStep(w) \/ ReconcilerFault(w) \/ SyncCache(w)
  BY ManagingFrame DEF History
<1>2. /\ Clean /\ Carrying /\ Alone
      /\ faults' = faults /\ discarded' = discarded /\ faults \in Nat
  BY ManagingClean DEF PublishedTracked
<1>3. /\ \A v \in Workers \ {w} :
            mr'[v] = mr[v] /\ pc'[v] = pc[v] /\ secret'[v] = secret[v]
      /\ fresh' \subseteq fresh \cup {w}
      /\ api' = api \/ fresh' \subseteq {w}
  BY <1>1, ReconcilerFrame DEF TypeOK
<1>4. /\ api'.status # api.status => SaveStatus(w)
      /\ \A u \in Creators : api'.status = api.status
  BY <1>2, RecordedStands
<1>5. /\ secret[w] # NoId => pc[w] \in {"annotate", "publish", "status"}
      /\ w \in fresh /\ pc[w] \in Reading => mr[w] = api
      /\ pc[w] = "annotate" => secret[w] # NoId
  BY DEF History, Hands, Holding, CopiesAgree
<1>6. ASSUME NEW v \in Workers \ {w}
      PROVE  /\ secret'[v] # NoId => mr'[v].status = secret'[v]
             /\ pc'[v] \in {"create", "annotateFailed"} =>
                   mr'[v].status = api'.status
             /\ v \in fresh' /\ secret'[v] = NoId
                   /\ pc'[v] \in {"issue", "publish", "status"} =>
                      mr'[v].status = api'.status
  BY <1>2, <1>3, <1>4 DEF Carrying, Creators
<1>7. SUFFICES /\ secret'[w] # NoId => mr'[w].status = secret'[w]
               /\ pc'[w] \in {"create", "annotateFailed"} =>
                     mr'[w].status = api'.status
               /\ w \in fresh' /\ secret'[w] = NoId
                     /\ pc'[w] \in {"issue", "publish", "status"} =>
                        mr'[w].status = api'.status
  BY <1>6 DEF Carrying
<1>8. /\ secret[w] # NoId => mr[w].status = secret[w]
      /\ pc[w] \in {"create", "annotateFailed"} => mr[w].status = api.status
      /\ w \in fresh /\ secret[w] = NoId
            /\ pc[w] \in {"issue", "publish", "status"} =>
               mr[w].status = api.status
  BY <1>2 DEF Carrying
<1>. USE DEF TypeOK, ManagedTypeOK
<1>9. CASE Reconcile(w)
  <2>1. pc[w] = "idle" /\ pc'[w] = "observe" /\ secret' = secret
    BY <1>9 DEF Reconcile, Goto
  <2>. QED  BY <1>5, <2>1
<1>10. CASE AddFinalizer(w)
  <2>1. /\ pc[w] = "finalizer" /\ pc'[w] \in {"pend", "update", "status"}
        /\ secret' = secret /\ api'.status = api.status
        /\ mr'[w].status = mr[w].status /\ fresh' \subseteq fresh
    BY <1>10, AddFinalizerStores DEF AddFinalizer, Goto
  <2>. QED  BY <1>5, <2>1 DEF Reading
<1>11. CASE MarkCreatePending(w)
  <2>1. /\ pc[w] = "pend" /\ pc'[w] = "create" /\ w \in fresh
        /\ secret' = secret /\ api'.status = api.status
        /\ mr'[w].status = mr[w].status
    BY <1>11, MarkCreatePendingStores DEF MarkCreatePending, Goto
  <2>. QED  BY <1>5, <2>1 DEF Reading
<1>12. CASE RemoveFinalizer(w) \/ Conflict(w) \/ SaveStatus(w) \/ StatusConflict(w)
  BY <1>12
  DEF RemoveFinalizer, Conflict, SaveStatus, StatusConflict, Finish, Goto
<1>13. CASE SaveAnnotations(w)
  <2>1. /\ \/ pc[w] = "annotate" /\ pc'[w] = "publish"
           \/ pc[w] = "annotateFailed" /\ pc'[w] = "status"
        /\ secret' = secret
    BY <1>13 DEF SaveAnnotations, Goto
  <2>2. faults' # faults + 1
    BY <1>2
  <2>3. api'.status = api.status /\ mr'[w].status = mr[w].status
    BY <1>13, <2>2, SaveAnnotationsStores
  <2>. QED  BY <1>5, <1>8, <2>1, <2>3
<1>14. CASE PublishConnection(w)
  <2>1. /\ pc[w] = "publish" /\ pc'[w] = "status"
        /\ UNCHANGED <<api, mr, fresh, secret>>
    BY <1>14 DEF PublishConnection, Goto
  <2>. QED  BY <1>8, <2>1
<1>15. CASE LoseAnnotations(w) \/ LosePublication(w) \/ Abort(w)
  BY <1>2, <1>15 DEF LoseAnnotations, LosePublication, Abort, Fault, Clean
<1>16. CASE SyncCache(w)
  BY <1>8, <1>16 DEF SyncCache
<1>. QED
  BY <1>1, <1>9, <1>10, <1>11, <1>12, <1>13, <1>14, <1>15, <1>16
  DEF ReconcilerStep, ReconcilerFault

\* Nobody joins a creation.
LEMMA ManagingAlone ==
  ASSUME TypeOK, History, Marked, PublishedTracked, NEW w \in Workers, Managing(w),
         Clean'
  PROVE  Alone'
<1>1. /\ ReconcilerStep(w) \/ ReconcilerFault(w) \/ SyncCache(w)
      /\ UNCHANGED <<certs, spec, edits>>
  BY ManagingFrame DEF History, pki
<1>2. Clean /\ Carrying /\ Alone /\ Marked'
  BY ManagingClean DEF PublishedTracked
<1>3. /\ \A v \in Workers \ {w} :
            pc'[v] = pc[v] /\ plan'[v] = plan[v] /\ secret'[v] = secret[v]
      /\ fresh' \subseteq fresh \cup {w}
      /\ fresh \subseteq Workers
  BY <1>1, ReconcilerFrame DEF TypeOK, ManagedTypeOK
<1>. USE DEF TypeOK, ManagedTypeOK
<1>4. ASSUME NEW u \in Creators' PROVE edits' <= 1 => ~Placed'
  <2>1. api'.status = api.status /\ Placed' = Placed
    BY <1>1, <1>2, <1>4, RecordedStands DEF Placed, Found
  <2>2. CASE u \in Creators
    BY <1>1, <1>2, <2>1, <2>2 DEF Alone
  <2>3. CASE u \notin Creators
    <3>1. MarkCreatePending(w)
      BY <1>1, <1>4, <2>3, CreationBegins
    <3>2. pc[w] = "pend" /\ w \in fresh
      BY <3>1 DEF MarkCreatePending
    <3>3. mr[w] = api /\ specCopy[w] = spec /\ ~Found(specCopy[w], mr[w].status)
      BY <3>2 DEF History, CopiesAgree, SpecsAgree, Sought, Absent, Reading
    <3>. QED  BY <2>1, <3>3 DEF Placed
  <2>. QED  BY <2>2, <2>3
<1>5. ASSUME NEW u \in Creators', NEW v \in fresh' \ {u}, v # w
      PROVE  ~Renewing(v)'
  <2>1. v \in fresh /\ v \in Workers /\ (Renewing(v)' <=> Renewing(v))
    BY <1>3, <1>5 DEF Renewing
  <2>2. CASE u \in Creators
    BY <1>2, <2>1, <2>2 DEF Alone
  <2>3. CASE u \notin Creators
    <3>1. u = w /\ MarkCreatePending(w)
      BY <1>1, <1>5, <2>3, CreationBegins
    <3>. QED  BY <1>5, <3>1, MarkCreatePendingStores
  <2>. QED  BY <2>2, <2>3
<1>6. ASSUME NEW u \in Creators', w \in fresh' \ {u} PROVE ~Renewing(w)'
  <2>1. u \in Creators /\ u # w
    BY <1>3, <1>6 DEF Creators
  <2>2. /\ w \in fresh => ~Renewing(w)
        /\ secret[w] # NoId => pc[w] \in {"annotate", "publish", "status"}
    BY <1>2, <2>1 DEF Alone, History, Hands, Holding
  <2>3. /\ ~(pc[w] \in CreationSteps) /\ ~(pc'[w] \in CreationSteps)
    BY <1>2, <1>3, <2>1 DEF Marked, Clean, Undisputed, Creators, CreationSteps
  <2>4. CASE Reconcile(w) \/ SyncCache(w)
    BY <1>6, <2>2, <2>4 DEF Reconcile, SyncCache, Renewing, Goto
  <2>5. CASE AddFinalizer(w)
    <3>1. /\ w \in fresh /\ pc[w] = "finalizer" /\ pc'[w] = plan[w]
          /\ plan[w] \in {"pend", "update", "status"} /\ secret' = secret
      BY <1>6, <2>5, AddFinalizerStores DEF AddFinalizer, Goto
    <3>. QED  BY <2>2, <3>1 DEF Renewing
  <2>6. CASE MarkCreatePending(w) \/ SaveAnnotations(w) \/ LoseAnnotations(w)
    BY <2>3, <2>6
    DEF MarkCreatePending, SaveAnnotations, LoseAnnotations, Goto, CreationSteps
  <2>7. CASE RemoveFinalizer(w) \/ Conflict(w) \/ SaveStatus(w)
               \/ StatusConflict(w) \/ Abort(w)
    BY <2>7
    DEF RemoveFinalizer, Conflict, SaveStatus, StatusConflict, Abort, Finish, Goto,
        Renewing
  <2>8. CASE PublishConnection(w) \/ LosePublication(w)
    BY <1>6, <2>2, <2>8 DEF PublishConnection, LosePublication, Goto, Renewing
  <2>. QED
    BY <1>1, <2>4, <2>5, <2>6, <2>7, <2>8 DEF ReconcilerStep, ReconcilerFault
<1>7. fresh' \subseteq Workers
  BY <1>3
<1>. QED  BY <1>4, <1>5, <1>6 DEF Alone

\* The certificate of a worker that still can record it is not the recorded one,
\* and what has been published last stays in hand.
LEMMA ManagingLeading ==
  ASSUME TypeOK, History, Marked, PublishedTracked, NEW w \in Workers, Managing(w),
         Clean'
  PROVE  Leading'
<1>1. ReconcilerStep(w) \/ ReconcilerFault(w) \/ SyncCache(w)
  BY ManagingFrame DEF History
<1>2. /\ Clean /\ Carrying /\ Alone /\ Leading
      /\ faults' = faults /\ discarded' = discarded
      /\ faults \in Nat /\ discarded \in Nat
  BY ManagingClean DEF PublishedTracked
<1>3. /\ \A v \in Workers \ {w} : pc'[v] = pc[v] /\ secret'[v] = secret[v]
      /\ fresh' \subseteq fresh \cup {w}
  BY <1>1, ReconcilerFrame DEF TypeOK
<1>4. /\ api'.status # api.status =>
            SaveStatus(w) /\ w \in Outgoing \cap fresh /\ api'.status = secret[w]
  BY <1>2, RecordedStands
<1>5. /\ secret[w] # NoId => /\ pc[w] \in {"annotate", "publish", "status"}
                             /\ api.status # secret[w]
  BY DEF History, Hands, Holding
<1>6. Outgoing \ {w} = Outgoing' \ {w}
  BY <1>3 DEF Outgoing
<1>7. ASSUME conn' = conn, api'.status = api.status,
             w \in Outgoing' => w \in Outgoing /\ fresh' = fresh,
             w \in Outgoing => w \in Outgoing' /\ secret'[w] = secret[w]
      PROVE  Leading'
  <2>1. SUFFICES ASSUME Outgoing' \cap fresh' # {} \/ conn # api.status
                 PROVE  \E v \in Outgoing' : secret'[v] = conn
    BY <1>7 DEF Leading
  <2>2. Outgoing' = Outgoing
    BY <1>6, <1>7
  <2>3. Outgoing' \cap fresh' \subseteq Outgoing \cap fresh
    BY <1>3, <1>7, <2>2
  <2>4. PICK v \in Outgoing : secret[v] = conn
    BY <1>2, <2>1, <2>3 DEF Leading
  <2>. QED  BY <1>3, <1>7, <2>2, <2>4 DEF Outgoing
<1>. USE DEF TypeOK, ManagedTypeOK
<1>8. CASE Reconcile(w) \/ AddFinalizer(w) \/ MarkCreatePending(w)
             \/ RemoveFinalizer(w) \/ Conflict(w) \/ SaveAnnotations(w)
  <2>1. /\ conn' = conn /\ pc[w] # "status"
        /\ pc'[w] = "status" => secret'[w] = NoId
    BY <1>5, <1>8
    DEF Reconcile, AddFinalizer, MarkCreatePending, RemoveFinalizer, Conflict,
        SaveAnnotations, Finish, Goto
  <2>2. w \notin Outgoing /\ w \notin Outgoing'
    BY <2>1 DEF Outgoing
  <2>. QED  BY <1>4, <1>7, <2>1, <2>2
<1>9. CASE PublishConnection(w)
  <2>1. /\ pc[w] = "publish" /\ pc'[w] = "status"
        /\ UNCHANGED <<api, fresh, secret>>
        /\ conn' = IF secret[w] = NoId THEN conn ELSE secret[w]
    BY <1>9 DEF PublishConnection, Goto
  <2>2. CASE secret[w] = NoId
    BY <1>7, <2>1, <2>2 DEF Outgoing
  <2>3. CASE secret[w] # NoId
    BY <2>1, <2>3 DEF Outgoing, Leading
  <2>. QED  BY <2>2, <2>3
<1>10. CASE SaveStatus(w)
  <2>1. /\ conn' = conn /\ w \notin Outgoing' /\ w \in fresh
        /\ api'.status = mr[w].status
        /\ api'.status # api.status => fresh' = {}
    BY <1>10, SaveStatusStores DEF SaveStatus, Finish, Goto, Outgoing
  <2>2. CASE w \notin Outgoing
    BY <1>4, <1>7, <2>1, <2>2
  <2>3. CASE w \in Outgoing
    <3>1. api'.status = secret[w] /\ fresh' = {}
      BY <1>2, <1>5, <2>1, <2>3 DEF Carrying, Outgoing
    <3>2. PICK v \in Outgoing : secret[v] = conn
      BY <1>2, <2>1, <2>3 DEF Leading
    <3>3. CASE v = w
      BY <2>1, <3>1, <3>2, <3>3 DEF Leading
    <3>4. CASE v # w
      <4>1. v \in Outgoing' /\ secret'[v] = conn'
        BY <1>3, <1>6, <2>1, <3>2, <3>4 DEF Outgoing
      <4>. QED  BY <4>1 DEF Leading
    <3>. QED  BY <3>3, <3>4
  <2>. QED  BY <2>2, <2>3
<1>11. CASE StatusConflict(w)
  <2>1. /\ conn' = conn /\ api' = api /\ w \notin Outgoing'
        /\ pc[w] = "status"
        /\ mr[w].status # api.status /\ secret[w] # NoId =>
              discarded' = discarded + 1
    BY <1>11 DEF StatusConflict, CountDiscarded, Finish, Goto, Outgoing
  <2>2. secret[w] = NoId
    BY <1>2, <1>5, <2>1 DEF Carrying
  <2>3. w \notin Outgoing
    BY <2>2 DEF Outgoing
  <2>. QED  BY <1>7, <2>1, <2>3
<1>12. CASE LoseAnnotations(w) \/ LosePublication(w) \/ Abort(w)
  BY <1>2, <1>12 DEF LoseAnnotations, LosePublication, Abort, Fault, Clean
<1>13. CASE SyncCache(w)
  BY <1>7, <1>13 DEF SyncCache, Outgoing
<1>. QED
  BY <1>1, <1>8, <1>9, <1>10, <1>11, <1>12, <1>13
  DEF ReconcilerStep, ReconcilerFault

\* The controller keeps all of it: it finds no certificate in need of renewal while
\* another worker creates one.
LEMMA ControllerTracked ==
  ASSUME TypeOK, History, Marked, PublishedTracked, NEW w \in Workers,
         ControllerStep(w) \/ IssueUnanswered(w)
  PROVE  Marked' /\ PublishedTracked'
<1>1. /\ UNCHANGED <<api, conn, fresh, spec, edits, overrides, discarded>>
      /\ Creators' = Creators /\ Weathered
      /\ w \in fresh /\ pc[w] \in Reading => mr[w] = api /\ specCopy[w] = spec
      /\ pc[w] # "status" => secret[w] = NoId
      /\ \A v \in Workers \ {w} :
            /\ mr'[v] = mr[v] /\ pc'[v] = pc[v]
            /\ plan'[v] = plan[v] /\ secret'[v] = secret[v]
  BY ControllerFrame, ControllerStakes
<1>2. /\ pc[w] # "status"
      /\ pc'[w] \in CreationSteps => pc[w] \in CreationSteps
  BY ControllerCases DEF CreationSteps
<1>3. Marked' /\ Undisputed' = Undisputed
  BY <1>1, <1>2, ControllerMarked
<1>4. SUFFICES ASSUME Clean' PROVE Carrying' /\ Alone' /\ Leading'
  BY <1>3 DEF PublishedTracked
<1>5. faults' = 0 /\ faults \in Nat /\ Undisputed /\ NotEditedBack
  BY <1>1, <1>3, <1>4, ManagedAssumption
  DEF Clean, NotEditedBack, TypeOK, ManagedTypeOK
<1>6. ~IssueUnanswered(w)
  BY <1>5 DEF IssueUnanswered, Fault
<1>7. faults' = faults
  BY <1>6
  DEF ControllerStep, Observe, RevokeOld, IssueCertificate, IssueRefused, Delete,
      CallRefused
<1>8. Carrying /\ Alone /\ Leading
  BY <1>1, <1>3, <1>4, <1>5, <1>7 DEF Clean, PublishedTracked
<1>9. \/ /\ pc[w] = "observe"
         /\ pc'[w] \in {"delete", "unfinalize", "finalizer"}
         /\ mr' = mr /\ secret' = secret
         /\ plan'[w] = "update" => Found(specCopy[w], mr[w].status)
      \/ pc[w] = "update" /\ pc'[w] = "issue" /\ mr' = mr /\ secret' = secret
      \/ /\ mr'[w].status = NewSerial /\ secret'[w] = NewSerial /\ NewSerial # NoId
         /\ \/ pc[w] = "create" /\ pc'[w] = "annotate"
            \/ pc[w] = "issue" /\ pc'[w] = "publish"
      \/ /\ mr' = mr /\ secret' = secret
         /\ \/ pc[w] = "create" /\ pc'[w] = "annotateFailed"
            \/ pc[w] \in {"issue", "observe", "delete"} /\ pc'[w] = "status"
  <2>1. issued # Ids => NewSerial # NoId
    BY ManagedAssumption DEF NewSerial, TypeOK
  <2>. QED  BY <1>6, <2>1, ControllerCases
<1>10. Carrying'
  <2>1. ASSUME NEW v \in Workers \ {w}
        PROVE  /\ secret'[v] # NoId => mr'[v].status = secret'[v]
               /\ pc'[v] \in {"create", "annotateFailed"} =>
                     mr'[v].status = api'.status
               /\ v \in fresh' /\ secret'[v] = NoId
                     /\ pc'[v] \in {"issue", "publish", "status"} =>
                        mr'[v].status = api'.status
    BY <1>1, <1>8 DEF Carrying
  <2>2. /\ secret'[w] # NoId => mr'[w].status = secret'[w]
        /\ pc'[w] \in {"create", "annotateFailed"} => mr'[w].status = api'.status
        /\ w \in fresh' /\ secret'[w] = NoId
              /\ pc'[w] \in {"issue", "publish", "status"} =>
                 mr'[w].status = api'.status
    BY <1>1, <1>2, <1>8, <1>9 DEF Carrying, Reading
  <2>. QED  BY <2>1, <2>2 DEF Carrying
<1>11. Alone'
  <2>1. Placed' => Placed
    <3>1. api.status \in issued \cup {NoId}
      BY DEF History, Recording, Statuses
    <3>. QED  BY <1>1, <3>1 DEF Weathered, Placed, Found
  <2>2. ASSUME NEW u \in Creators, w \in fresh, u # w PROVE ~Renewing(w)'
    <3>1. ~Renewing(w)
      BY <1>8, <2>2 DEF Alone
    <3>2. pc[w] \notin CreationSteps
      BY <1>5, <2>2 DEF Marked, Creators, CreationSteps
    <3>3. edits <= 1 /\ ~Placed
      BY <1>5, <1>8, <2>2, OneProcess DEF Alone, NotEditedBack, Creators
    <3>4. pc[w] = "observe" => ~Found(specCopy[w], mr[w].status)
      BY <1>1, <2>2, <3>3 DEF Placed, Reading
    <3>5. /\ secret[w] = NoId /\ pc[w] \notin {"update", "issue", "create"}
      BY <3>1, <3>2 DEF Renewing, CreationSteps
    <3>6. /\ secret'[w] = NoId /\ pc'[w] \notin {"update", "issue"}
          /\ pc'[w] = "finalizer" => plan'[w] # "update"
      BY <1>9, <3>4, <3>5
    <3>. QED  BY <3>6 DEF Renewing
  <2>3. ASSUME NEW u \in Creators, NEW v \in fresh \ {u}, v # w
        PROVE  ~Renewing(v)'
    <3>1. v \in Workers
      BY DEF TypeOK, ManagedTypeOK
    <3>. QED  BY <1>1, <1>8, <2>3, <3>1 DEF Alone, Renewing
  <2>4. \A u \in Creators : \A v \in fresh \ {u} : ~Renewing(v)'
    BY <2>2, <2>3
  <2>5. \A u \in Creators : edits <= 1 => ~Placed'
    BY <1>8, <2>1 DEF Alone
  <2>. QED  BY <1>1, <2>4, <2>5 DEF Alone
<1>12. Leading'
  <2>1. w \notin Outgoing /\ w \notin Outgoing'
    BY <1>1, <1>2, <1>9 DEF Outgoing
  <2>2. Outgoing' = Outgoing /\ \A v \in Outgoing : secret'[v] = secret[v]
    BY <1>1, <2>1 DEF Outgoing
  <2>. QED  BY <1>1, <1>8, <2>2 DEF Leading
<1>. QED  BY <1>10, <1>11, <1>12

\* Only an edit brings another backend.
LEMMA OneBackendStep ==
  ASSUME TypeOK, NoNames, OneBackend, [Next]_vars
  PROVE  OneBackend'
<1>1. edits \in Nat /\ VaultOK
  BY SpecifiedAssumption DEF TypeOK, SpecifiedTypeOK, VaultOK
<1>2. ASSUME NEW w \in Workers, Managing(w) PROVE OneBackend'
  <2>1. /\ UNCHANGED <<spec, edits, certs>>
        /\ \A v \in Workers : pc[v] # "idle" /\ pc'[v] # "idle" =>
              specCopy'[v] = specCopy[v]
        /\ \A v \in Workers : pc[v] = "idle" /\ pc'[v] # "idle" =>
              specCopy'[v] = specCache[v]
        /\ \A v \in Workers : specCache'[v] =
              IF v \in current' /\ v \notin current THEN spec ELSE specCache[v]
    BY <1>2, ManagingFrame DEF pki
  <2>. QED  BY <2>1 DEF OneBackend
<1>3. ASSUME NEW w \in Workers, ControllerStep(w) \/ IssueUnanswered(w)
      PROVE  OneBackend'
  <2>1. /\ UNCHANGED <<spec, edits, specCache>> /\ pc[w] # "idle"
        /\ \A v \in Workers \ {w} : pc'[v] = pc[v]
        /\ \A v \in Workers : specCopy'[v] = specCopy[v] \/ pc[v] = "idle"
    BY <1>3, ControllerFrame
  <2>2. \/ certs' \in {certs, Revoke(mr[w].status)}
        \/ issued # Ids /\ NewCert(w, NewSerial)
    BY <1>3, ControllerCases
  <2>3. ASSUME edits = 0, NEW id \in DOMAIN certs'
        PROVE  certs'[id].backend = spec
    <3>1. CASE certs' = certs
      BY <2>3, <3>1 DEF OneBackend
    <3>2. CASE certs' = Revoke(mr[w].status)
      BY <1>1, <2>3, <3>2, RevokeMarks DEF OneBackend
    <3>3. CASE issued # Ids /\ NewCert(w, NewSerial)
      <4>1. /\ DOMAIN certs' = DOMAIN certs \cup {NewSerial}
            /\ \A i \in DOMAIN certs : certs'[i] = certs[i]
            /\ certs'[NewSerial] = [backend |-> specCopy[w], age |-> "young",
                                    revoked |-> FALSE]
        BY <2>1, <3>3, NewCertAdds
      <4>2. certs'[NewSerial].backend = specCopy[w]
        BY <4>1
      <4>. QED  BY <2>1, <2>3, <4>1, <4>2 DEF OneBackend
    <3>. QED  BY <2>2, <3>1, <3>2, <3>3
  <2>. QED  BY <2>1, <2>3 DEF OneBackend
<1>4. CASE EditSpec
  BY <1>1, <1>4, EditFrame DEF OneBackend
<1>5. CASE RequestDelete /\ Unmanaged /\ CarrySpec
  BY <1>5, DeletionFrame DEF OneBackend, pki
<1>6. CASE Age \/ OperatorRevokes \/ Tidy
  BY <1>6, AgeingFrame DEF OneBackend, managedVars, specVars
<1>7. CASE UNCHANGED vars
  BY <1>7 DEF vars, managedVars, specVars, pki, OneBackend
<1>. QED  BY <1>2, <1>3, <1>4, <1>5, <1>6, <1>7, Cases

\* The first edit does not lead to the recorded certificate of a resource that one
\* is being created for; only a second one can.
LEMMA EditTracked ==
  ASSUME TypeOK, OneBackend, Marked, PublishedTracked, EditSpec
  PROVE  Marked' /\ PublishedTracked'
<1>1. /\ UNCHANGED <<api, conn, mr, pc, plan, secret, faults, overrides, discarded,
                     certs>>
      /\ edits' = edits + 1 /\ fresh' = {} /\ edits \in Nat
  BY EditFrame, SpecifiedAssumption DEF TypeOK, SpecifiedTypeOK
<1>2. Marked'
  BY <1>1 DEF Marked, Undisputed
<1>3. Clean' => Clean
  BY <1>1 DEF Clean, Undisputed, NotEditedBack
<1>4. Creators' = Creators /\ Outgoing' = Outgoing
  BY <1>1 DEF Creators, Outgoing
<1>5. ASSUME Alone PROVE Alone'
  <2>1. ASSUME NEW u \in Creators, edits' <= 1 PROVE ~Placed'
    <3>1. edits = 0 /\ ~Placed
      BY <1>1, <1>5, <2>1 DEF Alone
    <3>2. api.status \notin DOMAIN certs
      BY <3>1 DEF OneBackend, Placed, Found
    <3>. QED  BY <1>1, <3>2 DEF Placed, Found
  <2>. QED  BY <1>1, <1>4, <2>1 DEF Alone
<1>6. Carrying => Carrying'
  BY <1>1 DEF Carrying
<1>7. Leading => Leading'
  BY <1>1, <1>4 DEF Leading
<1>. QED  BY <1>2, <1>3, <1>5, <1>6, <1>7 DEF PublishedTracked

\* The request to delete the resource outdates every copy.
LEMMA DeletionTracked ==
  ASSUME TypeOK, Marked, PublishedTracked, RequestDelete, Unmanaged, CarrySpec
  PROVE  Marked' /\ PublishedTracked'
<1>1. /\ UNCHANGED <<mr, pc, plan, secret, faults, overrides, discarded, spec,
                     edits, certs>>
      /\ fresh' = {}
  BY DeletionFrame DEF pki
<1>2. /\ api.present /\ api'.status = api.status
      /\ api'.pending = api.pending /\ conn' = conn
  BY RequestDeleteStores DEF TypeOK, RequestDelete
<1>3. Marked'
  BY <1>1, <1>2 DEF Marked, Undisputed
<1>4. Clean' => Clean
  BY <1>1, <1>2 DEF Clean, Undisputed, NotEditedBack
<1>5. Placed' = Placed
  BY <1>1, <1>2 DEF Placed, Found
<1>. QED
  BY <1>1, <1>2, <1>3, <1>4, <1>5
  DEF PublishedTracked, Carrying, Alone, Leading, Outgoing, Creators

\* A certificate that ages, is revoked or is forgotten is not found again.
LEMMA AgeingTracked ==
  ASSUME TypeOK, Marked, PublishedTracked, Age \/ OperatorRevokes \/ Tidy
  PROVE  Marked' /\ PublishedTracked'
<1>1. /\ UNCHANGED <<managedVars, specVars>>
      /\ DOMAIN certs' \subseteq DOMAIN certs
      /\ \A id \in DOMAIN certs' : certs'[id].backend = certs[id].backend
  BY AgeingFrame
<1>2. Placed' => Placed
  BY <1>1 DEF Placed, Found, managedVars, specVars
<1>3. /\ Marked' /\ (Clean' => Clean)
      /\ Creators' = Creators /\ Outgoing' = Outgoing
      /\ \A w \in Workers : Renewing(w)' <=> Renewing(w)
  BY <1>1
  DEF managedVars, specVars, Marked, Clean, Undisputed, NotEditedBack, Creators,
      Outgoing, Renewing
<1>4. Carrying => Carrying'
  BY <1>1 DEF managedVars, Carrying
<1>5. Alone => Alone'
  <2>1. UNCHANGED <<fresh, edits>> /\ fresh \subseteq Workers
    BY <1>1 DEF managedVars, specVars, TypeOK, ManagedTypeOK
  <2>. QED  BY <1>2, <1>3, <2>1 DEF Alone
<1>6. Leading => Leading'
  BY <1>1, <1>3 DEF managedVars, Leading
<1>. QED  BY <1>3, <1>4, <1>5, <1>6 DEF PublishedTracked

LEMMA TrackedStep ==
  IInv /\ OneBackend /\ Marked /\ PublishedTracked /\ [Next]_vars =>
      OneBackend' /\ Marked' /\ PublishedTracked'
<1>. SUFFICES ASSUME IInv, OneBackend, Marked, PublishedTracked, [Next]_vars
              PROVE  OneBackend' /\ Marked' /\ PublishedTracked'
  OBVIOUS
<1>0. TypeOK /\ History /\ OneBackend'
  BY OneBackendStep DEF IInv, History
<1>1. CASE \E w \in Workers : Managing(w)
  BY <1>0, <1>1, ManagingClean, ManagingCarrying, ManagingAlone, ManagingLeading
  DEF PublishedTracked
<1>2. CASE \E w \in Workers : ControllerStep(w) \/ IssueUnanswered(w)
  BY <1>0, <1>2, ControllerTracked
<1>3. CASE EditSpec
  BY <1>0, <1>3, EditTracked
<1>4. CASE RequestDelete /\ Unmanaged /\ CarrySpec
  BY <1>0, <1>4, DeletionTracked
<1>5. CASE Age \/ OperatorRevokes \/ Tidy
  BY <1>0, <1>5, AgeingTracked
<1>6. CASE UNCHANGED vars
  BY <1>0, <1>6
  DEF vars, managedVars, specVars, pki, Marked, Undisputed, PublishedTracked,
      Clean, NotEditedBack, Carrying, Alone, Leading, Outgoing, Creators, Renewing,
      Placed, Found
<1>. QED  BY <1>1, <1>2, <1>3, <1>4, <1>5, <1>6, Cases

\* At rest, without a failure and without a dropped status, the connection
\* secret holds the certificate the status names, also after a renewal that was
\* refused half way (Update, certificate.go:159), with any number of processes of
\* which none has gone ahead over the creation of another.  With several, the
\* backend is edited once: edited back, it answers for a certificate that a worker
\* has not found in between, and another one can renew that certificate while the
\* first goes on to store the status it has read.
THEOREM PublishedRecorded == Spec => []PublishedIsRecorded
<1>1. Init => OneBackend /\ Marked /\ PublishedTracked
  BY DEF Init, ManagedInit, NewObject, SpecifiedInit, OneBackend, Marked,
         CreationSteps, PublishedTracked, Carrying, Alone, Leading, Outgoing, Creators
<1>2. IInv /\ OneBackend /\ Marked /\ PublishedTracked /\ [Next]_vars =>
        OneBackend' /\ Marked' /\ PublishedTracked'
  BY TrackedStep
<1>3. PublishedTracked => PublishedIsRecorded
  BY DEF PublishedTracked, PublishedIsRecorded, Clean, Leading, Outgoing
<1>. QED  BY <1>1, <1>2, <1>3, InductiveInvariant, PTL DEF Spec

----------------------------------------------------------------------------
(***************************************************************************)
(* The release.                                                            *)
(***************************************************************************)

\* Only the removal of the finalizer releases the resource, and the copy that
\* brought a worker there has the present specification and the stored serial,
\* which the backend does not know.
LEMMA ReleaseStep ==
  IInv /\ [Next]_vars =>
      (Released /\ api.status \in DOMAIN certs =>
           certs[api.status].backend # spec)
<1>. SUFFICES ASSUME IInv, [Next]_vars, Released
              PROVE  api.status \in DOMAIN certs =>
                         certs[api.status].backend # spec
  OBVIOUS
<1>0. /\ TypeOK /\ ManagedTypeOK
      /\ CopiesAgree /\ SpecsAgree /\ Sought
  BY DEF IInv, History, TypeOK
<1>1. CASE \E w \in Workers : Managing(w)
  <2>1. PICK w \in Workers : Managing(w)
    BY <1>1
  <2>2. pc[w] = "unfinalize" /\ w \in fresh /\ mr[w] = api
    BY <1>0, <2>1, ReconcilerReleases DEF Managing, Reconciling
  <2>3. ~Found(spec, api.status)
    BY <1>0, <2>2 DEF SpecsAgree, Reading, Sought, Absent
  <2>. QED  BY <2>3 DEF Found
<1>2. CASE \E w \in Workers : ControllerStep(w) \/ IssueUnanswered(w)
  BY <1>0, <1>2, ControllerFrame DEF Released
<1>3. CASE EditSpec
  BY <1>0, <1>3, EditFrame DEF Released
<1>4. CASE RequestDelete
  BY <1>0, <1>4, RequestDeleteStores DEF Released
<1>5. CASE Age \/ OperatorRevokes \/ Tidy
  BY <1>0, <1>5, AgeingFrame DEF Released, managedVars
<1>6. CASE UNCHANGED vars
  BY <1>6 DEF vars, managedVars, Released
<1>. QED  BY <1>1, <1>2, <1>3, <1>4, <1>5, <1>6, Cases

\* The finalizer is removed only once the backend of the specification does not
\* know the recorded certificate any more (Observe, certificate.go:96-107, the
\* Delete at 185-199 having revoked it or not).  With any number of processes,
\* outdated caches, edits and failures.
THEOREM RevocationFirst == Spec => RevokedBeforeReleased
  BY ReleaseStep, InductiveInvariant, PTL DEF Spec, RevokedBeforeReleased
=============================================================================
