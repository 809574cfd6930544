------------------------ MODULE AppRoleSecretID_proofs ------------------------
(***************************************************************************)
(* Theorems about AppRoleSecretID, for any number of processes and of      *)
(* identifiers and any bounds: the state keeps its type, and every working *)
(* credential nobody knows of is paid for by an infrastructure failure or  *)
(* by an overridden creation.                                              *)
(***************************************************************************)
EXTENDS AppRoleSecretID, Managed_proofs

----------------------------------------------------------------------------
(***************************************************************************)
(* The inductive invariant.                                                *)
(***************************************************************************)

Creators == {w \in Workers : Creating(w)}

\* Update is never planned, nor come to.
PlansOK == \A w \in Workers : plan[w] # "update" /\ pc[w] # "update"

\* Every external name anywhere was generated.
NamesGenerated ==
    /\ IsFiniteSet(generated)
    /\ api.name \in generated \cup {NoId}
    /\ \A w \in Workers : cache[w].name \in generated \cup {NoId}
    /\ \A w \in Workers : mr[w].name \in generated \cup {NoId}

\* The way from "does not exist" to Create, or to the end of the resource, is
\* taken with a name that does not work.
Absent(w) ==
    \/ pc[w] = "finalizer" /\ plan[w] = "pend"
    \/ pc[w] \in {"pend", "create", "unfinalize"}

AbsentIsDead ==
    /\ \A w \in Workers : Absent(w) => mr[w].name \notin live
    /\ api.present /\ api.pending => api.name \notin live

\* The creation the resource says is pending is in somebody's hands.
Pledged == api.present /\ api.pending /\ Creators # {}

\* A worker in the middle of a creation can still cost one credential, that of
\* the pledged creation excepted.
Ledger ==
    /\ Pledged => Cardinality(Orphans) + Cardinality(Creators)
                    <= faults + overrides + 1
    /\ ~Pledged => Cardinality(Orphans) + Cardinality(Creators)
                    <= faults + overrides

History ==
    /\ PlansOK
    /\ CopiesAgree
    /\ NamesGenerated
    /\ AbsentIsDead
    /\ Untouched

IInv == TypeOK /\ History /\ Ledger

----------------------------------------------------------------------------
(***************************************************************************)
(* Type correctness.                                                       *)
(***************************************************************************)

\* The initial states have the type.
LEMMA TypeInit == Init => TypeOK /\ PlansOK
<1>. SUFFICES ASSUME Init PROVE TypeOK /\ PlansOK
  OBVIOUS
<1>1. [NewObject EXCEPT !.finalizer = TRUE] \in Object
  BY NewObjectType, ObjectUpdate DEF IdOrNone
<1>2. PICK object \in Object : ManagedInit(object) /\ conn \in IdOrNone
  BY <1>1, NewObjectType, SecretIDAssumption DEF Init, IdOrNone
<1>3. ManagedTypeOK
  BY <1>2, ManagedInitType
<1>4. PlansOK
  BY <1>2 DEF ManagedInit, PlansOK
<1>. QED
  BY <1>2, <1>3, <1>4, SecretIDAssumption DEF Init, TypeOK, IdOrNone

\* A step of the controller keeps the type.
LEMMA ControllerType ==
  ASSUME TypeOK, PlansOK, NEW w \in Workers,
         ControllerStep(w) \/ ControllerFault(w)
  PROVE  TypeOK' /\ PlansOK'
<1>. USE DEF TypeOK, ManagedTypeOK, PlansOK, IdOrNone, Steps
<1>1. CASE Observe(w)
  BY <1>1, ManagedAssumption, SecretIDAssumption
  DEF Observe, Decide, UpToDate, Goto
<1>2. CASE Generate(w)
  <2>1. PICK id \in Ids \ (generated \cup Legacy) :
           /\ live' = live \cup {id}
           /\ generated' = generated \cup {id}
           /\ mr' = [mr EXCEPT ![w].name = id]
           /\ secret' = [secret EXCEPT ![w] = id]
    BY <1>2 DEF Generate, SetExternalName
  <2>2. [mr[w] EXCEPT !.name = id] \in Object
    BY ObjectUpdate
  <2>. QED  BY <1>2, <2>1, <2>2 DEF Generate, Goto
<1>3. CASE ReadRoleID(w)
  BY <1>3, ManagedAssumption, SecretIDAssumption DEF ReadRoleID, Goto
<1>4. CASE CreateRefused(w)
  BY <1>4, ManagedAssumption, SecretIDAssumption DEF CreateRefused, Refuse, Goto
<1>5. CASE Delete(w)
  BY <1>5, ManagedAssumption, SecretIDAssumption DEF Delete, Goto
<1>6. CASE CallRefused(w)
  BY <1>6, ManagedAssumption, SecretIDAssumption DEF CallRefused, Refuse, Goto
<1>7. CASE GenerateUnanswered(w)
  BY <1>7, ManagedAssumption, SecretIDAssumption
  DEF GenerateUnanswered, Fault, Goto
<1>8. CASE SecretUnread(w)
  BY <1>8, ManagedAssumption, SecretIDAssumption
  DEF SecretUnread, Fault, Decide, UpToDate, Goto
<1>. QED
  BY <1>1, <1>2, <1>3, <1>4, <1>5, <1>6, <1>7, <1>8
  DEF ControllerStep, ControllerFault

\* Every step keeps the type.
LEMMA TypeStep == TypeOK /\ PlansOK /\ [Next]_vars => TypeOK' /\ PlansOK'
<1>. SUFFICES ASSUME TypeOK, PlansOK, [Next]_vars
              PROVE  TypeOK' /\ PlansOK'
  OBVIOUS
<1>1. CASE \E w \in Workers : Managing(w)
  BY <1>1, ReconcilerType DEF Managing, TypeOK, PlansOK
<1>2. CASE \E w \in Workers : ControllerStep(w) \/ ControllerFault(w)
  BY <1>2, ControllerType
<1>3. CASE User
  BY <1>3, UserType DEF User, TypeOK, PlansOK
<1>4. CASE \E id \in Ids : Expire(id)
  BY <1>4 DEF Expire, TypeOK, ManagedTypeOK, PlansOK, managedVars
<1>5. CASE UNCHANGED vars
  BY <1>5 DEF vars, managedVars, TypeOK, ManagedTypeOK, PlansOK
<1>. QED  BY <1>1, <1>2, <1>3, <1>4, <1>5 DEF Next

\* The state keeps its type.  Kept with it is that no reconcile comes to Update,
\* since what Observe reports never plans one (approlesecretid.go:129-132).
THEOREM TypeCorrect == Spec => []TypeOK
<1>1. TypeOK /\ PlansOK /\ [Next]_vars => TypeOK' /\ PlansOK'
  BY TypeStep
<1>. QED  BY <1>1, TypeInit, PTL DEF Spec

\* A step of the controller leaves the stored resource alone, and changes the
\* copy of its worker only in Create.
LEMMA ControllerFrame ==
  ASSUME TypeOK, NEW w \in Workers, ControllerStep(w) \/ ControllerFault(w)
  PROVE  /\ UNCHANGED <<api, cache, current, fresh, overrides, discarded>>
         /\ \A v \in Workers \ {w} :
               /\ mr'[v] = mr[v] /\ pc'[v] = pc[v]
               /\ plan'[v] = plan[v] /\ secret'[v] = secret[v]
         /\ \/ /\ pc[w] \in {"create", "readrole"}
               /\ pc'[w] \in {"readrole", "annotate", "annotateFailed"}
            \/ /\ pc[w] \in {"observe", "delete"}
               /\ pc'[w] \in {"delete", "unfinalize", "finalizer", "status"}
               /\ pc'[w] \in {"delete", "unfinalize"} => mr[w].deleting
               /\ pc[w] = "delete" => pc'[w] = "status"
               /\ mr'[w] = mr[w] /\ secret'[w] = secret[w]
<1>. USE DEF TypeOK, ManagedTypeOK
<1>1. CASE Observe(w)
  BY <1>1 DEF Observe, Decide, Goto
<1>2. CASE Generate(w)
  BY <1>2 DEF Generate, SetExternalName, Goto
<1>3. CASE ReadRoleID(w) \/ CreateRefused(w) \/ GenerateUnanswered(w)
  BY <1>3 DEF ReadRoleID, CreateRefused, GenerateUnanswered, Goto
<1>4. CASE Delete(w) \/ CallRefused(w)
  BY <1>4 DEF Delete, CallRefused, Goto
<1>5. CASE SecretUnread(w)
  BY <1>5 DEF SecretUnread, Decide, Goto
<1>. QED
  BY <1>1, <1>2, <1>3, <1>4, <1>5 DEF ControllerStep, ControllerFault

\* Copies of the latest version stay what the API server stores, and nothing is
\* done for a resource without a finalizer.
LEMMA CopiesStep ==
  ASSUME TypeOK, CopiesAgree, Untouched, [Next]_vars
  PROVE  CopiesAgree' /\ Untouched'
<1>. USE DEF TypeOK
<1>1. CASE \E w \in Workers : Managing(w)
  BY <1>1, ReconcilerCopies, ReconcilerUntouched DEF Managing
<1>2. ASSUME NEW w \in Workers, ControllerStep(w) \/ ControllerFault(w)
      PROVE  CopiesAgree' /\ Untouched'
  <2>1. CopiesAgree'
    BY <1>2, ControllerFrame, ControllerCopies DEF Reading
  <2>2. Untouched'
    BY <1>2, ControllerFrame, ControllerUntouched DEF Before
  <2>. QED  BY <2>1, <2>2
<1>3. CASE User
  BY <1>3, UserCopies, UserUntouched DEF User
<1>4. CASE \E id \in Ids : Expire(id)
  BY <1>4 DEF Expire, managedVars, CopiesAgree, Untouched
<1>5. CASE UNCHANGED vars
  BY <1>5 DEF vars, managedVars, CopiesAgree, Untouched
<1>. QED  BY <1>1, <1>2, <1>3, <1>4, <1>5 DEF Next

\* External names are those of credentials this provider generated.
LEMMA NamesStep ==
  ASSUME TypeOK, NamesGenerated, [Next]_vars
  PROVE  NamesGenerated'
<1>. USE DEF TypeOK, ManagedTypeOK, NamesGenerated, NewObject, Object
<1>1. CASE \E w \in Workers : Managing(w)
  <2>1. ExternalNames' \subseteq ExternalNames \cup {NoId} /\ generated' = generated
    BY <1>1, ReconcilerRecords DEF Managing
  <2>2. ExternalNames \subseteq generated \cup {NoId}
    BY DEF ExternalNames
  <2>3. ExternalNames' \subseteq generated \cup {NoId}
    BY <2>1, <2>2
  <2>4. /\ api'.name \in ExternalNames'
        /\ \A v \in Workers : cache'[v].name \in ExternalNames' /\ mr'[v].name \in ExternalNames'
    BY DEF ExternalNames
  <2>. QED  BY <2>1, <2>3, <2>4
<1>2. ASSUME NEW w \in Workers, ControllerStep(w) \/ ControllerFault(w)
      PROVE  NamesGenerated'
  <2>1. CASE Observe(w)
    BY <2>1 DEF Observe, Decide, Goto
  <2>2. CASE Generate(w)
    <3>1. PICK id \in Ids :
             /\ generated' = generated \cup {id}
             /\ mr' = [mr EXCEPT ![w] = [mr[w] EXCEPT !.name = id]]
      BY <2>2 DEF Generate, SetExternalName
    <3>2. IsFiniteSet(generated')
      BY <3>1, FS_AddElement
    <3>3. \A v \in Workers : mr'[v].name \in {mr[v].name, id}
      BY <3>1
    <3>. QED  BY <2>2, <3>1, <3>2, <3>3 DEF Generate
  <2>3. CASE ReadRoleID(w)
    BY <2>3 DEF ReadRoleID, Goto
  <2>4. CASE CreateRefused(w)
    BY <2>4 DEF CreateRefused, Goto
  <2>5. CASE Delete(w)
    BY <2>5 DEF Delete, Goto
  <2>6. CASE CallRefused(w)
    BY <2>6 DEF CallRefused, Goto
  <2>7. CASE GenerateUnanswered(w)
    <3>1. PICK id \in Ids : generated' = generated \cup {id}
      BY <2>7 DEF GenerateUnanswered
    <3>2. IsFiniteSet(generated')
      BY <3>1, FS_AddElement
    <3>. QED  BY <2>7, <3>1, <3>2 DEF GenerateUnanswered
  <2>8. CASE SecretUnread(w)
    BY <2>8 DEF SecretUnread, Decide, Goto
  <2>. QED
    BY <1>2, <2>1, <2>2, <2>3, <2>4, <2>5, <2>6, <2>7, <2>8
    DEF ControllerStep, ControllerFault
<1>3. CASE User
  BY <1>3 DEF User, UserStep, RequestDelete, DeleteSecret
<1>4. CASE \E id \in Ids : Expire(id)
  BY <1>4 DEF Expire, managedVars
<1>5. CASE UNCHANGED vars
  BY <1>5 DEF vars, managedVars
<1>. QED  BY <1>1, <1>2, <1>3, <1>4, <1>5 DEF Next

\* A name found not to work does not come to work again.
LEMMA AbsentStep ==
  ASSUME TypeOK, CopiesAgree, NamesGenerated, AbsentIsDead, [Next]_vars
  PROVE  AbsentIsDead'
<1>. USE DEF TypeOK, ManagedTypeOK, CopiesAgree, NamesGenerated, AbsentIsDead,
            Absent, NewObject, Object, Reading
<1>1. ASSUME NEW w \in Workers, Managing(w) PROVE AbsentIsDead'
  <2>1. CASE Reconcile(w)
    BY <1>1, <2>1 DEF Managing, Reconcile, Goto
  <2>2. CASE AddFinalizer(w)
    <3>1. CASE mr[w].finalizer
      BY <1>1, <2>2, <3>1 DEF Managing, AddFinalizer, Goto
    <3>2. CASE ~mr[w].finalizer
      BY <1>1, <2>2, <3>2 DEF Managing, AddFinalizer, Store, Goto
    <3>. QED  BY <3>1, <3>2
  <2>3. CASE MarkCreatePending(w)
    BY <1>1, <2>3 DEF Managing, MarkCreatePending, Store, Goto, CountOverride
  <2>4. CASE RemoveFinalizer(w)
    BY <1>1, <2>4
    DEF Managing, RemoveFinalizer, Store, Finish, Goto, CountOverride
  <2>5. CASE Conflict(w)
    BY <1>1, <2>5 DEF Managing, Conflict, Finish, Goto
  <2>6. CASE SaveAnnotations(w)
    BY <1>1, <2>6 DEF Managing, SaveAnnotations, Store, Goto
  <2>7. CASE PublishConnection(w)
    BY <1>1, <2>7 DEF Managing, PublishConnection, Goto
  <2>8. CASE SaveStatus(w)
    BY <1>1, <2>8 DEF Managing, SaveStatus, Store, Finish, Goto
  <2>9. CASE StatusConflict(w)
    BY <1>1, <2>9 DEF Managing, StatusConflict, Finish, Goto
  <2>10. CASE LoseAnnotations(w)
    BY <1>1, <2>10 DEF Managing, LoseAnnotations, Goto
  <2>11. CASE LosePublication(w)
    BY <1>1, <2>11 DEF Managing, LosePublication, Goto
  <2>12. CASE Abort(w)
    BY <1>1, <2>12 DEF Managing, Abort, Finish, Goto
  <2>13. CASE SyncCache(w)
    BY <1>1, <2>13 DEF Managing, SyncCache
  <2>. QED
    BY <1>1, <2>1, <2>2, <2>3, <2>4, <2>5, <2>6, <2>7, <2>8, <2>9, <2>10,
       <2>11, <2>12, <2>13
    DEF Managing, ReconcilerStep, ReconcilerFault
<1>2. ASSUME NEW w \in Workers, ControllerStep(w) \/ ControllerFault(w)
      PROVE  AbsentIsDead'
  <2>1. CASE Observe(w)
    <3>1. UNCHANGED <<api, mr, live>>
      BY <2>1 DEF Observe
    <3>2. Accessor(mr[w], conn) \notin live => mr[w].name \notin live
      BY ManagedAssumption DEF Accessor, IdOrNone
    <3>3. (\/ pc'[w] = "unfinalize"
           \/ pc'[w] = "finalizer" /\ plan'[w] = "pend")
             => Accessor(mr[w], conn) \notin live
      BY <2>1 DEF Observe, Decide, Goto, UpToDate
    <3>4. pc'[w] \in {"delete", "unfinalize", "finalizer"}
      BY <2>1 DEF Observe, Decide, Goto
    <3>5. \A v \in Workers \ {w} : pc'[v] = pc[v] /\ plan'[v] = plan[v]
      BY <2>1 DEF Observe, Decide, Goto
    <3>. QED  BY <3>1, <3>2, <3>3, <3>4, <3>5
  <2>2. CASE Generate(w)
    <3>1. PICK id \in Ids \ generated :
             /\ live' = live \cup {id}
             /\ mr' = [mr EXCEPT ![w] = [mr[w] EXCEPT !.name = id]]
      BY <2>2 DEF Generate, SetExternalName
    <3>2. api.name # id /\ \A v \in Workers : mr[v].name # id
      BY <3>1, ManagedAssumption
    <3>3. /\ \A v \in Workers \ {w} : mr'[v] = mr[v] /\ pc'[v] = pc[v]
          /\ pc'[w] = "readrole"
          /\ UNCHANGED <<api, plan>>
      BY <2>2, <3>1 DEF Generate, Goto
    <3>. QED  BY <3>1, <3>2, <3>3
  <2>3. CASE ReadRoleID(w)
    BY <2>3 DEF ReadRoleID, Goto
  <2>4. CASE CreateRefused(w)
    BY <2>4 DEF CreateRefused, Goto
  <2>5. CASE Delete(w)
    BY <2>5 DEF Delete, Goto
  <2>6. CASE CallRefused(w)
    BY <2>6 DEF CallRefused, Goto
  <2>7. CASE GenerateUnanswered(w)
    <3>1. PICK id \in Ids \ generated : live' = live \cup {id}
      BY <2>7 DEF GenerateUnanswered
    <3>2. api.name # id /\ \A v \in Workers : mr[v].name # id
      BY <3>1, ManagedAssumption
    <3>3. /\ \A v \in Workers \ {w} : pc'[v] = pc[v]
          /\ pc'[w] = "annotateFailed"
          /\ UNCHANGED <<api, mr, plan>>
      BY <2>7 DEF GenerateUnanswered, Goto
    <3>. QED  BY <3>1, <3>2, <3>3
  <2>8. CASE SecretUnread(w)
    <3>1. mr[w].name \notin live
      BY <2>8, ManagedAssumption DEF SecretUnread
    <3>2. \A v \in Workers \ {w} : pc'[v] = pc[v] /\ plan'[v] = plan[v]
      BY <2>8 DEF SecretUnread, Decide, Goto
    <3>3. UNCHANGED <<api, mr, live>>
      BY <2>8 DEF SecretUnread
    <3>. QED  BY <3>1, <3>2, <3>3
  <2>. QED
    BY <1>2, <2>1, <2>2, <2>3, <2>4, <2>5, <2>6, <2>7, <2>8
    DEF ControllerStep, ControllerFault
<1>3. CASE User
  BY <1>3 DEF User, UserStep, RequestDelete, DeleteSecret
<1>4. CASE \E id \in Ids : Expire(id)
  BY <1>4 DEF Expire, managedVars
<1>5. CASE UNCHANGED vars
  BY <1>5 DEF vars, managedVars
<1>. QED  BY <1>1, <1>2, <1>3, <1>4, <1>5 DEF Next

----------------------------------------------------------------------------
(***************************************************************************)
(* The ledger of lost credentials.                                         *)
(***************************************************************************)

\* What is counted is finite, even if Ids is not.
LEMMA OrphansFinite == NamesGenerated => IsFiniteSet(Orphans)
  BY FS_Subset DEF NamesGenerated, Orphans

\* There are finitely many processes.
LEMMA CreatorsFinite == IsFiniteSet(Creators)
  BY FS_Subset, ManagedAssumption DEF Creators

\* No step that leaves alone who creates what and what the resource records
\* costs anything.
LEMMA QuietStep ==
  ASSUME TypeOK, TypeOK', NamesGenerated, Ledger,
         live' \subseteq live, generated' = generated,
         api'.present = api.present, api'.pending = api.pending,
         api'.name = api.name,
         Creators' = Creators, \A w \in Creators : mr'[w].name = mr[w].name,
         faults <= faults', overrides' = overrides
  PROVE  Ledger'
<1>1. InHand' = InHand
  BY DEF InHand, Creators
<1>2. Recorded' = Recorded
  BY DEF Recorded
<1>3. Orphans' \subseteq Orphans
  BY <1>1, <1>2 DEF Orphans
<1>4. Pledged' = Pledged
  BY DEF Pledged
<1>5. /\ Cardinality(Orphans) \in Nat
      /\ Cardinality(Orphans') \in Nat
      /\ Cardinality(Orphans') <= Cardinality(Orphans)
  BY <1>3, OrphansFinite, NoMore
<1>6. Cardinality(Creators) \in Nat
  BY CreatorsFinite, FS_CardinalityType
<1>7. /\ faults \in Nat /\ faults' \in Nat /\ overrides \in Nat
      /\ faults <= faults' /\ overrides' = overrides
  BY ManagedAssumption DEF TypeOK, ManagedTypeOK
<1>. QED  BY <1>4, <1>5, <1>6, <1>7 DEF Ledger

\* The reconciler, its failures and the cache.
LEMMA ManagingLedger ==
  ASSUME IInv, TypeOK', NEW w \in Workers, Managing(w)
  PROVE  Ledger'
<1>0. /\ TypeOK /\ History /\ Ledger
      /\ UNCHANGED <<live, generated>>
      /\ IsFiniteSet(Orphans) /\ IsFiniteSet(Creators)
      /\ faults \in Nat /\ overrides \in Nat
      /\ faults' \in Nat /\ overrides' \in Nat
  BY OrphansFinite, CreatorsFinite, ManagedAssumption
  DEF IInv, History, Managing, TypeOK, ManagedTypeOK
<1>1. CASE MarkCreatePending(w)
  <2>1. mr[w] = api /\ api.present /\ api.name \notin live
    BY <1>0, <1>1
    DEF MarkCreatePending, History, CopiesAgree, Reading, AbsentIsDead, Absent
  <2>2. api'.present = api.present /\ api'.name = api.name /\ api'.pending
    BY <1>0, <1>1 DEF MarkCreatePending, Store, TypeOK, ManagedTypeOK, Object
  <2>3. Creators' = Creators \cup {w}
    BY <1>0, <1>1
    DEF MarkCreatePending, Goto, Creators, Creating, TypeOK, ManagedTypeOK
  <2>4. \A v \in Creators : mr'[v].name = mr[v].name
    BY <1>0, <1>1
    DEF MarkCreatePending, TypeOK, ManagedTypeOK, Object, Creators, Creating
  <2>5. Orphans' \subseteq Orphans
    BY <1>0, <2>2, <2>3, <2>4 DEF Orphans, InHand, Recorded, Creators
  <2>6. faults' = faults /\ Pledged'
    BY <1>1, <2>1, <2>2, <2>3 DEF MarkCreatePending, Pledged
  <2>7. IF Pledged THEN overrides' = overrides + 1 ELSE overrides <= overrides'
    BY <1>0, <1>1, <2>1 DEF MarkCreatePending, CountOverride, Pledged
  <2>8. /\ Cardinality(Orphans') <= Cardinality(Orphans)
        /\ Cardinality(Orphans) \in Nat /\ Cardinality(Orphans') \in Nat
    BY <1>0, <2>5, NoMore
  <2>9. /\ Cardinality(Creators') <= Cardinality(Creators) + 1
        /\ Cardinality(Creators) \in Nat /\ Cardinality(Creators') \in Nat
    BY <1>0, <2>3, AtMostOneMore
  <2>. QED  BY <1>0, <2>6, <2>7, <2>8, <2>9 DEF Ledger
<1>2. CASE RemoveFinalizer(w)
  <2>1. mr[w] = api /\ api.present /\ api.name \notin live
    BY <1>0, <1>2
    DEF RemoveFinalizer, History, CopiesAgree, Reading, AbsentIsDead, Absent
  <2>2. Creators' = Creators /\ \A v \in Creators : mr'[v] = mr[v]
    BY <1>0, <1>2
    DEF RemoveFinalizer, Finish, Goto, Creators, Creating, TypeOK, ManagedTypeOK
  <2>3. Orphans' \subseteq Orphans
    BY <1>0, <2>1, <2>2 DEF Orphans, InHand, Recorded, Creators
  <2>4. faults' = faults
    BY <1>2 DEF RemoveFinalizer
  <2>5. IF Pledged THEN overrides' = overrides + 1 ELSE overrides <= overrides'
    BY <1>0, <1>2, <2>1 DEF RemoveFinalizer, CountOverride, Pledged
  <2>6. /\ Cardinality(Orphans') <= Cardinality(Orphans)
        /\ Cardinality(Orphans) \in Nat /\ Cardinality(Orphans') \in Nat
    BY <1>0, <2>3, NoMore
  <2>7. Cardinality(Creators) \in Nat /\ Creators' = Creators
    BY <1>0, <2>2, FS_CardinalityType
  <2>. QED  BY <1>0, <2>4, <2>5, <2>6, <2>7 DEF Ledger
<1>3. CASE SaveAnnotations(w)
  <2>1. w \in Creators /\ Creators' = Creators \ {w}
    BY <1>0, <1>3
    DEF SaveAnnotations, Goto, Creators, Creating, TypeOK, ManagedTypeOK
  <2>2. api' = [api EXCEPT !.name = mr[w].name, !.pending = FALSE]
    BY <1>3 DEF SaveAnnotations, Store
  <2>3. api'.present = api.present /\ api'.name = mr[w].name /\ ~api'.pending
    BY <1>0, <2>2 DEF TypeOK, ManagedTypeOK, Object
  <2>4. \A v \in Creators' : mr'[v] = mr[v]
    BY <1>0, <1>3, <2>1 DEF SaveAnnotations, TypeOK, ManagedTypeOK, Creators
  <2>5. InHand \subseteq InHand' \cup Recorded'
    BY <1>3, <2>1, <2>3, <2>4 DEF SaveAnnotations, InHand, Recorded, Creators
  <2>6. Orphans' \subseteq Orphans \cup (live \cap {api.name})
    BY <1>0, <2>5 DEF Orphans, Recorded
  <2>7. overrides' = overrides /\ faults' \in {faults, faults + 1} /\ ~Pledged'
    BY <1>3, <2>3 DEF SaveAnnotations, Pledged, Fault
  <2>8. /\ Cardinality(Creators') = Cardinality(Creators) - 1
        /\ Cardinality(Creators) \in Nat /\ Cardinality(Creators') \in Nat
    BY <1>0, <2>1, OneLess
  <2>9. CASE ~Pledged
    <3>1. Orphans' \subseteq Orphans \cup {api.name}
      BY <2>6
    <3>2. /\ Cardinality(Orphans') <= Cardinality(Orphans) + 1
          /\ Cardinality(Orphans) \in Nat /\ Cardinality(Orphans') \in Nat
      BY <1>0, <3>1, AtMostOneMore
    <3>. QED  BY <1>0, <2>7, <2>8, <2>9, <3>2 DEF Ledger
  <2>10. CASE Pledged
    <3>1. Orphans' \subseteq Orphans
      BY <1>0, <2>6, <2>10 DEF Pledged, History, AbsentIsDead
    <3>2. /\ Cardinality(Orphans') <= Cardinality(Orphans)
          /\ Cardinality(Orphans) \in Nat /\ Cardinality(Orphans') \in Nat
      BY <1>0, <3>1, NoMore
    <3>. QED  BY <1>0, <2>7, <2>8, <2>10, <3>2 DEF Ledger
  <2>. QED  BY <2>9, <2>10
<1>4. ASSUME w \in Creators,
             UNCHANGED <<api, mr, overrides>>,
             Creators' = Creators \ {w},
             IF api.present THEN faults' = faults + 1 ELSE faults' = faults
      PROVE  Ledger'
  <2>1. InHand \subseteq InHand' \cup {mr[w].name} /\ Recorded' = Recorded
    BY <1>4 DEF InHand, Recorded, Creators
  <2>2. Orphans' \subseteq Orphans \cup {mr[w].name}
    BY <1>0, <2>1 DEF Orphans
  <2>3. /\ Cardinality(Orphans') <= Cardinality(Orphans) + 1
        /\ Cardinality(Orphans) \in Nat /\ Cardinality(Orphans') \in Nat
    BY <1>0, <2>2, AtMostOneMore
  <2>4. /\ Cardinality(Creators') = Cardinality(Creators) - 1
        /\ Cardinality(Creators) \in Nat /\ Cardinality(Creators') \in Nat
    BY <1>0, <1>4, OneLess
  <2>5. IF Pledged THEN faults' = faults + 1
                   ELSE faults <= faults' /\ ~Pledged'
    BY <1>0, <1>4, <2>4 DEF Pledged
  <2>. QED  BY <1>0, <1>4, <2>3, <2>4, <2>5 DEF Ledger
<1>5. CASE LoseAnnotations(w)
  <2>1. w \in Creators /\ Creators' = Creators \ {w}
    BY <1>0, <1>5
    DEF LoseAnnotations, Goto, Creators, Creating, TypeOK, ManagedTypeOK
  <2>. QED  BY <1>4, <1>5, <2>1 DEF LoseAnnotations, Fault
<1>6. CASE Abort(w) /\ w \in Creators
  <2>1. Creators' = Creators \ {w} /\ \A v \in Creators' : mr'[v] = mr[v]
    BY <1>0, <1>6
    DEF Abort, Finish, Goto, Creators, Creating, TypeOK, ManagedTypeOK
  <2>2. InHand \subseteq InHand' \cup {mr[w].name} /\ Recorded' = Recorded
    BY <1>6, <2>1 DEF Abort, InHand, Recorded, Creators
  <2>3. Orphans' \subseteq Orphans \cup {mr[w].name}
    BY <1>0, <2>2 DEF Orphans
  <2>4. /\ Cardinality(Orphans') <= Cardinality(Orphans) + 1
        /\ Cardinality(Orphans) \in Nat /\ Cardinality(Orphans') \in Nat
    BY <1>0, <2>3, AtMostOneMore
  <2>5. /\ Cardinality(Creators') = Cardinality(Creators) - 1
        /\ Cardinality(Creators) \in Nat /\ Cardinality(Creators') \in Nat
    BY <1>0, <1>6, <2>1, OneLess
  <2>6. faults' = faults + 1 /\ overrides' = overrides /\ (Pledged' => Pledged)
    BY <1>6, <2>1 DEF Abort, Fault, Pledged
  <2>. QED  BY <1>0, <2>4, <2>5, <2>6 DEF Ledger
<1>7. ASSUME Creators' = Creators, \A v \in Creators : mr'[v] = mr[v],
             api'.present = api.present, api'.pending = api.pending,
             api'.name = api.name,
             faults <= faults', overrides' = overrides
      PROVE  Ledger'
  BY <1>0, <1>7, QuietStep DEF History
<1>8. CASE Abort(w) /\ w \notin Creators
  <2>1. Creators' = Creators /\ \A v \in Creators : mr'[v] = mr[v]
    BY <1>0, <1>8
    DEF Abort, Finish, Goto, Creators, Creating, TypeOK, ManagedTypeOK
  <2>. QED  BY <1>0, <1>7, <1>8, <2>1 DEF Abort, Fault
<1>9. CASE Reconcile(w)
  <2>1. Creators' = Creators /\ \A v \in Creators : mr'[v] = mr[v]
    BY <1>0, <1>9
    DEF Reconcile, Goto, Creators, Creating, TypeOK, ManagedTypeOK
  <2>. QED  BY <1>0, <1>7, <1>9, <2>1 DEF Reconcile
<1>10. CASE AddFinalizer(w)
  <2>1. Creators' = Creators /\ \A v \in Creators : mr'[v] = mr[v]
    <3>1. plan[w] \in {"pend", "status"}
      BY <1>0 DEF History, PlansOK, TypeOK, ManagedTypeOK
    <3>2. \A v \in Workers : pc'[v] = IF v = w THEN plan[w] ELSE pc[v]
      BY <1>0, <1>10 DEF AddFinalizer, Goto, TypeOK, ManagedTypeOK
    <3>3. \A v \in Workers : Creating(v)' <=> Creating(v)
      BY <1>10, <3>1, <3>2 DEF AddFinalizer, Creating
    <3>4. \A v \in Workers \ {w} : mr'[v] = mr[v]
      BY <1>0, <1>10 DEF AddFinalizer, TypeOK, ManagedTypeOK
    <3>. QED  BY <1>10, <3>3, <3>4 DEF AddFinalizer, Creators, Creating
  <2>2. /\ api'.present = api.present /\ api'.pending = api.pending
        /\ api'.name = api.name
    BY <1>0, <1>10 DEF AddFinalizer, Store, TypeOK, ManagedTypeOK, Object
  <2>. QED  BY <1>0, <1>7, <1>10, <2>1, <2>2 DEF AddFinalizer
<1>11. CASE SaveStatus(w)
  <2>1. Creators' = Creators /\ \A v \in Creators : mr'[v] = mr[v]
    BY <1>0, <1>11
    DEF SaveStatus, Finish, Goto, Creators, Creating, TypeOK, ManagedTypeOK
  <2>2. /\ api'.present = api.present /\ api'.pending = api.pending
        /\ api'.name = api.name
    BY <1>0, <1>11 DEF SaveStatus, Store, TypeOK, ManagedTypeOK, Object
  <2>. QED  BY <1>0, <1>7, <1>11, <2>1, <2>2 DEF SaveStatus
<1>12. CASE Conflict(w) \/ StatusConflict(w)
  <2>1. Creators' = Creators /\ \A v \in Creators : mr'[v] = mr[v]
    BY <1>0, <1>12
    DEF Conflict, StatusConflict, Finish, Goto, Creators, Creating, TypeOK,
        ManagedTypeOK
  <2>. QED  BY <1>0, <1>7, <1>12, <2>1 DEF Conflict, StatusConflict
<1>13. CASE PublishConnection(w) \/ LosePublication(w)
  <2>1. Creators' = Creators
    BY <1>0, <1>13
    DEF PublishConnection, LosePublication, Goto, Creators, Creating, TypeOK,
        ManagedTypeOK
  <2>. QED
    BY <1>0, <1>7, <1>13, <2>1 DEF PublishConnection, LosePublication, Fault
<1>14. CASE SyncCache(w)
  <2>1. Creators' = Creators
    BY <1>14 DEF SyncCache, Creators, Creating
  <2>. QED  BY <1>0, <1>7, <1>14, <2>1 DEF SyncCache
<1>. QED
  BY <1>1, <1>2, <1>3, <1>5, <1>6, <1>8, <1>9, <1>10, <1>11, <1>12, <1>13, <1>14
  DEF Managing, ReconcilerStep, ReconcilerFault

\* The controller's own steps.
LEMMA ControllerLedger ==
  ASSUME IInv, TypeOK', NEW w \in Workers,
         ControllerStep(w) \/ ControllerFault(w)
  PROVE  Ledger'
<1>0. /\ TypeOK /\ History /\ Ledger
      /\ IsFiniteSet(Orphans) /\ IsFiniteSet(Creators)
      /\ faults \in Nat /\ overrides \in Nat
      /\ faults' \in Nat /\ overrides' \in Nat
  BY OrphansFinite, CreatorsFinite, ManagedAssumption
  DEF IInv, History, TypeOK, ManagedTypeOK
<1>1. CASE Generate(w)
  <2>1. PICK id \in Ids \ generated :
           /\ live' = live \cup {id}
           /\ generated' = generated \cup {id}
           /\ mr' = [mr EXCEPT ![w] = [mr[w] EXCEPT !.name = id]]
    BY <1>1 DEF Generate, SetExternalName
  <2>2. w \in Creators /\ Creators' = Creators
    BY <1>0, <1>1 DEF Generate, Goto, Creators, Creating, TypeOK, ManagedTypeOK
  <2>3. mr[w].name \notin live
    BY <1>0, <1>1 DEF Generate, History, AbsentIsDead, Absent
  <2>4. /\ mr'[w].name = id
        /\ \A v \in Workers \ {w} : mr'[v] = mr[v]
    BY <1>0, <2>1 DEF TypeOK, ManagedTypeOK, Object
  <2>5. id \in InHand' /\ InHand \subseteq InHand' \cup {mr[w].name}
    BY <2>2, <2>4 DEF InHand, Creators
  <2>6. Recorded' = Recorded
    BY <1>1 DEF Generate, Recorded
  <2>7. Orphans' \subseteq Orphans
    BY <2>1, <2>3, <2>5, <2>6 DEF Orphans
  <2>8. /\ Cardinality(Orphans') <= Cardinality(Orphans)
        /\ Cardinality(Orphans) \in Nat /\ Cardinality(Orphans') \in Nat
    BY <1>0, <2>7, NoMore
  <2>9. UNCHANGED <<faults, overrides>> /\ Pledged' = Pledged
    BY <1>1, <2>2 DEF Generate, Pledged
  <2>10. Cardinality(Creators) \in Nat
    BY <1>0, FS_CardinalityType
  <2>. QED  BY <1>0, <2>2, <2>8, <2>9, <2>10 DEF Ledger
<1>2. CASE GenerateUnanswered(w)
  <2>1. PICK id \in Ids :
           /\ live' = live \cup {id}
           /\ generated' = generated \cup {id}
    BY <1>2 DEF GenerateUnanswered
  <2>2. Creators' = Creators
    BY <1>0, <1>2
    DEF GenerateUnanswered, Goto, Creators, Creating, TypeOK, ManagedTypeOK
  <2>3. InHand' = InHand /\ Recorded' = Recorded
    BY <1>2, <2>2 DEF GenerateUnanswered, InHand, Recorded, Creators
  <2>4. Orphans' \subseteq Orphans \cup {id}
    BY <2>1, <2>3 DEF Orphans
  <2>5. /\ Cardinality(Orphans') <= Cardinality(Orphans) + 1
        /\ Cardinality(Orphans) \in Nat /\ Cardinality(Orphans') \in Nat
    BY <1>0, <2>4, AtMostOneMore
  <2>6. faults' = faults + 1 /\ overrides' = overrides /\ Pledged' = Pledged
    BY <1>2, <2>2 DEF GenerateUnanswered, Fault, Pledged
  <2>7. Cardinality(Creators) \in Nat
    BY <1>0, FS_CardinalityType
  <2>. QED  BY <1>0, <2>2, <2>5, <2>6, <2>7 DEF Ledger
<1>3. CASE \/ Observe(w) \/ ReadRoleID(w) \/ CreateRefused(w)
           \/ Delete(w) \/ CallRefused(w)
  <2>1. Creators' = Creators
    BY <1>0, <1>3
    DEF Observe, Decide, ReadRoleID, CreateRefused, Delete, CallRefused, Goto,
        Creators, Creating, TypeOK, ManagedTypeOK
  <2>2. /\ UNCHANGED <<api, mr, generated, faults, overrides>>
        /\ live' \subseteq live
    BY <1>3 DEF Observe, ReadRoleID, CreateRefused, Delete, CallRefused
  <2>. QED  BY <1>0, <2>1, <2>2, QuietStep DEF History
<1>4. CASE SecretUnread(w)
  <2>1. Creators' = Creators
    BY <1>0, <1>4
    DEF SecretUnread, Decide, Goto, Creators, Creating, TypeOK, ManagedTypeOK
  <2>2. /\ UNCHANGED <<api, mr, live, generated, overrides>>
        /\ faults <= faults'
    BY <1>0, <1>4 DEF SecretUnread, Fault
  <2>. QED  BY <1>0, <2>1, <2>2, QuietStep DEF History
<1>. QED  BY <1>1, <1>2, <1>3, <1>4 DEF ControllerStep, ControllerFault

\* Every step keeps the ledger.
LEMMA LedgerStep == IInv /\ TypeOK' /\ [Next]_vars => Ledger'
<1>. SUFFICES ASSUME IInv, TypeOK', [Next]_vars
              PROVE  Ledger'
  OBVIOUS
<1>0. TypeOK /\ History /\ Ledger /\ IsFiniteSet(Orphans) /\ IsFiniteSet(Creators)
  BY OrphansFinite, CreatorsFinite DEF IInv, History
<1>1. CASE \E w \in Workers : Managing(w)
  BY <1>1, ManagingLedger
<1>2. CASE \E w \in Workers : ControllerStep(w) \/ ControllerFault(w)
  BY <1>2, ControllerLedger
<1>3. faults \in Nat /\ overrides \in Nat
  BY <1>0, ManagedAssumption DEF TypeOK, ManagedTypeOK
<1>4. CASE User /\ RequestDelete
  <2>1. Creators' = Creators /\ InHand' = InHand
    BY <1>4 DEF RequestDelete, Creators, Creating, InHand
  <2>2. UNCHANGED <<live, generated, faults, overrides>>
    BY <1>4 DEF User, RequestDelete
  <2>3. CASE api.finalizer
    <3>1. /\ api'.present = api.present /\ api'.pending = api.pending
          /\ api'.name = api.name
      BY <1>0, <1>4, <2>3 DEF RequestDelete, TypeOK, ManagedTypeOK, Object
    <3>. QED
      BY <1>0, <1>3, <1>4, <2>1, <2>2, <3>1, QuietStep
      DEF RequestDelete, History
  <2>4. CASE ~api.finalizer
    <3>1. api.name = NoId /\ ~Pledged
      BY <1>0, <1>4, <2>4
      DEF RequestDelete, History, Untouched, NewObject, Pledged
    <3>2. NoId \notin live
      BY <1>0, ManagedAssumption DEF TypeOK
    <3>3. ~Pledged'
      BY <1>0, <1>4, <2>4
      DEF RequestDelete, Pledged, TypeOK, ManagedTypeOK, Object
    <3>4. Orphans' \subseteq Orphans
      BY <2>1, <2>2, <3>1, <3>2 DEF Orphans, Recorded
    <3>5. /\ Cardinality(Orphans') <= Cardinality(Orphans)
          /\ Cardinality(Orphans) \in Nat /\ Cardinality(Orphans') \in Nat
      BY <1>0, <3>4, NoMore
    <3>6. Cardinality(Creators) \in Nat
      BY <1>0, FS_CardinalityType
    <3>. QED  BY <1>0, <1>3, <2>1, <2>2, <3>1, <3>3, <3>5, <3>6 DEF Ledger
  <2>. QED  BY <2>3, <2>4
<1>5. ASSUME UNCHANGED <<api, mr, pc, generated, faults, overrides>>,
             live' \subseteq live
      PROVE  Ledger'
  <2>1. Creators' = Creators
    BY <1>5 DEF Creators, Creating
  <2>. QED  BY <1>0, <1>3, <1>5, <2>1, QuietStep DEF History
<1>6. CASE User /\ DeleteSecret
  BY <1>5, <1>6 DEF User, DeleteSecret
<1>7. CASE \E id \in Ids : Expire(id)
  BY <1>5, <1>7 DEF Expire, managedVars
<1>8. CASE UNCHANGED vars
  BY <1>5, <1>8 DEF vars, managedVars
<1>. QED  BY <1>1, <1>2, <1>4, <1>6, <1>7, <1>8 DEF Next, User, UserStep

----------------------------------------------------------------------------
\* The inductive invariant holds at the start ...
LEMMA InvInit == Init => IInv
<1>. SUFFICES ASSUME Init PROVE IInv
  OBVIOUS
<1>1. TypeOK /\ PlansOK
  BY TypeInit
<1>2. PICK object \in {NewObject, [NewObject EXCEPT !.finalizer = TRUE]} :
         ManagedInit(object)
  BY DEF Init
<1>3. object.present /\ ~object.pending /\ object.name = NoId
  BY DEF NewObject
<1>4. CopiesAgree /\ AbsentIsDead
  BY <1>2, <1>3
  DEF ManagedInit, CopiesAgree, Reading, AbsentIsDead, Absent
<1>5. NamesGenerated
  BY <1>2, <1>3, FS_EmptySet DEF Init, ManagedInit, NamesGenerated
<1>6. Untouched
  BY <1>2 DEF ManagedInit, Untouched, Before, NewObject
<1>7. Creators = {} /\ Orphans = {} /\ faults = 0 /\ overrides = 0
  BY <1>2 DEF Init, ManagedInit, Creators, Creating, Orphans
<1>8. Ledger
  BY <1>7, FS_EmptySet DEF Ledger, Pledged
<1>. QED  BY <1>1, <1>4, <1>5, <1>6, <1>8 DEF IInv, History

\* ... is kept by every step ...
LEMMA InvStep == IInv /\ [Next]_vars => IInv'
  BY TypeStep, CopiesStep, NamesStep, AbsentStep, LedgerStep
  DEF IInv, History

\* ... and bounds the credentials that are lost.
LEMMA InvBounds == IInv => LeaksAccounted
<1>. SUFFICES ASSUME IInv PROVE LeaksAccounted
  OBVIOUS
<1>1. /\ Cardinality(Orphans) \in Nat /\ Cardinality(Creators) \in Nat
      /\ Cardinality(Creators) = 0 <=> Creators = {}
  BY OrphansFinite, CreatorsFinite, FS_CardinalityType, FS_EmptySet
  DEF IInv, History
<1>2. faults \in Nat /\ overrides \in Nat
  BY ManagedAssumption DEF IInv, TypeOK, ManagedTypeOK
<1>3. Pledged => Creators # {}
  BY DEF Pledged
<1>. QED  BY <1>1, <1>2, <1>3 DEF IInv, Ledger, LeaksAccounted

\* The inductive invariant is an invariant.
THEOREM InductiveInvariant == Spec => []IInv
  BY InvInit, InvStep, PTL DEF Spec

\* A working credential that nobody knows of is paid for, one to one, by an
\* infrastructure failure or by a reconcile that went ahead over a pending
\* creation, with any number of processes working on the resource at once
\* (approlesecretid.go:135-176, 265-284).
THEOREM LeaksBounded == Spec => []LeaksAccounted
  BY InductiveInvariant, InvBounds, PTL

----------------------------------------------------------------------------
(***************************************************************************)
(* The refinement: what a step does to the life of each credential.        *)
(***************************************************************************)

\* What the resource or a worker in the middle of a creation leads to.
Known == InHand \cup Recorded

\* The lives of the credentials, as Credentials sees them.
Lives == [id \in Ids \ Legacy |-> LifeOf(id)]

\* A step changes no life when the same working credentials are known.
LEMMA SameLives ==
  ASSUME UNCHANGED <<live, generated>>, Known' \cap live = Known \cap live
  PROVE  Lives' = Lives
<1>1. Orphans' = Orphans
  BY DEF Orphans, Known
<1>2. \A id \in Ids \ Legacy : LifeOf(id)' = LifeOf(id)
  BY <1>1 DEF LifeOf
<1>. QED  BY <1>2 DEF Lives

\* When at most x is forgotten and nothing is found again, at most x is lost.
LEMMA OneLost ==
  ASSUME UNCHANGED <<live, generated>>, NEW x,
         Known' \cap live \subseteq Known, Known \cap live \subseteq Known' \cup {x}
  PROVE  Lives' = Lives \/ \E id \in Ids \ Legacy : Abstract!Lose(id)
<1>1. Orphans \subseteq Orphans' /\ Orphans' \subseteq Orphans \cup {x}
  BY DEF Orphans, Known
<1>2. \A id \in Ids \ Legacy : id # x => LifeOf(id)' = LifeOf(id)
  BY <1>1 DEF LifeOf
<1>3. CASE x \in Ids \ Legacy /\ LifeOf(x)' # LifeOf(x)
  <2>1. LifeOf(x) = "held" /\ LifeOf(x)' = "lost"
    BY <1>1, <1>3 DEF LifeOf, Orphans
  <2>2. Abstract!Lose(x)
    BY <1>2, <1>3, <2>1 DEF Abstract!Lose, Abstract!Become
  <2>. QED  BY <1>3, <2>2
<1>4. CASE x \notin Ids \ Legacy \/ LifeOf(x)' = LifeOf(x)
  BY <1>2, <1>4 DEF Lives
<1>. QED  BY <1>3, <1>4

\* When x stops working and nothing else happens, its life ends.
LEMMA OneEnds ==
  ASSUME NEW x, live' = live \ {x}, generated' = generated, Known' = Known
  PROVE  Lives' = Lives \/ \E id \in Ids \ Legacy : Abstract!End(id)
<1>1. Orphans' = Orphans \ {x}
  BY DEF Orphans, Known
<1>2. \A id \in Ids \ Legacy : id # x => LifeOf(id)' = LifeOf(id)
  BY <1>1 DEF LifeOf
<1>3. CASE x \in Ids \ Legacy /\ x \in live \cap generated
  <2>1. LifeOf(x) \in {"held", "lost"} /\ LifeOf(x)' = "dead"
    BY <1>3 DEF LifeOf
  <2>2. Abstract!End(x)
    BY <1>2, <1>3, <2>1 DEF Abstract!End, Abstract!Become
  <2>. QED  BY <1>3, <2>2
<1>4. CASE ~(x \in Ids \ Legacy /\ x \in live \cap generated)
  <2>1. x \in Ids \ Legacy => LifeOf(x)' = LifeOf(x)
    BY <1>4 DEF LifeOf
  <2>. QED  BY <1>2, <2>1 DEF Lives
<1>. QED  BY <1>3, <1>4

\* The reconciler, its failures and the cache lose at most one credential.
LEMMA ManagingLives ==
  ASSUME IInv, NEW w \in Workers, Managing(w)
  PROVE  Lives' = Lives \/ \E id \in Ids \ Legacy : Abstract!Lose(id)
<1>0. /\ TypeOK /\ History
      /\ UNCHANGED <<live, generated>>
  BY DEF IInv, Managing
<1>. USE DEF TypeOK, ManagedTypeOK
<1>1. CASE MarkCreatePending(w)
  <2>1. mr[w] = api /\ mr[w].name \notin live
    BY <1>0, <1>1
    DEF MarkCreatePending, History, CopiesAgree, Reading, AbsentIsDead, Absent
  <2>2. api'.present = api.present /\ api'.name = api.name
    BY <1>0, <1>1 DEF MarkCreatePending, Store, Object
  <2>3. Creators' = Creators \cup {w}
    BY <1>0, <1>1 DEF MarkCreatePending, Goto, Creators, Creating
  <2>4. \A v \in Workers : mr'[v].name = mr[v].name
    BY <1>0, <1>1 DEF MarkCreatePending, Object
  <2>5. Known' = Known \cup {mr[w].name}
    BY <2>2, <2>3, <2>4 DEF Known, InHand, Recorded, Creators
  <2>. QED  BY <1>0, <2>1, <2>5, SameLives
<1>2. CASE RemoveFinalizer(w)
  <2>1. api.name \notin live
    BY <1>0, <1>2
    DEF RemoveFinalizer, History, CopiesAgree, Reading, AbsentIsDead, Absent
  <2>2. Creators' = Creators /\ \A v \in Creators : mr'[v] = mr[v]
    BY <1>0, <1>2 DEF RemoveFinalizer, Finish, Goto, Creators, Creating
  <2>3. Recorded' = {}
    BY <1>0, <1>2 DEF RemoveFinalizer, Store, Recorded, Object
  <2>4. InHand' = InHand
    BY <2>2 DEF InHand, Creators
  <2>. QED  BY <1>0, <2>1, <2>3, <2>4, SameLives DEF Known, Recorded
<1>3. CASE SaveAnnotations(w)
  <2>1. w \in Creators /\ Creators' = Creators \ {w}
    BY <1>0, <1>3 DEF SaveAnnotations, Goto, Creators, Creating
  <2>2. api' = [api EXCEPT !.name = mr[w].name, !.pending = FALSE]
    BY <1>3 DEF SaveAnnotations, Store
  <2>3. api'.present /\ api'.name = mr[w].name
    BY <1>0, <1>3, <2>2 DEF SaveAnnotations, Object
  <2>4. \A v \in Creators' : mr'[v] = mr[v]
    BY <1>0, <1>3, <2>1 DEF SaveAnnotations, Creators
  <2>5. InHand = InHand' \cup {mr[w].name}
    BY <2>1, <2>4 DEF InHand, Creators
  <2>6. Recorded' = {mr[w].name} /\ Recorded \subseteq {api.name}
    BY <2>3 DEF Recorded
  <2>. QED  BY <1>0, <2>5, <2>6, OneLost DEF Known
<1>4. ASSUME w \in Creators, Creators' = Creators \ {w}, api' = api,
             \A v \in Creators' : mr'[v] = mr[v]
      PROVE  Lives' = Lives \/ \E id \in Ids \ Legacy : Abstract!Lose(id)
  <2>1. InHand = InHand' \cup {mr[w].name}
    BY <1>4 DEF InHand, Creators
  <2>2. Recorded' = Recorded
    BY <1>4 DEF Recorded
  <2>. QED  BY <1>0, <2>1, <2>2, OneLost DEF Known
<1>5. CASE LoseAnnotations(w)
  <2>1. w \in Creators /\ Creators' = Creators \ {w}
    BY <1>0, <1>5 DEF LoseAnnotations, Goto, Creators, Creating
  <2>. QED  BY <1>4, <1>5, <2>1 DEF LoseAnnotations
<1>6. CASE Abort(w) /\ w \in Creators
  <2>1. Creators' = Creators \ {w} /\ \A v \in Creators' : mr'[v] = mr[v]
    BY <1>0, <1>6 DEF Abort, Finish, Goto, Creators, Creating
  <2>. QED  BY <1>4, <1>6, <2>1 DEF Abort
<1>7. ASSUME Creators' = Creators, \A v \in Creators : mr'[v] = mr[v],
             api'.present = api.present, api'.name = api.name
      PROVE  Lives' = Lives
  <2>1. Known' = Known
    BY <1>7 DEF Known, InHand, Recorded, Creators
  <2>. QED  BY <1>0, <2>1, SameLives
<1>8. CASE Abort(w) /\ w \notin Creators
  <2>1. Creators' = Creators /\ \A v \in Creators : mr'[v] = mr[v]
    BY <1>0, <1>8 DEF Abort, Finish, Goto, Creators, Creating
  <2>. QED  BY <1>7, <1>8, <2>1 DEF Abort
<1>9. CASE Reconcile(w)
  <2>1. Creators' = Creators /\ \A v \in Creators : mr'[v] = mr[v]
    BY <1>0, <1>9 DEF Reconcile, Goto, Creators, Creating
  <2>. QED  BY <1>7, <1>9, <2>1 DEF Reconcile
<1>10. CASE AddFinalizer(w)
  <2>1. plan[w] \in {"pend", "status"}
    BY <1>0 DEF History, PlansOK
  <2>2. \A v \in Workers : Creating(v)' <=> Creating(v)
    BY <1>0, <1>10, <2>1 DEF AddFinalizer, Goto, Creating
  <2>3. \A v \in Creators : mr'[v] = mr[v]
    BY <1>0, <1>10 DEF AddFinalizer, Creators, Creating
  <2>4. api'.present = api.present /\ api'.name = api.name
    BY <1>0, <1>10 DEF AddFinalizer, Store, Object
  <2>. QED  BY <1>7, <2>2, <2>3, <2>4 DEF Creators
<1>11. CASE SaveStatus(w)
  <2>1. Creators' = Creators /\ \A v \in Creators : mr'[v] = mr[v]
    BY <1>0, <1>11 DEF SaveStatus, Finish, Goto, Creators, Creating
  <2>2. api'.present = api.present /\ api'.name = api.name
    BY <1>0, <1>11 DEF SaveStatus, Store, Object
  <2>. QED  BY <1>7, <2>1, <2>2
<1>12. CASE Conflict(w) \/ StatusConflict(w)
  <2>1. Creators' = Creators /\ \A v \in Creators : mr'[v] = mr[v]
    BY <1>0, <1>12
    DEF Conflict, StatusConflict, Finish, Goto, Creators, Creating
  <2>. QED  BY <1>7, <1>12, <2>1 DEF Conflict, StatusConflict
<1>13. CASE PublishConnection(w) \/ LosePublication(w)
  <2>1. Creators' = Creators
    BY <1>0, <1>13
    DEF PublishConnection, LosePublication, Goto, Creators, Creating
  <2>. QED  BY <1>7, <1>13, <2>1 DEF PublishConnection, LosePublication
<1>14. CASE SyncCache(w)
  <2>1. Creators' = Creators
    BY <1>14 DEF SyncCache, Creators, Creating
  <2>. QED  BY <1>7, <1>14, <2>1 DEF SyncCache
<1>. QED
  BY <1>1, <1>2, <1>3, <1>5, <1>6, <1>8, <1>9, <1>10, <1>11, <1>12, <1>13, <1>14
  DEF Managing, ReconcilerStep, ReconcilerFault

\* The controller's own steps: Vault issues a credential, with or without an
\* answer, or one is destroyed.
LEMMA ControllerLives ==
  ASSUME IInv, NEW w \in Workers, ControllerStep(w) \/ ControllerFault(w)
  PROVE  \/ Lives' = Lives
         \/ \E id \in Ids \ Legacy :
               Abstract!Issue(id) \/ Abstract!Spill(id) \/ Abstract!End(id)
<1>0. TypeOK /\ History
  BY DEF IInv
<1>. USE DEF TypeOK, ManagedTypeOK
<1>1. CASE Generate(w)
  <2>1. PICK id \in Ids \ (generated \cup Legacy) :
           /\ live' = live \cup {id}
           /\ generated' = generated \cup {id}
           /\ mr' = [mr EXCEPT ![w].name = id]
    BY <1>1 DEF Generate, SetExternalName
  <2>2. w \in Creators /\ Creators' = Creators
    BY <1>0, <1>1 DEF Generate, Goto, Creators, Creating
  <2>3. mr[w].name \notin live /\ mr[w].name # id
    BY <1>0, <1>1, <2>1, ManagedAssumption
    DEF Generate, History, AbsentIsDead, Absent, NamesGenerated
  <2>4. mr'[w].name = id /\ \A v \in Workers \ {w} : mr'[v] = mr[v]
    BY <1>0, <2>1 DEF Object
  <2>5. /\ id \in Known' /\ Known' \subseteq Known \cup {id}
        /\ Known \subseteq Known' \cup {mr[w].name}
    BY <1>1, <2>2, <2>4 DEF Generate, Known, InHand, Recorded, Creators
  <2>6. Orphans' = Orphans
    BY <2>1, <2>3, <2>5 DEF Orphans, Known
  <2>7. LifeOf(id) = "new" /\ LifeOf(id)' = "held"
    BY <2>1, <2>5 DEF LifeOf, Orphans, Known
  <2>8. \A i \in Ids \ Legacy : i # id => LifeOf(i)' = LifeOf(i)
    BY <2>1, <2>6 DEF LifeOf
  <2>9. Abstract!Issue(id)
    BY <2>1, <2>7, <2>8 DEF Abstract!Issue, Abstract!Become
  <2>. QED  BY <2>1, <2>9
<1>2. CASE GenerateUnanswered(w)
  <2>1. PICK id \in Ids \ (generated \cup Legacy) :
           /\ live' = live \cup {id}
           /\ generated' = generated \cup {id}
    BY <1>2 DEF GenerateUnanswered
  <2>2. Creators' = Creators
    BY <1>0, <1>2 DEF GenerateUnanswered, Goto, Creators, Creating
  <2>3. Known' = Known
    BY <1>2, <2>2 DEF GenerateUnanswered, Known, InHand, Recorded, Creators
  <2>4. id \notin Known
    BY <1>0, <2>1, ManagedAssumption
    DEF Known, InHand, Recorded, History, NamesGenerated
  <2>5. Orphans' = Orphans \cup {id}
    BY <1>0, <2>1, <2>3, <2>4 DEF Orphans, Known
  <2>6. LifeOf(id) = "new" /\ LifeOf(id)' = "lost"
    BY <2>1, <2>5 DEF LifeOf
  <2>7. \A i \in Ids \ Legacy : i # id => LifeOf(i)' = LifeOf(i)
    BY <2>1, <2>5 DEF LifeOf
  <2>8. Abstract!Spill(id)
    BY <2>1, <2>6, <2>7 DEF Abstract!Spill, Abstract!Become
  <2>. QED  BY <2>1, <2>8
<1>3. CASE Delete(w)
  <2>1. Creators' = Creators
    BY <1>0, <1>3 DEF Delete, Goto, Creators, Creating
  <2>2. Known' = Known
    BY <1>3, <2>1 DEF Delete, Known, InHand, Recorded, Creators
  <2>. QED  BY <1>3, <2>2, OneEnds DEF Delete
<1>4. CASE \/ Observe(w) \/ ReadRoleID(w) \/ CreateRefused(w)
           \/ CallRefused(w) \/ SecretUnread(w)
  <2>1. Creators' = Creators
    BY <1>0, <1>4
    DEF Observe, Decide, ReadRoleID, CreateRefused, CallRefused, SecretUnread,
        Goto, Creators, Creating
  <2>2. UNCHANGED <<api, mr, live, generated>>
    BY <1>4 DEF Observe, ReadRoleID, CreateRefused, CallRefused, SecretUnread
  <2>3. Known' = Known
    BY <2>1, <2>2 DEF Known, InHand, Recorded, Creators
  <2>. QED  BY <2>2, <2>3, SameLives
<1>. QED  BY <1>1, <1>2, <1>3, <1>4 DEF ControllerStep, ControllerFault

\* No step takes back a failure or an override.
LEMMA MishapsGrow ==
  ASSUME TypeOK, [Next]_vars
  PROVE  faults <= faults' /\ overrides <= overrides'
<1>1. faults \in Nat /\ overrides \in Nat
  BY ManagedAssumption DEF TypeOK, ManagedTypeOK
<1>2. CASE \E w \in Workers : Managing(w)
  BY <1>2, ReconcilerCounts DEF Managing, TypeOK
<1>3. ASSUME NEW w \in Workers, ControllerStep(w) \/ ControllerFault(w)
      PROVE  faults <= faults' /\ overrides <= overrides'
  <2>1. CASE Observe(w) \/ Generate(w) \/ ReadRoleID(w) \/ CreateRefused(w)
    BY <1>1, <2>1 DEF Observe, Generate, ReadRoleID, CreateRefused
  <2>2. CASE Delete(w) \/ CallRefused(w)
    BY <1>1, <2>2 DEF Delete, CallRefused
  <2>3. CASE GenerateUnanswered(w)
    BY <1>1, <2>3 DEF GenerateUnanswered, Fault
  <2>4. CASE SecretUnread(w)
    <3>1. faults' = faults + 1 /\ overrides' = overrides
      BY <2>4 DEF SecretUnread, Fault
    <3>. QED  BY <1>1, <3>1
  <2>. QED  BY <1>3, <2>1, <2>2, <2>3, <2>4 DEF ControllerStep, ControllerFault
<1>4. CASE User
  BY <1>1, <1>4 DEF User, UserStep, RequestDelete, DeleteSecret
<1>5. CASE \E id \in Ids : Expire(id)
  BY <1>1, <1>5 DEF Expire, managedVars
<1>6. CASE UNCHANGED vars
  BY <1>1, <1>6 DEF vars, managedVars
<1>. QED  BY <1>2, <1>3, <1>4, <1>5, <1>6 DEF Next

\* The user and Vault: a credential ends, or the last record of none goes.
LEMMA OutsideLives ==
  ASSUME IInv, User \/ (\E id \in Ids : Expire(id)) \/ UNCHANGED vars
  PROVE  Lives' = Lives \/ \E id \in Ids \ Legacy : Abstract!End(id)
<1>0. TypeOK /\ History
  BY DEF IInv
<1>. USE DEF TypeOK, ManagedTypeOK
<1>1. CASE User
  <2>1. UNCHANGED <<mr, pc, live, generated>>
    BY <1>1 DEF User, UserStep, RequestDelete, DeleteSecret
  <2>2. InHand' = InHand
    BY <2>1 DEF InHand, Creating
  <2>3. \/ Recorded' = Recorded
        \/ Recorded' = {} /\ Recorded = {NoId}
    <3>1. CASE DeleteSecret
      BY <3>1 DEF DeleteSecret, Recorded
    <3>2. CASE RequestDelete /\ api.finalizer
      BY <1>0, <3>2 DEF RequestDelete, Recorded, Object
    <3>3. CASE RequestDelete /\ ~api.finalizer
      <4>1. api.present /\ api'.present = FALSE
        BY <1>0, <3>3 DEF RequestDelete, Object
      <4>2. api.name = NoId
        BY <1>0, <3>3, <4>1 DEF History, Untouched, NewObject
      <4>. QED  BY <4>1, <4>2 DEF Recorded
    <3>. QED  BY <1>1, <3>1, <3>2, <3>3 DEF User, UserStep
  <2>4. NoId \notin live
    BY <1>0, ManagedAssumption
  <2>. QED  BY <1>0, <2>1, <2>2, <2>3, <2>4, SameLives DEF Known
<1>2. ASSUME NEW id \in Ids, Expire(id)
      PROVE  Lives' = Lives \/ \E i \in Ids \ Legacy : Abstract!End(i)
  <2>1. UNCHANGED <<api, mr, pc, generated>> /\ live' = live \ {id}
    BY <1>2 DEF Expire, managedVars
  <2>2. Known' = Known
    BY <2>1 DEF Known, InHand, Recorded, Creating
  <2>. QED  BY <2>1, <2>2, OneEnds
<1>3. CASE UNCHANGED vars
  <2>1. UNCHANGED <<api, mr, pc, live, generated>>
    BY <1>3 DEF vars, managedVars
  <2>2. Known' = Known
    BY <2>1 DEF Known, InHand, Recorded, Creating
  <2>. QED  BY <2>1, <2>2, SameLives
<1>. QED  BY <1>1, <1>2, <1>3

\* The store counts as this module does.
LEMMA SameCardinality == \A S : Abstract!Cardinality(S) = Cardinality(S)
  BY DEF Abstract!Cardinality, Cardinality

\* Every step of the controller is a step of the abstract store.
LEMMA LivesStep ==
  IInv /\ IInv' /\ [Next]_vars => [Abstract!Next]_(Abstract!vars)
<1>. SUFFICES ASSUME IInv, IInv', [Next]_vars
              PROVE  Abstract!Next
  BY DEF Abstract!vars
<1>0. TypeOK /\ TypeOK'
  BY DEF IInv
<1>1. \/ Lives' = Lives
      \/ \E id \in Ids \ Legacy : \/ Abstract!Issue(id) \/ Abstract!Spill(id)
                                  \/ Abstract!Lose(id) \/ Abstract!End(id)
  <2>1. CASE \E w \in Workers : Managing(w)
    BY <2>1, ManagingLives
  <2>2. CASE \E w \in Workers : ControllerStep(w) \/ ControllerFault(w)
    BY <2>2, ControllerLives
  <2>3. CASE User \/ (\E id \in Ids : Expire(id)) \/ UNCHANGED vars
    BY <2>3, OutsideLives
  <2>. QED  BY <2>1, <2>2, <2>3 DEF Next
<1>2. Abstract!Paid
  <2>1. /\ faults \in Nat /\ overrides \in Nat
        /\ faults' \in Nat /\ overrides' \in Nat
    BY <1>0, ManagedAssumption DEF TypeOK, ManagedTypeOK
  <2>2. faults <= faults' /\ overrides <= overrides'
    BY <1>0, MishapsGrow
  <2>3. Cardinality(Orphans') <= faults' + overrides'
    <3>1. LeaksAccounted'
      BY InvBounds, PTL
    <3>. QED  BY <3>1 DEF LeaksAccounted
  <2>4. IsFiniteSet(Orphans')
    <3>1. NamesGenerated'
      BY DEF IInv, History
    <3>. QED  BY <3>1, FS_Subset DEF NamesGenerated, Orphans
  <2>5. Abstract!Lost' \subseteq Orphans'
    BY <1>0 DEF TypeOK, Abstract!Lost, LifeOf
  <2>6. /\ Cardinality(Orphans') \in Nat /\ Cardinality(Abstract!Lost') \in Nat
        /\ Cardinality(Abstract!Lost') <= Cardinality(Orphans')
    BY <2>4, <2>5, NoMore
  <2>7. Cardinality(Abstract!Lost') <= faults' + overrides'
    BY <2>1, <2>3, <2>6
  <2>8. /\ faults' + overrides' \in Nat
        /\ faults' + overrides' >= faults + overrides
    BY <2>1, <2>2, SumsGrow
  <2>. QED  BY <2>7, <2>8, SameCardinality DEF Abstract!Paid
<1>. QED  BY <1>1, <1>2 DEF Abstract!Next, Abstract!Mishap, Lives

\* The initial states are the store's: nothing has been issued.
LEMMA LivesInit == Init => Abstract!Init
  BY DEF Init, ManagedInit, Abstract!Init, LifeOf

\* Whatever any number of processes do at the same time, the controller
\* implements the abstract store of credentials: a SecretID is issued once
\* (Create, approlesecretid.go:129), is known to the resource or to a worker
\* until it ends or is lost, is never found again once it is lost, and no more
\* are lost and working than failures and overrides have paid for.
THEOREM Refinement == Spec => ImplementsCredentials
<1>1. IInv /\ IInv' /\ [Next]_vars => [Abstract!Next]_(Abstract!vars)
  BY LivesStep
<1>. QED
  BY <1>1, LivesInit, InductiveInvariant, PTL
  DEF Spec, ImplementsCredentials, Abstract!Spec

----------------------------------------------------------------------------
(***************************************************************************)
(* Adoption, by any number of processes.                                   *)
(***************************************************************************)

\* Connection details are those of credentials this provider generated, and
\* what is published is generated or was adopted.
SecretsGenerated ==
    /\ generated \cap Legacy = {}
    /\ \A w \in Workers : secret[w] \in generated \cup {NoId}
    /\ conn \in generated \cup Legacy \cup {NoId}

\* While an adopted credential works and nothing has failed, nobody is on the
\* way to a second one.
Undisturbed ==
    conn \in Legacy \cap live /\ faults = 0 =>
        /\ generated = {}
        /\ \A w \in Workers : ~Absent(w) /\ ~Creating(w) /\ pc[w] # "publish"

\* No step publishes what was neither generated nor adopted.
LEMMA SecretsStep ==
  ASSUME TypeOK, SecretsGenerated, [Next]_vars
  PROVE  SecretsGenerated'
<1>. USE DEF TypeOK, ManagedTypeOK, SecretsGenerated
<1>1. ASSUME NEW w \in Workers, Managing(w) PROVE SecretsGenerated'
  <2>1. UNCHANGED <<live, generated>>
    BY <1>1 DEF Managing
  <2>2. /\ \A v \in Workers : secret'[v] \in {secret[v], NoId}
        /\ conn' \in {conn, secret[w]}
    BY <1>1, ReconcilerSecrets DEF Managing
  <2>. QED  BY <2>1, <2>2
<1>2. ASSUME NEW w \in Workers, ControllerStep(w) \/ ControllerFault(w)
      PROVE  SecretsGenerated'
  <2>1. CASE Generate(w)
    BY <2>1 DEF Generate
  <2>2. CASE GenerateUnanswered(w)
    BY <2>2 DEF GenerateUnanswered
  <2>3. CASE CreateRefused(w)
    BY <2>3 DEF CreateRefused
  <2>4. CASE \/ Observe(w) \/ ReadRoleID(w) \/ Delete(w) \/ CallRefused(w)
             \/ SecretUnread(w)
    <3>1. UNCHANGED <<conn, secret, generated>>
      BY <2>4 DEF Observe, ReadRoleID, Delete, CallRefused, SecretUnread
    <3>. QED  BY <3>1
  <2>. QED  BY <1>2, <2>1, <2>2, <2>3, <2>4 DEF ControllerStep, ControllerFault
<1>3. CASE User
  BY <1>3 DEF User, UserStep, RequestDelete, DeleteSecret
<1>4. CASE \E id \in Ids : Expire(id)
  BY <1>4 DEF Expire, managedVars
<1>5. CASE UNCHANGED vars
  BY <1>5 DEF vars, managedVars
<1>. QED  BY <1>1, <1>2, <1>3, <1>4, <1>5 DEF Next

\* No step adopts a credential.
LEMMA NoNewAdoption ==
  ASSUME TypeOK, SecretsGenerated, [Next]_vars,
         conn' \in Legacy \cap live', faults' = 0
  PROVE  conn \in Legacy \cap live /\ faults = 0 /\ conn' = conn
<1>. USE DEF TypeOK, ManagedTypeOK, SecretsGenerated
<1>0. faults = 0
  <2>1. faults \in Nat /\ faults <= faults'
    BY MishapsGrow, ManagedAssumption
  <2>. QED  BY <2>1
<1>1. NoId \notin Legacy
  BY ManagedAssumption, SecretIDAssumption
<1>2. conn' = conn
  <2>1. CASE \E w \in Workers : Managing(w)
    <3>1. PICK w \in Workers : Managing(w)
      BY <2>1
    <3>2. CASE PublishConnection(w)
      BY <1>1, <3>2 DEF PublishConnection
    <3>3. CASE ~PublishConnection(w)
      BY <3>1, <3>3
      DEF Managing, ReconcilerStep, ReconcilerFault, Reconcile, AddFinalizer,
          MarkCreatePending, RemoveFinalizer, Conflict, SaveAnnotations,
          SaveStatus, StatusConflict, LoseAnnotations, LosePublication, Abort,
          SyncCache
    <3>. QED  BY <3>2, <3>3
  <2>2. CASE \E w \in Workers : ControllerStep(w) \/ ControllerFault(w)
    BY <2>2
    DEF ControllerStep, ControllerFault, Observe, Generate, ReadRoleID,
        CreateRefused, Delete, CallRefused, GenerateUnanswered, SecretUnread
  <2>3. CASE User
    BY <1>1, <2>3 DEF User, UserStep, RequestDelete, DeleteSecret
  <2>4. CASE (\E id \in Ids : Expire(id)) \/ UNCHANGED vars
    BY <2>4 DEF Expire, vars, managedVars
  <2>. QED  BY <2>1, <2>2, <2>3, <2>4 DEF Next
<1>3. live' \cap Legacy \subseteq live
  <2>1. CASE \E w \in Workers : Generate(w) \/ GenerateUnanswered(w)
    BY <2>1 DEF Generate, GenerateUnanswered
  <2>2. CASE \E w \in Workers : Delete(w)
    BY <2>2 DEF Delete
  <2>3. CASE \E w \in Workers : \/ Observe(w) \/ ReadRoleID(w) \/ CreateRefused(w)
                                \/ CallRefused(w) \/ SecretUnread(w)
    BY <2>3 DEF Observe, ReadRoleID, CreateRefused, CallRefused, SecretUnread
  <2>4. CASE User \/ \E w \in Workers : Managing(w)
    BY <2>4 DEF User, Managing
  <2>5. CASE (\E id \in Ids : Expire(id)) \/ UNCHANGED vars
    BY <2>5 DEF Expire, vars
  <2>. QED
    BY <2>1, <2>2, <2>3, <2>4, <2>5 DEF Next, ControllerStep, ControllerFault
<1>. QED  BY <1>0, <1>2, <1>3

\* Nobody sets out to replace an adopted credential that works.
LEMMA UndisturbedStep ==
  ASSUME TypeOK, NamesGenerated, SecretsGenerated, Undisturbed, [Next]_vars
  PROVE  Undisturbed'
<1>. SUFFICES ASSUME conn' \in Legacy \cap live', faults' = 0
              PROVE  /\ generated' = {}
                     /\ \A v \in Workers :
                           ~Absent(v)' /\ ~Creating(v)' /\ pc'[v] # "publish"
  BY DEF Undisturbed
<1>. USE DEF TypeOK, ManagedTypeOK
<1>0. /\ conn \in live /\ faults = 0 /\ generated = {}
      /\ \A v \in Workers : ~Absent(v) /\ ~Creating(v) /\ pc[v] # "publish"
  BY NoNewAdoption DEF Undisturbed
<1>1. \A v \in Workers : mr[v].name = NoId
  BY <1>0 DEF NamesGenerated
<1>2. ASSUME NEW w \in Workers, Managing(w)
      PROVE  /\ generated' = {}
             /\ \A v \in Workers :
                   ~Absent(v)' /\ ~Creating(v)' /\ pc'[v] # "publish"
  <2>1. generated' = generated
    BY <1>2 DEF Managing
  <2>2. pc[w] \notin {"pend", "create", "unfinalize", "annotate",
                      "annotateFailed", "publish"}
    BY <1>0 DEF Absent, Creating
  <2>3. CASE Reconcile(w)
    BY <1>0, <2>1, <2>3 DEF Reconcile, Goto, Absent, Creating
  <2>4. CASE AddFinalizer(w)
    <3>1. plan[w] \in {"update", "status"}
      BY <1>0, <2>4 DEF AddFinalizer, Absent
    <3>. QED
      BY <1>0, <2>1, <2>4, <3>1 DEF AddFinalizer, Goto, Absent, Creating
  <2>5. CASE Conflict(w) \/ SaveStatus(w) \/ StatusConflict(w) \/ Abort(w)
    BY <1>0, <2>1, <2>5
    DEF Conflict, SaveStatus, StatusConflict, Abort, Finish, Goto, Absent,
        Creating
  <2>6. CASE SyncCache(w)
    BY <1>0, <2>1, <2>6 DEF SyncCache, Absent, Creating
  <2>. QED
    BY <1>2, <2>2, <2>3, <2>4, <2>5, <2>6
    DEF Managing, ReconcilerStep, ReconcilerFault, MarkCreatePending,
        RemoveFinalizer, SaveAnnotations, LoseAnnotations, PublishConnection,
        LosePublication
<1>3. ASSUME NEW w \in Workers, ControllerStep(w) \/ ControllerFault(w)
      PROVE  /\ generated' = {}
             /\ \A v \in Workers :
                   ~Absent(v)' /\ ~Creating(v)' /\ pc'[v] # "publish"
  <2>1. pc[w] \notin {"create", "readrole"}
    BY <1>0 DEF Absent, Creating
  <2>2. CASE Observe(w)
    <3>1. Accessor(mr[w], conn) \in live
      BY <1>0, <1>1 DEF Accessor
    <3>2. pc' = [pc EXCEPT ![w] = IF mr[w].deleting THEN "delete" ELSE "finalizer"]
          /\ plan' = [plan EXCEPT ![w] = "status"] /\ generated' = generated
      BY <2>2, <3>1 DEF Observe, Decide, Goto, UpToDate
    <3>. QED  BY <1>0, <3>2 DEF Absent, Creating
  <2>3. CASE Delete(w) \/ CallRefused(w)
    BY <1>0, <2>3 DEF Delete, CallRefused, Goto, Absent, Creating
  <2>4. CASE SecretUnread(w) \/ GenerateUnanswered(w)
    BY <1>0, <2>4 DEF SecretUnread, GenerateUnanswered, Fault
  <2>. QED
    BY <1>3, <2>1, <2>2, <2>3, <2>4
    DEF ControllerStep, ControllerFault, Generate, ReadRoleID, CreateRefused
<1>4. CASE User
  BY <1>0, <1>4
  DEF User, UserStep, RequestDelete, DeleteSecret, Absent, Creating
<1>5. CASE (\E id \in Ids : Expire(id)) \/ UNCHANGED vars
  BY <1>0, <1>5 DEF Expire, vars, managedVars, Absent, Creating
<1>. QED  BY <1>2, <1>3, <1>4, <1>5 DEF Next

\* At first nothing is generated and nobody does anything.
LEMMA AdoptionInit == Init => SecretsGenerated /\ Undisturbed
  BY DEF Init, ManagedInit, SecretsGenerated, Undisturbed, Absent, Creating

\* What is published and generated, and that an adopted credential is left in
\* peace, are invariants.
THEOREM AdoptionInvariant == Spec => [](SecretsGenerated /\ Undisturbed)
<1>1. IInv /\ SecretsGenerated /\ Undisturbed /\ [Next]_vars
        => SecretsGenerated' /\ Undisturbed'
  BY SecretsStep, UndisturbedStep DEF IInv, History
<1>. QED  BY <1>1, AdoptionInit, InductiveInvariant, PTL DEF Spec

\* A working credential found in the connection secret of a resource without
\* an external name (getSecretID, approlesecretid.go:241) is adopted: however
\* many processes reconcile the resource, none of them generates a second one
\* beside it unless a failure hid the first.
THEOREM Adoption == Spec => []LegacyAdopted
<1>1. Undisturbed => LegacyAdopted
  BY DEF Undisturbed, LegacyAdopted
<1>. QED  BY <1>1, AdoptionInvariant, PTL

----------------------------------------------------------------------------
(***************************************************************************)
(* Tracking, as long as no process goes ahead over the creation of another. *)
(***************************************************************************)

\* A failure has made the provider forget the credential it adopted.
Forgotten == conn \in Legacy /\ faults > 0

\* The resource leads to what is published.
Led == api.present /\ (api.name = conn \/ (api.name = NoId /\ conn \in Legacy))

\* What a process in the middle of a creation, or on the way to one or to the
\* end of the resource, can rely on.
Held(w) ==
    /\ pc[w] = "pend" => mr[w].finalizer
    /\ Creating(w) => api.present /\ api.finalizer
    /\ pc[w] \in {"readrole", "annotate"} => secret[w] = mr[w].name
    /\ pc[w] = "publish" /\ secret[w] \in live
         => api.present /\ api.name = secret[w]
    /\ Creating(w) \/ (Absent(w) /\ w \in fresh) => (conn \in live => Forgotten)

Tracked ==
    Undisputed => /\ conn \in live => Led \/ Forgotten
                  /\ \A w \in Workers : Held(w)

\* Nothing is published for a resource without a finalizer.
Unpublished == api.present /\ ~api.finalizer => conn = NoId

TInv == Marked /\ Tracked /\ Unpublished

\* While somebody is creating, the name that is stored does not work.
LEMMA CreationIsDead ==
  ASSUME IInv, TInv, Undisputed, NEW w \in Workers, Creating(w)
  PROVE  /\ api.present /\ api.finalizer /\ api.name \notin live
         /\ conn \in live => Forgotten
  BY DEF IInv, History, TInv, Tracked, Marked, Held, CreationSteps, Creating,
         AbsentIsDead

\* ... nor does one that a copy of the latest version was found not to.
LEMMA FoundDead ==
  ASSUME IInv, TInv, Undisputed, NEW w \in fresh, Absent(w)
  PROVE  /\ api.present /\ api.name \notin live
         /\ conn \in live => Forgotten
<1>1. w \in Workers /\ CopiesAgree /\ AbsentIsDead
  BY DEF IInv, History, TypeOK, ManagedTypeOK
<1>2. CASE pc[w] = "create"
  BY <1>1, <1>2, CreationIsDead DEF Creating
<1>3. CASE pc[w] # "create"
  <2>1. mr[w] = api /\ api.present
    BY <1>1, <1>3 DEF CopiesAgree, Absent, Reading
  <2>. QED
    BY <1>1, <2>1 DEF AbsentIsDead, TInv, Tracked, Held
<1>. QED  BY <1>2, <1>3

\* The mark is kept by every step.
LEMMA MarkedStep ==
  ASSUME TypeOK, CopiesAgree, Marked, [Next]_vars
  PROVE  Marked' /\ (Undisputed' => Undisputed)
<1>. USE DEF TypeOK
<1>1. CASE \E w \in Workers : Managing(w)
  BY <1>1, ReconcilerMarked DEF Managing
<1>2. ASSUME NEW w \in Workers, ControllerStep(w) \/ ControllerFault(w)
      PROVE  Marked' /\ Undisputed' = Undisputed
  BY <1>2, ControllerFrame, ControllerMarked DEF CreationSteps
<1>3. CASE User
  BY <1>3, UserMarked DEF User
<1>4. CASE (\E id \in Ids : Expire(id)) \/ UNCHANGED vars
  BY <1>4 DEF Expire, vars, managedVars, Marked, Undisputed
<1>. QED  BY <1>1, <1>2, <1>3, <1>4 DEF Next

\* Only the removal of the finalizer and the save of a creation take a name away.
LEMMA NameStays ==
  ASSUME IInv, TInv, NEW w \in Workers,
         ReconcilerStep(w) \/ ReconcilerFault(w) \/ SyncCache(w)
  PROVE  \/ /\ api'.present = api.present /\ api'.name = api.name
            /\ api.finalizer => api'.finalizer
         \/ SaveAnnotations(w)
         \/ RemoveFinalizer(w)
<1>0. ManagedTypeOK
  BY DEF IInv, TypeOK
<1>1. CASE AddFinalizer(w)
  BY <1>0, <1>1, AddFinalizerStores
<1>2. CASE MarkCreatePending(w)
  BY <1>0, <1>2, MarkCreatePendingStores
<1>3. CASE SaveStatus(w)
  BY <1>0, <1>3, SaveStatusStores
<1>4. CASE UNCHANGED api
  BY <1>4
<1>. QED
  BY <1>1, <1>2, <1>3, <1>4
  DEF ReconcilerStep, ReconcilerFault, Reconcile, Conflict, PublishConnection,
      StatusConflict, LoseAnnotations, LosePublication, Abort, SyncCache

\* A step of one process leaves another what it relies on.
LEMMA HeldElsewhere ==
  ASSUME IInv, TInv, Undisputed, NEW v \in Workers,
         pc'[v] = pc[v], mr'[v] = mr[v], plan'[v] = plan[v],
         secret'[v] = secret[v],
         v \in fresh' => v \in fresh,
         Creating(v) => api'.present /\ api'.finalizer,
         api.present /\ api.name \in live =>
             api'.present /\ api'.name = api.name,
         secret[v] \in live' => secret[v] \in live,
         conn \in live /\ Forgotten /\ conn' = conn => Forgotten',
         conn' \in live' => \/ conn' = conn /\ conn \in live
                            \/ api.present /\ api.name \in live
  PROVE  Held(v)'
<1>1. Held(v)
  BY DEF TInv, Tracked
<1>2. ASSUME Creating(v) \/ (Absent(v) /\ v \in fresh), conn' \in live'
      PROVE  Forgotten'
  <2>1. api.name \notin live /\ (conn \in live => Forgotten)
    BY <1>2, CreationIsDead, FoundDead
  <2>. QED  BY <1>2, <2>1
<1>. QED  BY <1>1, <1>2 DEF Held, Creating, Absent

\* What a reconcile relies on holds after its own steps.
LEMMA ManagingHeld ==
  ASSUME IInv, TInv, Undisputed, NEW w \in Workers, Managing(w)
  PROVE  Held(w)'
<1>8. /\ AddFinalizer(w) => mr'[w].finalizer /\ fresh' \subseteq fresh
      /\ SaveAnnotations(w) => api'.present /\ api'.name = mr[w].name
  BY AddFinalizerStores, SaveAnnotationsStores DEF IInv, TypeOK
<1>. USE DEF TypeOK, ManagedTypeOK
<1>0. /\ TypeOK /\ CopiesAgree /\ live' = live /\ Held(w)
  BY DEF IInv, History, Managing, TInv, Tracked
<1>. USE DEF Held, Absent, Creating
<1>1. CASE Reconcile(w)
  BY <1>0, <1>1 DEF Reconcile, Goto
<1>2. CASE AddFinalizer(w)
  <2>1. /\ mr'[w].finalizer /\ (w \in fresh' => w \in fresh)
        /\ pc'[w] = plan[w] /\ pc[w] = "finalizer"
        /\ UNCHANGED <<conn, faults>>
    BY <1>0, <1>8, <1>2 DEF AddFinalizer, Goto
  <2>. QED  BY <1>0, <2>1 DEF Forgotten
<1>3. CASE MarkCreatePending(w)
  <2>1. mr[w] = api /\ api.present /\ w \in fresh /\ pc[w] = "pend"
    BY <1>0, <1>3 DEF MarkCreatePending, CopiesAgree, Reading
  <2>2. api'.present /\ api'.finalizer /\ pc'[w] = "create"
    BY <1>0, <1>3, <2>1, MarkCreatePendingStores DEF MarkCreatePending, Goto
  <2>3. UNCHANGED <<conn, faults>>
    BY <1>3 DEF MarkCreatePending
  <2>. QED  BY <1>0, <2>1, <2>2, <2>3 DEF Forgotten
<1>4. CASE RemoveFinalizer(w) \/ Conflict(w) \/ StatusConflict(w) \/ SaveStatus(w)
           \/ Abort(w)
  BY <1>0, <1>4
  DEF RemoveFinalizer, Conflict, StatusConflict, SaveStatus, Abort, Finish, Goto
<1>5. CASE SaveAnnotations(w)
  BY <1>0, <1>8, <1>5 DEF SaveAnnotations, Goto
<1>6. CASE LoseAnnotations(w) \/ PublishConnection(w) \/ LosePublication(w)
  BY <1>0, <1>6 DEF LoseAnnotations, PublishConnection, LosePublication, Goto
<1>7. CASE SyncCache(w)
  BY <1>0, <1>7 DEF SyncCache, Forgotten
<1>. QED
  BY <1>1, <1>2, <1>3, <1>4, <1>5, <1>6, <1>7
  DEF Managing, ReconcilerStep, ReconcilerFault

\* The reconciler keeps track of what is published.
LEMMA ManagingTracked ==
  ASSUME IInv, TInv, NEW w \in Workers, Managing(w)
  PROVE  Tracked'
<1>. SUFFICES ASSUME Undisputed'
              PROVE  /\ conn' \in live' => Led' \/ Forgotten'
                     /\ \A v \in Workers : Held(v)'
  BY DEF Tracked
<1>0. /\ TypeOK /\ ManagedTypeOK /\ CopiesAgree /\ Marked /\ live' = live
      /\ Undisputed /\ (conn \in live => Led \/ Forgotten)
      /\ ReconcilerStep(w) \/ ReconcilerFault(w) \/ SyncCache(w)
  <2>1. TypeOK /\ ManagedTypeOK /\ CopiesAgree /\ Marked /\ live' = live
    BY DEF IInv, History, TInv, TypeOK, Managing
  <2>2. Undisputed
    BY <2>1, ReconcilerMarked DEF Managing
  <2>. QED  BY <2>1, <2>2 DEF TInv, Tracked, Managing
<1>1. /\ faults <= faults' /\ faults \in Nat /\ faults' \in Nat
      /\ Forgotten /\ conn' = conn => Forgotten'
  <2>1. faults <= faults' /\ faults \in Nat /\ faults' \in Nat
    BY <1>0, ReconcilerCounts, ReconcilerType, ManagedAssumption DEF ManagedTypeOK
  <2>. QED  BY <2>1 DEF Forgotten
<1>2. SaveAnnotations(w) \/ RemoveFinalizer(w)
        => api.name \notin live /\ (conn \in live => Forgotten)
  <2>1. CASE SaveAnnotations(w)
    BY <1>0, <2>1, CreationIsDead DEF SaveAnnotations, Creating
  <2>2. CASE RemoveFinalizer(w)
    BY <1>0, <2>2, FoundDead DEF RemoveFinalizer, Absent
  <2>. QED  BY <2>1, <2>2
<1>3. api.present /\ api.name \in live => api'.present /\ api'.name = api.name
  BY <1>0, <1>2, NameStays
<1>4. \/ conn' = conn
      \/ conn' \in live => api.present /\ api.name = conn'
  <2>1. CASE PublishConnection(w)
    <3>1. Held(w)
      BY <1>0 DEF TInv, Tracked
    <3>. QED  BY <2>1, <3>1, <1>0 DEF PublishConnection, Held
  <2>2. CASE ~PublishConnection(w)
    BY <1>0, <2>2
    DEF ReconcilerStep, ReconcilerFault, Reconcile, AddFinalizer,
        MarkCreatePending, RemoveFinalizer, Conflict, SaveAnnotations,
        SaveStatus, StatusConflict, LoseAnnotations, LosePublication, Abort,
        SyncCache
  <2>. QED  BY <2>1, <2>2
<1>5. ASSUME NEW v \in Workers, v # w PROVE Held(v)'
  <2>1. /\ mr'[v] = mr[v] /\ pc'[v] = pc[v]
        /\ plan'[v] = plan[v] /\ secret'[v] = secret[v]
        /\ v \in fresh' => v \in fresh
    BY <1>0, <1>5, ReconcilerFrame
  <2>2. Creating(v) => api'.present /\ api'.finalizer
    <3>. SUFFICES ASSUME Creating(v) PROVE api'.present /\ api'.finalizer
      OBVIOUS
    <3>1. api.present /\ api.finalizer
      BY <1>0, CreationIsDead
    <3>2. ~SaveAnnotations(w)
      BY <1>0, <1>5 DEF Marked, CreationSteps, Creating, SaveAnnotations
    <3>3. ~RemoveFinalizer(w)
      BY <1>0, ReleaseUncontended DEF CreationSteps, Creating
    <3>. QED  BY <1>0, <3>1, <3>2, <3>3, NameStays
  <2>. QED  BY <1>0, <1>1, <1>3, <1>4, <2>1, <2>2, HeldElsewhere
<1>6. Held(w)'
  BY <1>0, ManagingHeld
<1>7. conn' \in live' => Led' \/ Forgotten'
  <2>. SUFFICES ASSUME conn' \in live' PROVE Led' \/ Forgotten'
    OBVIOUS
  <2>1. CASE api.present /\ api.name = conn'
    BY <1>0, <1>3, <2>1 DEF Led
  <2>2. CASE conn' = conn
    BY <1>0, <1>1, <1>2, <1>3, <2>2, NameStays DEF Led
  <2>. QED  BY <1>0, <1>4, <2>1, <2>2
<1>. QED  BY <1>5, <1>6, <1>7

\* What the controller generates is neither published nor in another's hands.
LEMMA NothingRevived ==
  ASSUME IInv, SecretsGenerated, NEW w \in Workers,
         ControllerStep(w) \/ ControllerFault(w)
  PROVE  /\ UNCHANGED <<api, conn, fresh>>
         /\ faults <= faults' /\ faults \in Nat /\ faults' \in Nat
         /\ conn \in live' => conn \in live
         /\ api.name \in live' => api.name \in live
         /\ \A v \in Workers : secret[v] \in live' => secret[v] \in live
<1>. USE DEF TypeOK, ManagedTypeOK
<1>0. TypeOK /\ NamesGenerated /\ faults \in Nat
  BY ManagedAssumption DEF IInv, History
<1>1. UNCHANGED <<api, conn, fresh>>
  BY <1>0, ControllerFrame
  DEF ControllerStep, ControllerFault, Observe, Generate, ReadRoleID,
      CreateRefused, Delete, CallRefused, GenerateUnanswered, SecretUnread
<1>2. CASE Generate(w) \/ GenerateUnanswered(w)
  <2>1. PICK id \in Ids \ (generated \cup Legacy) : live' = live \cup {id}
    BY <1>2 DEF Generate, GenerateUnanswered
  <2>2. faults' \in {faults, faults + 1}
    BY <1>2 DEF Generate, GenerateUnanswered, Fault
  <2>. QED
    BY <1>0, <1>1, <2>1, <2>2, ManagedAssumption
    DEF SecretsGenerated, NamesGenerated
<1>3. CASE Observe(w) \/ ReadRoleID(w) \/ CreateRefused(w) \/ Delete(w)
           \/ CallRefused(w) \/ SecretUnread(w)
  <2>1. live' \subseteq live
    BY <1>3 DEF Observe, ReadRoleID, CreateRefused, Delete, CallRefused, SecretUnread
  <2>2. faults' \in {faults, faults + 1}
    BY <1>3
    DEF Observe, ReadRoleID, CreateRefused, Delete, CallRefused, SecretUnread, Fault
  <2>. QED  BY <1>0, <1>1, <2>1, <2>2
<1>. QED  BY <1>2, <1>3 DEF ControllerStep, ControllerFault

\* What a reconcile relies on holds after the steps of its controller.
LEMMA ControllerHeld ==
  ASSUME IInv, SecretsGenerated, TInv, Undisputed, NEW w \in Workers,
         ControllerStep(w) \/ ControllerFault(w)
  PROVE  Held(w)'
<1>. USE DEF TypeOK, ManagedTypeOK
<1>0. /\ TypeOK /\ CopiesAgree /\ NoId \notin live
      /\ Held(w) /\ (conn \in live => Led \/ Forgotten)
      /\ UNCHANGED <<api, conn, fresh>>
      /\ conn \in live' => conn \in live
      /\ Forgotten => Forgotten'
  BY NothingRevived, ManagedAssumption DEF IInv, History, TInv, Tracked, Forgotten
<1>. USE DEF Held, Absent, Creating
<1>1. CASE Observe(w)
  <2>1. w \in fresh => mr[w] = api /\ api.present
    BY <1>0, <1>1 DEF Observe, CopiesAgree, Reading
  <2>2. w \in fresh /\ conn \in live /\ ~Forgotten
          => Accessor(mr[w], conn) \in live
    BY <1>0, <2>1 DEF Accessor, Led
  <2>. QED  BY <1>0, <1>1, <2>2 DEF Observe, Decide, UpToDate, Goto
<1>2. CASE Generate(w)
  <2>1. mr'[w].name = secret'[w] /\ pc'[w] = "readrole"
    <3>1. PICK id \in Ids : /\ mr' = [mr EXCEPT ![w].name = id]
                            /\ secret' = [secret EXCEPT ![w] = id]
      BY <1>2 DEF Generate, SetExternalName
    <3>. QED  BY <1>0, <1>2, <3>1 DEF Generate, Goto, Object
  <2>. QED  BY <1>0, <1>2, <2>1 DEF Generate
<1>3. CASE GenerateUnanswered(w) \/ CreateRefused(w)
  BY <1>0, <1>3 DEF GenerateUnanswered, CreateRefused, Goto
<1>4. CASE ReadRoleID(w)
  BY <1>0, <1>4 DEF ReadRoleID, Goto
<1>5. CASE Delete(w) \/ CallRefused(w)
  BY <1>0, <1>5 DEF Delete, CallRefused, Goto
<1>6. CASE SecretUnread(w)
  <2>1. w \in fresh => mr[w] = api /\ api.name = NoId
    BY <1>0, <1>6 DEF SecretUnread, CopiesAgree, Reading
  <2>2. live' = live /\ faults' > 0
    BY <1>0, <1>6, ManagedAssumption DEF SecretUnread, Fault
  <2>. QED
    BY <1>0, <1>6, <2>1, <2>2 DEF SecretUnread, Decide, Goto, Led, Forgotten
<1>. QED
  BY <1>1, <1>2, <1>3, <1>4, <1>5, <1>6 DEF ControllerStep, ControllerFault

\* ... and so does the controller.
LEMMA ControllerTracked ==
  ASSUME IInv, SecretsGenerated, TInv, NEW w \in Workers,
         ControllerStep(w) \/ ControllerFault(w)
  PROVE  Tracked'
<1>. SUFFICES ASSUME Undisputed'
              PROVE  /\ conn' \in live' => Led' \/ Forgotten'
                     /\ \A v \in Workers : Held(v)'
  BY DEF Tracked
<1>0. /\ TypeOK /\ Undisputed
      /\ conn \in live => Led \/ Forgotten
      /\ Forgotten => Forgotten'
  <2>1. TypeOK
    BY DEF IInv
  <2>2. Undisputed
    BY <2>1, ControllerFrame DEF Undisputed
  <2>3. Forgotten => Forgotten'
    BY NothingRevived DEF Forgotten
  <2>. QED  BY <2>1, <2>2, <2>3 DEF TInv, Tracked
<1>1. ASSUME NEW v \in Workers, v # w PROVE Held(v)'
  <2>1. Creating(v) => api.present /\ api.finalizer
    BY <1>0, CreationIsDead
  <2>2. /\ mr'[v] = mr[v] /\ pc'[v] = pc[v]
        /\ plan'[v] = plan[v] /\ secret'[v] = secret[v]
    BY <1>0, <1>1, ControllerFrame
  <2>. QED  BY <1>0, <2>1, <2>2, NothingRevived, HeldElsewhere
<1>2. Held(w)'
  BY <1>0, ControllerHeld
<1>3. conn' \in live' => Led' \/ Forgotten'
  BY <1>0, NothingRevived DEF Led
<1>. QED  BY <1>1, <1>2, <1>3

\* The user and Vault take nothing away that somebody relies on.
LEMMA OutsideTracked ==
  ASSUME IInv, TInv, User \/ (\E id \in Ids : Expire(id)) \/ UNCHANGED vars
  PROVE  Tracked'
<1>. SUFFICES ASSUME Undisputed'
              PROVE  /\ conn' \in live' => Led' \/ Forgotten'
                     /\ \A v \in Workers : Held(v)'
  BY DEF Tracked
<1>0. TypeOK /\ ManagedTypeOK /\ Untouched /\ NoId \notin live
  BY ManagedAssumption DEF IInv, History, TypeOK
<1>1. /\ UNCHANGED <<pc, mr, plan, secret, faults, overrides>>
      /\ live' \subseteq live /\ fresh' \subseteq fresh
      /\ conn' \in {conn, NoId}
  BY DEF User, UserStep, RequestDelete, DeleteSecret, Expire, vars, managedVars
<1>2. \/ /\ api'.present = api.present /\ api'.name = api.name
         /\ api'.finalizer = api.finalizer
      \/ /\ api.present /\ ~api.finalizer
  BY <1>0, RequestDeleteStores
  DEF User, UserStep, DeleteSecret, Expire, vars, managedVars
<1>3. api.present /\ ~api.finalizer => conn = NoId /\ api.name = NoId
  BY <1>0 DEF TInv, Unpublished, Untouched, NewObject
<1>4. /\ Undisputed /\ (conn \in live => Led \/ Forgotten)
      /\ Forgotten /\ conn' = conn => Forgotten'
  <2>1. Undisputed
    BY <1>1 DEF Undisputed
  <2>. QED  BY <1>1, <2>1 DEF TInv, Tracked, Forgotten
<1>5. ASSUME NEW v \in Workers PROVE Held(v)'
  <2>1. Creating(v) => api.present /\ api.finalizer
    BY <1>4, CreationIsDead
  <2>. QED
    BY <1>0, <1>1, <1>2, <1>3, <1>4, <2>1, HeldElsewhere
<1>6. conn' \in live' => Led' \/ Forgotten'
  BY <1>0, <1>1, <1>2, <1>3, <1>4 DEF Led
<1>. QED  BY <1>5, <1>6

\* Nothing is published before the finalizer is stored.
LEMMA UnpublishedStep ==
  ASSUME IInv, TInv, [Next]_vars
  PROVE  Unpublished'
<1>0. TypeOK /\ ManagedTypeOK /\ Untouched
  BY DEF IInv, History, TypeOK
<1>. SUFFICES ASSUME api'.present, ~api'.finalizer PROVE conn' = NoId
  BY DEF Unpublished
<1>1. ASSUME NEW w \in Workers, Managing(w) PROVE conn' = NoId
  <2>0. ReconcilerStep(w) \/ ReconcilerFault(w) \/ SyncCache(w)
    BY <1>1 DEF Managing
  <2>1. api.present /\ ~api.finalizer
    BY <1>0, <2>0, NameStays, SaveAnnotationsStores, RemoveFinalizerStores
  <2>2. pc[w] # "publish" /\ conn = NoId
    BY <1>0, <2>1 DEF Untouched, Before, TInv, Unpublished
  <2>. QED
    BY <2>0, <2>2
    DEF ReconcilerStep, ReconcilerFault, Reconcile, AddFinalizer,
        MarkCreatePending, RemoveFinalizer, Conflict, SaveAnnotations,
        PublishConnection, SaveStatus, StatusConflict, LoseAnnotations,
        LosePublication, Abort, SyncCache
<1>2. CASE \E w \in Workers : ControllerStep(w) \/ ControllerFault(w)
  <2>1. UNCHANGED <<api, conn>>
    BY <1>0, <1>2, ControllerFrame
    DEF ControllerStep, ControllerFault, Observe, Generate, ReadRoleID,
        CreateRefused, Delete, CallRefused, GenerateUnanswered, SecretUnread
  <2>. QED  BY <2>1 DEF TInv, Unpublished
<1>3. CASE User
  BY <1>0, <1>3, RequestDeleteStores
  DEF User, UserStep, RequestDelete, DeleteSecret, TInv, Unpublished
<1>4. CASE (\E id \in Ids : Expire(id)) \/ UNCHANGED vars
  BY <1>4 DEF Expire, vars, managedVars, TInv, Unpublished
<1>. QED  BY <1>1, <1>2, <1>3, <1>4 DEF Next

\* Every step keeps track.
LEMMA TrackedStep ==
  ASSUME IInv, SecretsGenerated, TInv, [Next]_vars
  PROVE  TInv'
<1>1. Marked'
  BY MarkedStep DEF IInv, History, TInv
<1>2. Tracked'
  BY ManagingTracked, ControllerTracked, OutsideTracked DEF Next
<1>3. Unpublished'
  BY UnpublishedStep
<1>. QED  BY <1>1, <1>2, <1>3 DEF TInv

\* At first the resource leads to what it has adopted.
LEMMA TrackedInit == Init => TInv
<1>. SUFFICES ASSUME Init PROVE TInv
  OBVIOUS
<1>1. /\ [NewObject EXCEPT !.finalizer = TRUE].finalizer
      /\ [NewObject EXCEPT !.finalizer = TRUE].present
      /\ [NewObject EXCEPT !.finalizer = TRUE].name = NoId
  BY DEF NewObject
<1>2. api.present /\ api.name = NoId /\ (api.finalizer \/ conn = NoId)
  BY <1>1 DEF Init, ManagedInit, NewObject
<1>3. \A w \in Workers : pc[w] = "idle"
  BY DEF Init, ManagedInit
<1>4. conn \in Legacy \cup {NoId} /\ live = {conn} \ {NoId}
  BY DEF Init
<1>. QED
  BY <1>2, <1>3, <1>4
  DEF TInv, Tracked, Marked, Unpublished, Led, Held, Absent, Creating,
      CreationSteps

\* However many processes reconcile the resource, a published credential that
\* works is the one the resource leads to, and the resource is there: Delete
\* (approlesecretid.go:267) has destroyed it before the finalizer goes.  Only an
\* adopted credential can be forgotten, and only after a failure.  This fails
\* once a process goes ahead over a creation of another, whose name is then
\* stored over the published one.
THEOREM Tracking == Spec => []PublishedIsTracked
<1>1. IInv /\ SecretsGenerated /\ TInv /\ [Next]_vars => TInv'
  BY TrackedStep
<1>2. IInv /\ TInv => PublishedIsTracked
  <2>. SUFFICES ASSUME IInv, TInv, Undisputed, conn \in live, ~Forgotten
                PROVE  api.present /\ Accessor(api, conn) = conn
    BY DEF PublishedIsTracked, Forgotten
  <2>1. Led /\ NoId \notin live
    BY ManagedAssumption DEF TInv, Tracked, IInv, TypeOK
  <2>. QED  BY <2>1 DEF Led, Accessor
<1>. QED
  BY <1>1, <1>2, TrackedInit, InductiveInvariant, AdoptionInvariant, PTL DEF Spec

----------------------------------------------------------------------------
(***************************************************************************)
(* The release.                                                            *)
(***************************************************************************)

\* Only the removal of the finalizer releases the resource, and the copy that
\* brought a worker there names what does not work.
LEMMA ReleaseStep == IInv /\ [Next]_vars => (Released => api.name \notin live)
<1>. SUFFICES ASSUME IInv, [Next]_vars, Released
              PROVE  api.name \notin live
  OBVIOUS
<1>0. TypeOK /\ ManagedTypeOK /\ CopiesAgree /\ AbsentIsDead
  BY DEF IInv, History, TypeOK
<1>1. CASE \E w \in Workers : Managing(w)
  <2>1. PICK w \in Workers : Managing(w)
    BY <1>1
  <2>2. pc[w] = "unfinalize" /\ mr[w] = api
    BY <1>0, <2>1, ReconcilerReleases DEF Managing
  <2>. QED  BY <1>0, <2>2 DEF AbsentIsDead, Absent
<1>2. CASE \E w \in Workers : ControllerStep(w) \/ ControllerFault(w)
  BY <1>0, <1>2, ControllerFrame DEF Released
<1>3. CASE User
  BY <1>0, <1>3, UserReleases DEF User
<1>4. CASE \E id \in Ids : Expire(id)
  BY <1>4 DEF Expire, managedVars, Released
<1>5. CASE UNCHANGED vars
  BY <1>5 DEF vars, managedVars, Released
<1>. QED  BY <1>1, <1>2, <1>3, <1>4, <1>5 DEF Next

\* The finalizer is removed only once the SecretID of the external name does not
\* work any more: Observe (approlesecretid.go:95-118) has not found it, or
\* Delete (approlesecretid.go:267-289) has destroyed it before.  With any
\* number of processes, outdated caches and failures.
THEOREM DestructionFirst == Spec => DestroyedBeforeReleased
  BY ReleaseStep, InductiveInvariant, PTL DEF Spec, DestroyedBeforeReleased
=============================================================================
