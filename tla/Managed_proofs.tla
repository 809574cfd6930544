---------------------------- MODULE Managed_proofs ----------------------------
(***************************************************************************)
(* What every controller's proofs need of the managed reconciler: the      *)
(* reconciler's own steps keep the types of its state, the copies of the   *)
(* latest version what the API server stores, and a resource without a     *)
(* finalizer untouched; one creation at a time is in flight unless a       *)
(* process goes ahead over another; and how cardinalities change by one    *)
(* element.                                                                *)
(***************************************************************************)
EXTENDS Managed, TLAPS, FiniteSetTheorems

----------------------------------------------------------------------------
(***************************************************************************)
(* Objects.                                                                *)
(***************************************************************************)

\* A new resource is an object.
LEMMA NewObjectType == NewObject \in Object
  BY DEF NewObject, Object, IdOrNone

\* Writing a field of an object gives an object.
LEMMA ObjectUpdate ==
  ASSUME NEW object \in Object, NEW value \in BOOLEAN, NEW id \in IdOrNone
  PROVE  /\ [object EXCEPT !.present = value] \in Object
         /\ [object EXCEPT !.deleting = value] \in Object
         /\ [object EXCEPT !.finalizer = value] \in Object
         /\ [object EXCEPT !.pending = value] \in Object
         /\ [object EXCEPT !.name = id] \in Object
         /\ [object EXCEPT !.status = id] \in Object
  BY DEF Object

\* The fields of an object.
LEMMA ObjectFields ==
  ASSUME NEW object \in Object
  PROVE  /\ object.present \in BOOLEAN
         /\ object.deleting \in BOOLEAN
         /\ object.finalizer \in BOOLEAN
         /\ object.pending \in BOOLEAN
         /\ object.name \in IdOrNone
         /\ object.status \in IdOrNone
  BY DEF Object

----------------------------------------------------------------------------
(***************************************************************************)
(* Counting.                                                               *)
(***************************************************************************)

\* At most one element more.
LEMMA AtMostOneMore ==
  ASSUME NEW S, NEW T, NEW x, IsFiniteSet(S), T \subseteq S \cup {x}
  PROVE  /\ Cardinality(S) \in Nat
         /\ Cardinality(T) \in Nat
         /\ Cardinality(T) <= Cardinality(S) + 1
<1>1. Cardinality(S) \in Nat
  BY FS_CardinalityType
<1>2. /\ IsFiniteSet(S \cup {x})
      /\ Cardinality(S \cup {x})
           = IF x \in S THEN Cardinality(S) ELSE Cardinality(S) + 1
  BY FS_AddElement
<1>3. Cardinality(S \cup {x}) <= Cardinality(S) + 1
  BY <1>1, <1>2
<1>4. /\ IsFiniteSet(T)
      /\ Cardinality(T) <= Cardinality(S \cup {x})
  BY <1>2, FS_Subset
<1>5. Cardinality(T) \in Nat
  BY <1>4, FS_CardinalityType
<1>6. Cardinality(S \cup {x}) \in Nat
  BY <1>2, FS_CardinalityType
<1>. QED  BY <1>1, <1>3, <1>4, <1>5, <1>6

\* A subset is no larger.
LEMMA NoMore ==
  ASSUME NEW S, NEW T, IsFiniteSet(S), T \subseteq S
  PROVE  /\ Cardinality(S) \in Nat
         /\ Cardinality(T) \in Nat
         /\ Cardinality(T) <= Cardinality(S)
  BY FS_Subset, FS_CardinalityType

\* Removing an element takes one away.
LEMMA OneLess ==
  ASSUME NEW S, NEW x \in S, IsFiniteSet(S)
  PROVE  /\ Cardinality(S) \in Nat
         /\ Cardinality(S \ {x}) \in Nat
         /\ Cardinality(S \ {x}) = Cardinality(S) - 1
  BY FS_RemoveElement, FS_CardinalityType

\* A proper subset is smaller.
LEMMA OneGone ==
  ASSUME NEW S, NEW T, IsFiniteSet(S), T \subseteq S, T # S
  PROVE  /\ Cardinality(S) \in Nat
         /\ Cardinality(T) \in Nat
         /\ Cardinality(T) <= Cardinality(S) - 1
<1>1. PICK x \in S : x \notin T
  OBVIOUS
<1>2. IsFiniteSet(S \ {x}) /\ T \subseteq S \ {x}
  BY <1>1, FS_Subset
<1>3. Cardinality(T) \in Nat /\ Cardinality(T) <= Cardinality(S \ {x})
  BY <1>2, NoMore
<1>. QED  BY <1>3, OneLess

\* Sums of counters are counters, and grow with them.
LEMMA SumsGrow ==
  /\ \A i, j, m, n \in Nat :
        /\ i + j \in Nat
        /\ i <= m /\ j <= n => i + j <= m + n
  /\ \A i, j, k, l, m, n \in Nat :
        /\ i + j + k \in Nat
        /\ i <= l /\ j <= m /\ k <= n => i + j + k <= l + m + n
  OBVIOUS

----------------------------------------------------------------------------
(***************************************************************************)
(* Types.                                                                  *)
(***************************************************************************)

\* The initial states have the type.
LEMMA ManagedInitType ==
  ASSUME NEW object \in Object, ManagedInit(object), conn \in IdOrNone
  PROVE  ManagedTypeOK
  BY ManagedAssumption DEF ManagedInit, ManagedTypeOK, IdOrNone, Steps

\* A step of the reconciler keeps the types, and comes to Update only with a
\* plan to.
LEMMA ReconcilerType ==
  ASSUME ManagedTypeOK, NEW w \in Workers,
         ReconcilerStep(w) \/ ReconcilerFault(w) \/ SyncCache(w)
  PROVE  /\ ManagedTypeOK'
         /\ \A v \in Workers : plan'[v] \in {plan[v], "status"}
         /\ \A v \in Workers : pc'[v] = "update" => "update" \in {pc[v], plan[v]}
<1>. USE DEF ManagedTypeOK, IdOrNone, Steps
<1>0. NewObject \in Object
  BY NewObjectType
<1>1. CASE Reconcile(w)
  BY <1>0, <1>1, ManagedAssumption DEF Reconcile, Goto
<1>2. CASE AddFinalizer(w)
  <2>1. /\ [api EXCEPT !.finalizer = TRUE] \in Object
        /\ [mr[w] EXCEPT !.finalizer = TRUE] \in Object
    BY ObjectUpdate
  <2>2. /\ api' \in Object
        /\ mr' \in [Workers -> Object]
        /\ current' \subseteq Workers
        /\ fresh' \subseteq Workers
    <3>1. CASE mr[w].finalizer
      BY <1>2, <3>1 DEF AddFinalizer
    <3>2. CASE ~mr[w].finalizer
      <4>1. /\ api' = [api EXCEPT !.finalizer = TRUE]
            /\ mr' = [mr EXCEPT ![w] = [mr[w] EXCEPT !.finalizer = TRUE]]
            /\ current' = {}
            /\ fresh' = {w}
        BY <1>2, <3>2 DEF AddFinalizer, Store
      <4>. QED  BY <2>1, <4>1
    <3>. QED  BY <3>1, <3>2
  <2>3. plan[w] \in {"pend", "update", "status"}
    OBVIOUS
  <2>4. pc' \in [Workers -> Steps]
    BY <1>2, <2>3 DEF AddFinalizer, Goto
  <2>5. \A v \in Workers : pc'[v] = "update" => "update" \in {pc[v], plan[v]}
    BY <1>2, <2>3 DEF AddFinalizer, Goto
  <2>. QED  BY <1>2, <2>2, <2>4, <2>5 DEF AddFinalizer
<1>3. CASE MarkCreatePending(w)
  <2>1. /\ [api EXCEPT !.pending = TRUE] \in Object
        /\ [mr[w] EXCEPT !.pending = TRUE] \in Object
    BY ObjectUpdate
  <2>. QED
    BY <1>3, <2>1, ManagedAssumption
    DEF MarkCreatePending, Store, Goto, CountOverride
<1>4. CASE RemoveFinalizer(w)
  <2>1. [api EXCEPT !.present = FALSE, !.finalizer = FALSE] \in Object
    BY DEF Object
  <2>. QED
    BY <1>0, <1>4, <2>1, ManagedAssumption
    DEF RemoveFinalizer, Store, Finish, Goto, CountOverride
<1>5. CASE Conflict(w)
  BY <1>0, <1>5, ManagedAssumption DEF Conflict, Finish, Goto
<1>6. CASE SaveAnnotations(w)
  <2>1. /\ mr[w].name \in IdOrNone
        /\ mr[w].status \in IdOrNone
    BY ObjectFields
  <2>2. [api EXCEPT !.name = mr[w].name, !.pending = FALSE] \in Object
    BY <2>1 DEF Object
  <2>3. api' \in Object /\ [api' EXCEPT !.status = mr[w].status] \in Object
    BY <1>6, <2>1, <2>2, ObjectUpdate DEF SaveAnnotations, Store
  <2>4. faults' \in 0 .. MaxFaults
    BY <1>6, ManagedAssumption DEF SaveAnnotations, Fault
  <2>5. mr' \in [Workers -> Object]
    BY <1>6, <2>3 DEF SaveAnnotations
  <2>6. current' \subseteq Workers /\ fresh' \subseteq Workers
    BY <1>6 DEF SaveAnnotations, Store
  <2>. QED
    BY <1>6, <2>3, <2>4, <2>5, <2>6 DEF SaveAnnotations, Goto
<1>7. CASE PublishConnection(w)
  BY <1>0, <1>7, ManagedAssumption DEF PublishConnection, Goto
<1>8. CASE SaveStatus(w)
  <2>1. [api EXCEPT !.status = mr[w].status] \in Object
    BY ObjectFields, ObjectUpdate
  <2>2. api' \in Object /\ current' \subseteq Workers /\ fresh' \subseteq Workers
    BY <1>8, <2>1 DEF SaveStatus, Store
  <2>. QED  BY <1>0, <1>8, <2>2 DEF SaveStatus, Finish, Goto
<1>9. CASE StatusConflict(w)
  BY <1>0, <1>9, ManagedAssumption
  DEF StatusConflict, Finish, Goto, CountDiscarded
<1>10. CASE LoseAnnotations(w)
  BY <1>0, <1>10, ManagedAssumption DEF LoseAnnotations, Fault, Goto
<1>11. CASE LosePublication(w)
  BY <1>0, <1>11, ManagedAssumption DEF LosePublication, Fault, Goto
<1>12. CASE Abort(w)
  BY <1>0, <1>12, ManagedAssumption DEF Abort, Fault, Finish, Goto
<1>13. CASE SyncCache(w)
  BY <1>0, <1>13, ManagedAssumption DEF SyncCache
<1>. QED
  BY <1>1, <1>2, <1>3, <1>4, <1>5, <1>6, <1>7, <1>8, <1>9, <1>10, <1>11,
     <1>12, <1>13
  DEF ReconcilerStep, ReconcilerFault

\* ... and so does the user.
LEMMA UserType ==
  ASSUME ManagedTypeOK, UserStep
  PROVE  ManagedTypeOK' /\ UNCHANGED <<pc, plan>>
<1>1. api' \in Object
  BY ObjectUpdate DEF UserStep, RequestDelete, DeleteSecret, ManagedTypeOK
<1>. QED
  BY <1>1 DEF UserStep, RequestDelete, DeleteSecret, ManagedTypeOK, IdOrNone

----------------------------------------------------------------------------
(***************************************************************************)
(* Copies of the latest version.                                           *)
(***************************************************************************)

\* The steps a worker takes with the copy it has read.
Reading == {"observe", "finalizer", "pend", "unfinalize", "update", "delete"}

\* A current cache is the stored resource, and so is a copy of the latest
\* version until Create or Update changes it.
CopiesAgree ==
    /\ \A w \in current : cache[w] = api
    /\ \A w \in fresh : pc[w] \in Reading => mr[w] = api
    /\ ~api.present => fresh = {}

\* The reconciler's steps keep it.
LEMMA ReconcilerCopies ==
  ASSUME ManagedTypeOK, CopiesAgree, NEW w \in Workers,
         ReconcilerStep(w) \/ ReconcilerFault(w) \/ SyncCache(w)
  PROVE  CopiesAgree'
<1>. USE DEF ManagedTypeOK, CopiesAgree, Reading
<1>1. CASE Reconcile(w)
  BY <1>1 DEF Reconcile, Goto
<1>2. CASE AddFinalizer(w)
  <2>1. CASE mr[w].finalizer
    BY <1>2, <2>1 DEF AddFinalizer, Goto
  <2>2. CASE ~mr[w].finalizer
    <3>1. mr[w] = api /\ api.present
      BY <1>2, <2>2 DEF AddFinalizer
    <3>2. /\ api' = [api EXCEPT !.finalizer = TRUE]
          /\ mr' = [mr EXCEPT ![w] = [mr[w] EXCEPT !.finalizer = TRUE]]
          /\ current' = {}
          /\ fresh' = {w}
      BY <1>2, <2>2 DEF AddFinalizer, Store
    <3>3. mr'[w] = api' /\ api'.present = api.present
      BY <3>1, <3>2 DEF Object
    <3>. QED  BY <3>1, <3>2, <3>3
  <2>. QED  BY <2>1, <2>2
<1>3. CASE MarkCreatePending(w)
  BY <1>3 DEF MarkCreatePending, Store, Goto
<1>4. CASE RemoveFinalizer(w)
  BY <1>4 DEF RemoveFinalizer, Store
<1>5. CASE Conflict(w)
  BY <1>5 DEF Conflict, Finish, Goto
<1>6. CASE SaveAnnotations(w)
  BY <1>6 DEF SaveAnnotations, Store, Goto
<1>7. CASE PublishConnection(w)
  BY <1>7 DEF PublishConnection, Goto
<1>8. CASE SaveStatus(w)
  BY <1>8 DEF SaveStatus, Store, Finish, Goto
<1>9. CASE StatusConflict(w)
  BY <1>9 DEF StatusConflict, Finish, Goto
<1>10. CASE LoseAnnotations(w)
  BY <1>10 DEF LoseAnnotations, Goto
<1>11. CASE LosePublication(w)
  BY <1>11 DEF LosePublication, Goto
<1>12. CASE Abort(w)
  BY <1>12 DEF Abort, Finish, Goto
<1>13. CASE SyncCache(w)
  BY <1>13 DEF SyncCache
<1>. QED
  BY <1>1, <1>2, <1>3, <1>4, <1>5, <1>6, <1>7, <1>8, <1>9, <1>10, <1>11,
     <1>12, <1>13
  DEF ReconcilerStep, ReconcilerFault

\* ... and so do the user's.
LEMMA UserCopies == CopiesAgree /\ UserStep => CopiesAgree'
  BY DEF CopiesAgree, UserStep, RequestDelete, DeleteSecret

\* A controller keeps it when it leaves the resource alone and changes a copy
\* only on the way to a step that does not read it.
LEMMA ControllerCopies ==
  ASSUME ManagedTypeOK, CopiesAgree, NEW w \in Workers,
         UNCHANGED <<api, cache, current, fresh>>,
         \A v \in Workers \ {w} : mr'[v] = mr[v] /\ pc'[v] = pc[v],
         pc'[w] \in Reading => pc[w] \in Reading /\ mr'[w] = mr[w]
  PROVE  CopiesAgree'
  BY DEF ManagedTypeOK, CopiesAgree

\* As long as a reconcile has written nothing, a copy of the latest version
\* was read from a cache that still holds it.
CopiesCurrent ==
    \A w \in fresh : pc[w] \in {"observe", "unfinalize"} => w \in current

\* The reconciler's steps keep it.
LEMMA ReconcilerCurrent ==
  ASSUME ManagedTypeOK, CopiesCurrent, NEW w \in Workers,
         ReconcilerStep(w) \/ ReconcilerFault(w) \/ SyncCache(w)
  PROVE  CopiesCurrent'
<1>. USE DEF ManagedTypeOK, CopiesCurrent
<1>1. CASE Reconcile(w) \/ SyncCache(w)
  BY <1>1 DEF Reconcile, SyncCache, Goto
<1>2. CASE AddFinalizer(w)
  BY <1>2 DEF AddFinalizer, Store, Goto
<1>3. CASE MarkCreatePending(w) \/ RemoveFinalizer(w)
  BY <1>3 DEF MarkCreatePending, RemoveFinalizer, Store, Finish, Goto
<1>4. CASE Conflict(w) \/ StatusConflict(w) \/ Abort(w)
  BY <1>4 DEF Conflict, StatusConflict, Abort, Finish, Goto
<1>5. CASE SaveAnnotations(w) \/ LoseAnnotations(w)
  BY <1>5 DEF SaveAnnotations, LoseAnnotations, Store, Goto
<1>6. CASE PublishConnection(w) \/ LosePublication(w)
  BY <1>6 DEF PublishConnection, LosePublication, Goto
<1>7. CASE SaveStatus(w)
  BY <1>7 DEF SaveStatus, Store, Finish, Goto
<1>. QED
  BY <1>1, <1>2, <1>3, <1>4, <1>5, <1>6, <1>7
  DEF ReconcilerStep, ReconcilerFault

----------------------------------------------------------------------------
(***************************************************************************)
(* Before the finalizer.                                                   *)
(***************************************************************************)

\* The steps that lead up to the finalizer.
Before == {"idle", "observe", "readurls", "readcrl", "finalizer", "status"}

\* Until the finalizer is stored, the resource is as the user made it and no
\* worker has done anything for it.
Untouched ==
    api.present /\ ~api.finalizer =>
        /\ api = NewObject
        /\ \A w \in Workers :
              cache[w] = NewObject /\ mr[w] = NewObject /\ secret[w] = NoId
        /\ \A w \in Workers : pc[w] \in Before

\* The reconciler's steps keep it.
LEMMA ReconcilerUntouched ==
  ASSUME ManagedTypeOK, CopiesAgree, Untouched, NEW w \in Workers,
         ReconcilerStep(w) \/ ReconcilerFault(w) \/ SyncCache(w)
  PROVE  Untouched'
<1>. USE DEF ManagedTypeOK, CopiesAgree, Untouched, Before, NewObject, Reading
<1>1. CASE Reconcile(w)
  BY <1>1 DEF Reconcile, Goto
<1>2. CASE AddFinalizer(w)
  BY <1>2 DEF AddFinalizer, Store, Object
<1>3. CASE MarkCreatePending(w)
  BY <1>3 DEF MarkCreatePending, Store, Object
<1>4. CASE RemoveFinalizer(w)
  BY <1>4 DEF RemoveFinalizer, Store, Object
<1>5. CASE Conflict(w)
  BY <1>5 DEF Conflict, Finish, Goto
<1>6. CASE SaveAnnotations(w)
  BY <1>6 DEF SaveAnnotations, Store, Object
<1>7. CASE PublishConnection(w)
  BY <1>7 DEF PublishConnection
<1>8. CASE SaveStatus(w)
  BY <1>8 DEF SaveStatus, Store, Finish, Goto, Object
<1>9. CASE StatusConflict(w)
  BY <1>9 DEF StatusConflict, Finish, Goto
<1>10. CASE LoseAnnotations(w)
  BY <1>10 DEF LoseAnnotations, Goto
<1>11. CASE LosePublication(w)
  BY <1>11 DEF LosePublication, Goto
<1>12. CASE Abort(w)
  BY <1>12 DEF Abort, Finish, Goto
<1>13. CASE SyncCache(w)
  BY <1>13 DEF SyncCache
<1>. QED
  BY <1>1, <1>2, <1>3, <1>4, <1>5, <1>6, <1>7, <1>8, <1>9, <1>10, <1>11,
     <1>12, <1>13
  DEF ReconcilerStep, ReconcilerFault

\* ... and so do the user's.
LEMMA UserUntouched ==
  ManagedTypeOK /\ Untouched /\ UserStep => Untouched'
  BY DEF Untouched, UserStep, RequestDelete, DeleteSecret, ManagedTypeOK, Object

\* A controller does nothing for a resource without a finalizer but to read.
LEMMA ControllerUntouched ==
  ASSUME ManagedTypeOK, Untouched, NEW w \in Workers,
         UNCHANGED <<api, cache>>,
         \A v \in Workers \ {w} :
             mr'[v] = mr[v] /\ pc'[v] = pc[v] /\ secret'[v] = secret[v],
         \/ pc[w] \notin Before
         \/ pc'[w] \in Before /\ mr'[w] = mr[w] /\ secret'[w] = secret[w]
         \/ mr[w].deleting
  PROVE  Untouched'
<1>1. SUFFICES ASSUME api.present, ~api.finalizer
               PROVE  /\ mr'[w] = NewObject /\ secret'[w] = NoId
                      /\ pc'[w] \in Before
  BY DEF Untouched
<1>2. /\ mr[w] = NewObject /\ secret[w] = NoId
      /\ pc[w] \in Before
  BY <1>1 DEF Untouched
<1>3. ~mr[w].deleting
  BY <1>2 DEF NewObject
<1>. QED  BY <1>2, <1>3

----------------------------------------------------------------------------
(***************************************************************************)
(* The counters.                                                           *)
(***************************************************************************)

\* No failure, override or discarded identifier is taken back.
LEMMA ReconcilerCounts ==
  ASSUME ManagedTypeOK, NEW w \in Workers,
         ReconcilerStep(w) \/ ReconcilerFault(w) \/ SyncCache(w)
  PROVE  faults <= faults' /\ overrides <= overrides' /\ discarded <= discarded'
<1>1. /\ faults \in Nat /\ overrides \in Nat /\ discarded \in Nat
  BY ManagedAssumption DEF ManagedTypeOK
<1>2. CASE Reconcile(w) \/ AddFinalizer(w) \/ PublishConnection(w) \/ SyncCache(w)
  BY <1>1, <1>2 DEF Reconcile, AddFinalizer, PublishConnection, SyncCache
<1>3. CASE MarkCreatePending(w) \/ RemoveFinalizer(w)
  BY <1>1, <1>3 DEF MarkCreatePending, RemoveFinalizer, CountOverride
<1>4. CASE Conflict(w) \/ SaveStatus(w)
  BY <1>1, <1>4 DEF Conflict, SaveStatus
<1>5. CASE SaveAnnotations(w)
  BY <1>1, <1>5 DEF SaveAnnotations, Fault
<1>6. CASE StatusConflict(w)
  BY <1>1, <1>6 DEF StatusConflict, CountDiscarded
<1>7. CASE LoseAnnotations(w) \/ LosePublication(w) \/ Abort(w)
  BY <1>1, <1>7 DEF LoseAnnotations, LosePublication, Abort, Fault
<1>. QED
  BY <1>2, <1>3, <1>4, <1>5, <1>6, <1>7 DEF ReconcilerStep, ReconcilerFault

----------------------------------------------------------------------------
(***************************************************************************)
(* What a step of the reconciler can touch.                                *)
(***************************************************************************)

\* It is the step of one worker, and a stored change outdates the others.
LEMMA ReconcilerFrame ==
  ASSUME ManagedTypeOK, NEW w \in Workers,
         ReconcilerStep(w) \/ ReconcilerFault(w) \/ SyncCache(w)
  PROVE  /\ \A v \in Workers \ {w} :
               /\ mr'[v] = mr[v] /\ pc'[v] = pc[v]
               /\ plan'[v] = plan[v] /\ secret'[v] = secret[v]
         /\ fresh' \subseteq fresh \cup {w}
         /\ api' = api \/ fresh' \subseteq {w}
<1>. USE DEF ManagedTypeOK
<1>1. CASE Reconcile(w) \/ SyncCache(w)
  BY <1>1 DEF Reconcile, SyncCache, Goto
<1>2. CASE AddFinalizer(w)
  BY <1>2 DEF AddFinalizer, Store, Goto
<1>3. CASE MarkCreatePending(w) \/ RemoveFinalizer(w)
  BY <1>3 DEF MarkCreatePending, RemoveFinalizer, Store, Finish, Goto
<1>4. CASE Conflict(w) \/ StatusConflict(w) \/ Abort(w)
  BY <1>4 DEF Conflict, StatusConflict, Abort, Finish, Goto
<1>5. CASE SaveAnnotations(w)
  BY <1>5 DEF SaveAnnotations, Store, Goto
<1>6. CASE LoseAnnotations(w) \/ PublishConnection(w) \/ LosePublication(w)
  BY <1>6 DEF LoseAnnotations, PublishConnection, LosePublication, Goto
<1>7. CASE SaveStatus(w)
  BY <1>7 DEF SaveStatus, Store, Finish, Goto
<1>. QED
  BY <1>1, <1>2, <1>3, <1>4, <1>5, <1>6, <1>7
  DEF ReconcilerStep, ReconcilerFault

\* The external names and the recorded identifiers there are anywhere.
ExternalNames == {api.name} \cup {cache[w].name : w \in Workers}
                            \cup {mr[w].name : w \in Workers}

Statuses == {api.status} \cup {cache[w].status : w \in Workers}
                         \cup {mr[w].status : w \in Workers}

\* The reconciler copies them and makes up none.
LEMMA ReconcilerRecords ==
  ASSUME ManagedTypeOK, NEW w \in Workers,
         ReconcilerStep(w) \/ ReconcilerFault(w) \/ SyncCache(w)
  PROVE  /\ ExternalNames' \subseteq ExternalNames \cup {NoId}
         /\ Statuses' \subseteq Statuses \cup {NoId}
<1>. USE DEF ManagedTypeOK
<1>0. /\ NewObject.name = NoId /\ NewObject.status = NoId
      /\ \A v \in Workers : mr[v] \in Object /\ cache[v] \in Object
  BY DEF NewObject
<1>. SUFFICES /\ api'.name \in ExternalNames /\ api'.status \in Statuses
              /\ \A v \in Workers :
                    /\ cache'[v].name \in ExternalNames
                    /\ cache'[v].status \in Statuses
                    /\ mr'[v].name \in ExternalNames \cup {NoId}
                    /\ mr'[v].status \in Statuses \cup {NoId}
  <2>1. ExternalNames' = {api'.name} \cup {cache'[v].name : v \in Workers}
                                     \cup {mr'[v].name : v \in Workers}
    BY DEF ExternalNames
  <2>2. Statuses' = {api'.status} \cup {cache'[v].status : v \in Workers}
                                  \cup {mr'[v].status : v \in Workers}
    BY DEF Statuses
  <2>. QED  BY <2>1, <2>2
<1>. USE DEF ExternalNames, Statuses
<1>1. CASE Reconcile(w)
  BY <1>0, <1>1 DEF Reconcile
<1>2. CASE AddFinalizer(w)
  <2>1. CASE mr[w].finalizer
    BY <1>0, <1>2, <2>1 DEF AddFinalizer
  <2>2. CASE ~mr[w].finalizer
    BY <1>0, <1>2, <2>2 DEF AddFinalizer, Store, Object
  <2>. QED  BY <2>1, <2>2
<1>3. CASE MarkCreatePending(w)
  BY <1>0, <1>3 DEF MarkCreatePending, Store, Object
<1>4. CASE RemoveFinalizer(w)
  BY <1>0, <1>4 DEF RemoveFinalizer, Store, Finish, Object
<1>5. CASE Conflict(w) \/ StatusConflict(w) \/ Abort(w)
  BY <1>0, <1>5 DEF Conflict, StatusConflict, Abort, Finish
<1>6. CASE SaveAnnotations(w)
  <2>1. api'.name = mr[w].name /\ api'.status = api.status /\ cache' = cache
    BY <1>6 DEF SaveAnnotations, Store, Object
  <2>2. /\ mr'[w].name = mr[w].name
        /\ mr'[w].status \in {mr[w].status, api.status}
        /\ \A v \in Workers \ {w} : mr'[v] = mr[v]
    <3>1. api' \in Object
      BY <1>0, <1>6 DEF SaveAnnotations, Store, Object
    <3>2. CASE mr' = [mr EXCEPT ![w] = api']
      BY <2>1, <3>1, <3>2
    <3>3. CASE mr' = [mr EXCEPT ![w] = [api' EXCEPT !.status = mr[w].status]]
      <4>1. /\ [api' EXCEPT !.status = mr[w].status].name = api'.name
            /\ [api' EXCEPT !.status = mr[w].status].status = mr[w].status
        BY <3>1 DEF Object
      <4>. QED  BY <2>1, <3>3, <4>1
    <3>. QED  BY <1>6, <3>2, <3>3 DEF SaveAnnotations
  <2>. QED  BY <1>0, <2>1, <2>2
<1>7. CASE LoseAnnotations(w) \/ PublishConnection(w) \/ LosePublication(w)
  BY <1>0, <1>7 DEF LoseAnnotations, PublishConnection, LosePublication
<1>8. CASE SaveStatus(w)
  BY <1>0, <1>8 DEF SaveStatus, Store, Finish, Object
<1>9. CASE SyncCache(w)
  BY <1>0, <1>9 DEF SyncCache
<1>. QED
  BY <1>1, <1>2, <1>3, <1>4, <1>5, <1>6, <1>7, <1>8, <1>9
  DEF ReconcilerStep, ReconcilerFault

\* The reconciler publishes the connection details it was given.
LEMMA ReconcilerSecrets ==
  ASSUME ManagedTypeOK, NEW w \in Workers,
         ReconcilerStep(w) \/ ReconcilerFault(w) \/ SyncCache(w)
  PROVE  /\ \A v \in Workers : secret'[v] \in {secret[v], NoId}
         /\ conn' \in {conn, secret[w]}
<1>. USE DEF ManagedTypeOK
<1>1. CASE Reconcile(w) \/ AddFinalizer(w) \/ MarkCreatePending(w) \/ SyncCache(w)
  BY <1>1 DEF Reconcile, AddFinalizer, MarkCreatePending, SyncCache
<1>2. CASE RemoveFinalizer(w) \/ Conflict(w) \/ SaveStatus(w) \/ StatusConflict(w)
  BY <1>2 DEF RemoveFinalizer, Conflict, SaveStatus, StatusConflict, Finish
<1>3. CASE SaveAnnotations(w) \/ LoseAnnotations(w)
  BY <1>3 DEF SaveAnnotations, LoseAnnotations
<1>4. CASE PublishConnection(w) \/ LosePublication(w)
  BY <1>4 DEF PublishConnection, LosePublication
<1>5. CASE Abort(w)
  BY <1>5 DEF Abort, Finish
<1>. QED
  BY <1>1, <1>2, <1>3, <1>4, <1>5 DEF ReconcilerStep, ReconcilerFault

----------------------------------------------------------------------------
(***************************************************************************)
(* What the writes of the reconciler store, field by field.                *)
(***************************************************************************)

\* The finalizer.
LEMMA AddFinalizerStores ==
  ASSUME ManagedTypeOK, NEW w \in Workers, AddFinalizer(w)
  PROVE  /\ api'.present = api.present /\ api'.deleting = api.deleting
         /\ api'.pending = api.pending /\ api'.name = api.name
         /\ api'.status = api.status
         /\ mr'[w].finalizer /\ mr'[w].deleting = mr[w].deleting
         /\ mr'[w].pending = mr[w].pending /\ mr'[w].name = mr[w].name
         /\ mr'[w].status = mr[w].status
         /\ api' = api \/ api'.finalizer
         /\ fresh' \subseteq fresh
         /\ fresh' = fresh \/ fresh' = {w}
  BY DEF AddFinalizer, Store, Object, ManagedTypeOK

\* The pending annotation.
LEMMA MarkCreatePendingStores ==
  ASSUME ManagedTypeOK, NEW w \in Workers, MarkCreatePending(w)
  PROVE  /\ api'.present = api.present /\ api'.deleting = api.deleting
         /\ api'.finalizer = api.finalizer /\ api'.name = api.name
         /\ api'.status = api.status /\ api'.pending
         /\ mr'[w].status = mr[w].status /\ mr'[w].name = mr[w].name
         /\ w \in fresh /\ fresh' = {w}
  BY DEF MarkCreatePending, Store, Object, ManagedTypeOK

\* The annotations.
LEMMA SaveAnnotationsStores ==
  ASSUME ManagedTypeOK, NEW w \in Workers, SaveAnnotations(w)
  PROVE  /\ api.present /\ api'.present = api.present
         /\ api'.deleting = api.deleting
         /\ api'.finalizer = api.finalizer /\ ~api'.pending
         /\ api'.name = mr[w].name /\ api'.status = api.status
         /\ mr'[w].name = mr[w].name
         /\ \/ mr'[w].status = mr[w].status /\ faults' = faults
            \/ mr'[w].status = api.status /\ faults' = faults + 1
         /\ fresh' = {w}
<1>. USE DEF ManagedTypeOK
<1>1. api' = [api EXCEPT !.name = mr[w].name, !.pending = FALSE] /\ fresh' = {w}
  BY DEF SaveAnnotations, Store
<1>2. /\ api'.name = mr[w].name /\ ~api'.pending
      /\ api'.present = api.present /\ api'.deleting = api.deleting
      /\ api'.finalizer = api.finalizer /\ api'.status = api.status
  BY <1>1 DEF Object
<1>3. /\ [api' EXCEPT !.status = mr[w].status].name = api'.name
      /\ [api' EXCEPT !.status = mr[w].status].status = mr[w].status
  BY <1>1 DEF Object
<1>. QED  BY <1>1, <1>2, <1>3 DEF SaveAnnotations, Fault

\* The end of the resource.
LEMMA RemoveFinalizerStores ==
  ASSUME ManagedTypeOK, NEW w \in Workers, RemoveFinalizer(w)
  PROVE  /\ ~api'.present /\ api'.name = api.name /\ api'.status = api.status
         /\ w \in fresh /\ fresh' = {}
  BY DEF RemoveFinalizer, Store, Object, ManagedTypeOK

\* The status.
LEMMA SaveStatusStores ==
  ASSUME ManagedTypeOK, NEW w \in Workers, SaveStatus(w)
  PROVE  /\ api'.present = api.present /\ api'.deleting = api.deleting
         /\ api'.finalizer = api.finalizer /\ api'.pending = api.pending
         /\ api'.name = api.name
         /\ api'.status = mr[w].status
         /\ w \in fresh
         /\ \/ api'.status = api.status /\ fresh' = fresh \ {w}
            \/ fresh' = {}
  BY DEF SaveStatus, Store, Object, ManagedTypeOK

\* A deletion.
LEMMA RequestDeleteStores ==
  ASSUME ManagedTypeOK, RequestDelete
  PROVE  /\ api.present /\ api'.present = api.finalizer
         /\ api'.finalizer = api.finalizer /\ api'.pending = api.pending
         /\ api'.name = api.name /\ api'.status = api.status
         /\ fresh' = {}
  BY DEF RequestDelete, Object, ManagedTypeOK

\* Where the reconciler's step copies the recorded identifiers from.
LEMMA ReconcilerStatuses ==
  ASSUME ManagedTypeOK, NEW w \in Workers,
         ReconcilerStep(w) \/ ReconcilerFault(w) \/ SyncCache(w)
  PROVE  /\ \/ api'.status = api.status
            \/ SaveStatus(w) /\ api'.status = mr[w].status
         /\ \A v \in Workers : cache'[v].status \in {cache[v].status, api.status}
         /\ mr'[w].status \in {mr[w].status, cache[w].status, api.status, NoId}
<1>. USE DEF ManagedTypeOK
<1>0. NewObject.status = NoId
  BY DEF NewObject
<1>1. CASE Reconcile(w)
  BY <1>1 DEF Reconcile
<1>2. CASE AddFinalizer(w)
  BY <1>2, AddFinalizerStores DEF AddFinalizer
<1>3. CASE MarkCreatePending(w)
  BY <1>3, MarkCreatePendingStores DEF MarkCreatePending
<1>4. CASE RemoveFinalizer(w)
  BY <1>0, <1>4, RemoveFinalizerStores DEF RemoveFinalizer, Finish
<1>5. CASE Conflict(w) \/ StatusConflict(w) \/ Abort(w)
  BY <1>0, <1>5 DEF Conflict, StatusConflict, Abort, Finish
<1>6. CASE SaveAnnotations(w)
  BY <1>6, SaveAnnotationsStores DEF SaveAnnotations
<1>7. CASE LoseAnnotations(w) \/ PublishConnection(w) \/ LosePublication(w)
  BY <1>7 DEF LoseAnnotations, PublishConnection, LosePublication
<1>8. CASE SaveStatus(w)
  BY <1>0, <1>8, SaveStatusStores DEF SaveStatus, Finish
<1>9. CASE SyncCache(w)
  BY <1>9 DEF SyncCache
<1>. QED
  BY <1>1, <1>2, <1>3, <1>4, <1>5, <1>6, <1>7, <1>8, <1>9
  DEF ReconcilerStep, ReconcilerFault

----------------------------------------------------------------------------
(***************************************************************************)
(* The release.                                                            *)
(***************************************************************************)

\* Only the removal of the finalizer releases the resource, and it does so on
\* the word of a copy of the latest version.
LEMMA ReconcilerReleases ==
  ASSUME ManagedTypeOK, CopiesAgree, NEW w \in Workers, Released,
         ReconcilerStep(w) \/ ReconcilerFault(w) \/ SyncCache(w)
  PROVE  RemoveFinalizer(w) /\ pc[w] = "unfinalize" /\ w \in fresh /\ mr[w] = api
<1>1. CASE RemoveFinalizer(w)
  BY <1>1 DEF RemoveFinalizer, CopiesAgree, Reading
<1>2. CASE AddFinalizer(w)
  BY <1>2, AddFinalizerStores DEF Released
<1>3. CASE MarkCreatePending(w)
  BY <1>3, MarkCreatePendingStores DEF Released
<1>4. CASE SaveAnnotations(w)
  BY <1>4, SaveAnnotationsStores DEF Released
<1>5. CASE SaveStatus(w)
  BY <1>5, SaveStatusStores DEF Released
<1>6. CASE UNCHANGED api
  BY <1>6 DEF Released
<1>. QED
  BY <1>1, <1>2, <1>3, <1>4, <1>5, <1>6
  DEF ReconcilerStep, ReconcilerFault, Reconcile, Conflict, PublishConnection,
      StatusConflict, LoseAnnotations, LosePublication, Abort, SyncCache

\* The user's deletion leaves the finalizer where it is.
LEMMA UserReleases == ManagedTypeOK /\ UserStep => ~Released
  BY RequestDeleteStores DEF UserStep, DeleteSecret, Released
----------------------------------------------------------------------------
(***************************************************************************)
(* Creations in flight.                                                    *)
(***************************************************************************)

\* The steps between the pending annotation and its answer.
CreationSteps == {"create", "readrole", "annotate", "annotateFailed"}

\* Unless a process has gone ahead over the creation of another, one at a time is
\* creating, and the resource says so.
Marked ==
    Undisputed =>
        /\ \A v, w \in Workers :
              pc[v] \in CreationSteps /\ pc[w] \in CreationSteps => v = w
        /\ \A w \in Workers : pc[w] \in CreationSteps => api.pending

\* Another process may be creating, as far as the resource says.
Contended == api.pending /\ Cardinality(Workers) # 1

\* One process is at one step.
LEMMA OneProcess ==
  Cardinality(Workers) = 1 => \A v, w \in Workers : v = w
<1>. SUFFICES ASSUME Cardinality(Workers) = 1, NEW v \in Workers, NEW w \in Workers,
                     v # w
              PROVE  FALSE
  OBVIOUS
<1>1. /\ Cardinality(Workers \ {v}) = 0
      /\ IsFiniteSet(Workers \ {v})
  BY OneLess, FS_RemoveElement, ManagedAssumption
<1>. QED  BY <1>1, FS_EmptySet

\* Where another process is creating, the resource is contended.
LEMMA CreationContends ==
  ASSUME Marked, Undisputed, NEW v \in Workers, NEW w \in Workers, v # w,
         pc[v] \in CreationSteps
  PROVE  Contended
  BY OneProcess DEF Marked, Undisputed, Contended

\* The reconciler's steps keep the mark: a process sets it before it creates, on a
\* copy of the latest version, and takes it back when it is done.
LEMMA ReconcilerMarked ==
  ASSUME ManagedTypeOK, CopiesAgree, Marked, NEW w \in Workers,
         ReconcilerStep(w) \/ ReconcilerFault(w) \/ SyncCache(w)
  PROVE  Marked' /\ (Undisputed' => Undisputed)
<1>. USE DEF CreationSteps, ManagedTypeOK
<1>1. /\ overrides' = 0 => overrides = 0
      /\ Undisputed' => Undisputed
      /\ \A v \in Workers \ {w} : pc'[v] = pc[v]
  BY ReconcilerCounts, ReconcilerFrame, ManagedAssumption DEF Undisputed
<1>2. CASE MarkCreatePending(w)
  <2>1. overrides' = 0 => ~mr[w].pending /\ mr[w] = api
    BY <1>2, ManagedAssumption
    DEF MarkCreatePending, CountOverride, CopiesAgree, Reading
  <2>2. overrides' = 0 => \A v \in Workers \ {w} : pc'[v] \notin CreationSteps
    BY <1>1, <2>1 DEF Marked, Undisputed
  <2>3. Undisputed' => \A u, v \in Workers :
           pc'[u] \in CreationSteps /\ pc'[v] \in CreationSteps => u = v
    BY <2>2, OneProcess DEF Undisputed
  <2>. QED  BY <1>1, <1>2, <2>3, MarkCreatePendingStores DEF Marked
<1>3. CASE SaveAnnotations(w)
  <2>1. pc[w] \in CreationSteps /\ pc'[w] \notin CreationSteps
    BY <1>3 DEF SaveAnnotations, Goto
  <2>2. Undisputed' => \A v \in Workers : pc'[v] \notin CreationSteps
    BY <1>1, <2>1 DEF Marked
  <2>. QED  BY <1>1, <2>2 DEF Marked, Undisputed
<1>4. CASE /\ api'.pending = api.pending
           /\ pc'[w] \in CreationSteps => pc[w] \in CreationSteps
  <2>1. \A v \in Workers : pc'[v] \in CreationSteps => pc[v] \in CreationSteps
    BY <1>1, <1>4
  <2>. QED  BY <1>1, <1>4, <2>1 DEF Marked
<1>5. CASE AddFinalizer(w)
  BY <1>4, <1>5, AddFinalizerStores DEF AddFinalizer, Goto
<1>6. CASE RemoveFinalizer(w)
  <2>1. api'.pending = api.pending
    BY <1>6 DEF RemoveFinalizer, Store, Object
  <2>. QED  BY <1>4, <1>6, <2>1 DEF RemoveFinalizer, Finish, Goto
<1>7. CASE SaveStatus(w)
  BY <1>4, <1>7, SaveStatusStores DEF SaveStatus, Finish, Goto
<1>8. CASE Reconcile(w) \/ PublishConnection(w) \/ LosePublication(w)
           \/ LoseAnnotations(w) \/ SyncCache(w)
  BY <1>4, <1>8
  DEF Reconcile, PublishConnection, LosePublication, LoseAnnotations, SyncCache,
      Goto
<1>9. CASE Conflict(w) \/ StatusConflict(w) \/ Abort(w)
  BY <1>4, <1>9 DEF Conflict, StatusConflict, Abort, Finish, Goto
<1>. QED
  BY <1>2, <1>3, <1>5, <1>6, <1>7, <1>8, <1>9
  DEF ReconcilerStep, ReconcilerFault

\* ... and so do the user's.
LEMMA UserMarked ==
  ManagedTypeOK /\ Marked /\ UserStep => Marked' /\ Undisputed' = Undisputed
  BY RequestDeleteStores
  DEF Marked, Undisputed, UserStep, RequestDelete, DeleteSecret

\* A controller keeps it when it begins no creation of its own.
LEMMA ControllerMarked ==
  ASSUME Marked, NEW w \in Workers, UNCHANGED <<api, overrides>>,
         \A v \in Workers \ {w} : pc'[v] = pc[v],
         pc'[w] \in CreationSteps => pc[w] \in CreationSteps
  PROVE  Marked' /\ Undisputed' = Undisputed
<1>1. \A v \in Workers : pc'[v] \in CreationSteps => pc[v] \in CreationSteps
  OBVIOUS
<1>. QED  BY <1>1 DEF Marked, Undisputed

\* A finalizer that is not removed over the creation of another process is removed
\* while nobody is creating.
LEMMA ReleaseUncontended ==
  ASSUME ManagedTypeOK, CopiesAgree, Marked, NEW w \in Workers, RemoveFinalizer(w),
         Undisputed'
  PROVE  /\ Undisputed /\ ~Contended
         /\ \A v \in Workers : pc[v] \notin CreationSteps
<1>1. w \in fresh /\ pc[w] = "unfinalize" /\ mr[w] = api
  BY DEF RemoveFinalizer, CopiesAgree, Reading
<1>2. overrides' = 0 => overrides = 0 /\ ~api.pending
  BY <1>1, ManagedAssumption DEF RemoveFinalizer, CountOverride, ManagedTypeOK
<1>3. CASE overrides' = 0
  BY <1>2, <1>3 DEF Undisputed, Contended, Marked
<1>4. CASE Cardinality(Workers) = 1
  BY <1>1, <1>4, OneProcess DEF Undisputed, Contended, CreationSteps
<1>. QED  BY <1>3, <1>4 DEF Undisputed

\* A process that is about to remove the finalizer with a copy of the latest
\* version was about to before, and no step of the reconciler has stored anything
\* meanwhile.
LEMMA ReconcilerWaits ==
  ASSUME ManagedTypeOK, NEW w \in Workers,
         ReconcilerStep(w) \/ ReconcilerFault(w) \/ SyncCache(w)
  PROVE  \A v \in fresh' : pc'[v] = "unfinalize" =>
            v \in fresh /\ pc[v] = "unfinalize" /\ api' = api
<1>. USE DEF ManagedTypeOK
<1>1. /\ \A v \in Workers \ {w} : pc'[v] = pc[v]
      /\ fresh' \subseteq fresh \cup {w} /\ fresh' \subseteq Workers
      /\ api' = api \/ fresh' \subseteq {w}
  BY ReconcilerFrame, ReconcilerType
<1>2. SUFFICES ASSUME w \in fresh', pc'[w] = "unfinalize"
               PROVE  w \in fresh /\ pc[w] = "unfinalize" /\ api' = api
  BY <1>1
<1>3. CASE Reconcile(w) \/ AddFinalizer(w) \/ MarkCreatePending(w)
           \/ SaveAnnotations(w)
  BY <1>2, <1>3
  DEF Reconcile, AddFinalizer, MarkCreatePending, SaveAnnotations, Goto
<1>4. CASE RemoveFinalizer(w) \/ Conflict(w) \/ SaveStatus(w)
           \/ StatusConflict(w) \/ Abort(w)
  BY <1>2, <1>4
  DEF RemoveFinalizer, Conflict, SaveStatus, StatusConflict, Abort, Finish, Goto
<1>5. CASE PublishConnection(w) \/ LosePublication(w) \/ LoseAnnotations(w)
  BY <1>2, <1>5 DEF PublishConnection, LosePublication, LoseAnnotations, Goto
<1>6. CASE SyncCache(w)
  BY <1>2, <1>6 DEF SyncCache
<1>. QED
  BY <1>3, <1>4, <1>5, <1>6 DEF ReconcilerStep, ReconcilerFault
=============================================================================
