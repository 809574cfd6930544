----------------------------- MODULE Token_proofs -----------------------------
(***************************************************************************)
(* Theorems about Token, for any number of processes and of identifiers    *)
(* and any bounds: the state keeps its type, and every working token       *)
(* nobody knows of is paid for by an infrastructure failure, by an         *)
(* overridden creation or by a status that was not stored.                 *)
(***************************************************************************)
EXTENDS Token, Managed_proofs

----------------------------------------------------------------------------
(***************************************************************************)
(* The inductive invariant.                                                *)
(***************************************************************************)

\* Nobody sets an external name.
NoNames == ExternalNames = {NoId}

\* Every recorded accessor is that of a token this provider created.
Recording ==
    /\ IsFiniteSet(created)
    /\ Statuses \subseteq created \cup {NoId}

\* The way from "does not exist" to Create, or to the end of the resource, is
\* taken with an accessor that does not work.
Absent(w) ==
    \/ pc[w] = "finalizer" /\ plan[w] = "pend"
    \/ pc[w] \in {"pend", "create", "unfinalize"}

\* A worker has a token's value from Create until its reconcile ends.
Holding(w) ==
    /\ secret[w] # NoId => pc[w] \in {"annotate", "publish", "status"}
    /\ pc[w] = "annotate" => secret[w] # NoId

\* A copy without that value tells nothing new about a token that works.
Telling(w) ==
    /\ pc[w] = "annotateFailed" => mr[w].status \notin live
    /\ w \in fresh /\ pc[w] \in {"publish", "status"} /\ secret[w] = NoId
         => mr[w].status = api.status \/ mr[w].status \notin live

Hands ==
    /\ \A w \in Workers : Absent(w) => mr[w].status \notin live
    /\ \A w \in Workers : Holding(w)
    /\ \A w \in Workers : Telling(w)
    /\ ~api.present => api.status \notin live

\* Workers in the middle of a creation, and workers about to write another
\* accessor over the stored one.
Creators == {w \in Workers : pc[w] \in {"create", "annotate", "annotateFailed"}}

Writers == {w \in fresh : /\ pc[w] \in {"publish", "status"}
                          /\ mr[w].status # api.status}

Late == Creators \cup Writers

\* What the resource records is dead and about to be replaced.
Pledged ==
    /\ api.present
    /\ api.status \notin live
    /\ (api.pending /\ Creators # {}) \/ Writers # {}

Mishaps == faults + overrides + discarded

\* Each late worker can still cost one token, that of the pledged replacement
\* excepted.
Ledger ==
    /\ Pledged => Cardinality(Orphans) + Cardinality(Late) <= Mishaps + 1
    /\ ~Pledged => Cardinality(Orphans) + Cardinality(Late) <= Mishaps

History ==
    /\ CopiesAgree
    /\ Untouched
    /\ NoNames
    /\ Recording
    /\ Hands

IInv == TypeOK /\ History /\ Ledger

----------------------------------------------------------------------------
(***************************************************************************)
(* Type correctness.                                                       *)
(***************************************************************************)

\* A step of the controller keeps the type, and leaves the stored resource and
\* the other workers alone.
LEMMA ControllerFrame ==
  ASSUME TypeOK, NEW w \in Workers, ControllerStep(w) \/ CreateUnanswered(w)
  PROVE  /\ TypeOK'
         /\ UNCHANGED <<api, conn, cache, current, fresh, overrides, discarded>>
         /\ \A v \in Workers \ {w} :
               /\ mr'[v] = mr[v] /\ pc'[v] = pc[v]
               /\ plan'[v] = plan[v] /\ secret'[v] = secret[v]
         /\ \A v \in Workers : mr'[v].name = mr[v].name
         /\ \/ /\ pc[w] = "create"
               /\ pc'[w] \in {"annotate", "annotateFailed"}
            \/ /\ pc[w] \in {"observe", "update", "delete"}
               /\ pc'[w] \in {"delete", "unfinalize", "finalizer", "status"}
               /\ pc'[w] \in {"delete", "unfinalize"} => mr[w].deleting
               /\ pc'[w] # "status" => pc[w] = "observe"
               /\ mr' = mr /\ secret' = secret /\ created' = created
<1>. USE DEF TypeOK, ManagedTypeOK, IdOrNone, Steps
<1>1. CASE Observe(w)
  BY <1>1, ManagedAssumption DEF Observe, Exists, Decide, Goto, tokenVars
<1>2. CASE Create(w)
  <2>1. PICK id \in Ids \ created :
           /\ live' = live \cup {id}
           /\ created' = created \cup {id}
           /\ mr' = [mr EXCEPT ![w] = [mr[w] EXCEPT !.status = id]]
           /\ secret' = [secret EXCEPT ![w] = id]
    BY <1>2 DEF Create, SetAccessor
  <2>2. mr[w] \in Object /\ id \in IdOrNone
    OBVIOUS
  <2>3. [mr[w] EXCEPT !.status = id] \in Object
    BY <2>2, ObjectUpdate
  <2>4. [mr[w] EXCEPT !.status = id].name = mr[w].name
    BY <2>2 DEF Object
  <2>. QED  BY <1>2, <2>1, <2>3, <2>4 DEF Create, Goto
<1>3. CASE CreateUnanswered(w)
  BY <1>3, ManagedAssumption DEF CreateUnanswered, Fault, Goto
<1>4. CASE CreateRefused(w)
  BY <1>4, TokenAssumption DEF CreateRefused, Refuse, Goto
<1>5. CASE Update(w)
  <2>1. age' \in [Ids -> Ages]
    BY <1>5 DEF Update, Ages
  <2>. QED  BY <1>5, <2>1 DEF Update, Goto
<1>6. CASE Delete(w)
  <2>1. age' \in [Ids -> Ages] /\ live' \subseteq live
    BY <1>6 DEF Delete, Die, Ages
  <2>. QED  BY <1>6, <2>1 DEF Delete, Goto
<1>7. CASE CallRefused(w)
  BY <1>7, TokenAssumption DEF CallRefused, Refuse, Goto
<1>. QED
  BY <1>1, <1>2, <1>3, <1>4, <1>5, <1>6, <1>7 DEF ControllerStep

\* Time, the user and nobody's doing.
Outside ==
    \/ User
    \/ \E id \in Ids : Age(id) \/ Expire(id)
    \/ UNCHANGED vars

\* They keep the type, create no token and leave the workers alone.
LEMMA OutsideFrame ==
  ASSUME TypeOK, Outside
  PROVE  /\ TypeOK'
         /\ UNCHANGED <<conn, cache, mr, pc, plan, secret, created,
                        faults, overrides, discarded>>
         /\ live' \subseteq live
         /\ (RequestDelete /\ live' = live) \/ UNCHANGED managedVars
<1>. USE DEF TypeOK, ManagedTypeOK
<1>1. CASE User
  <2>1. api' \in Object /\ api'.name = api.name
    BY <1>1 DEF User, RequestDelete, Object
  <2>. QED  BY <1>1, <2>1 DEF User, RequestDelete, tokenVars
<1>2. ASSUME NEW id \in Ids, Age(id) \/ Expire(id)
      PROVE  /\ TypeOK' /\ live' \subseteq live /\ created' = created
             /\ UNCHANGED managedVars
  BY <1>2 DEF Age, Expire, Die, Ages, managedVars
<1>3. CASE UNCHANGED vars
  BY <1>3 DEF vars, managedVars, tokenVars
<1>. QED  BY <1>1, <1>2, <1>3 DEF Outside, managedVars

\* The steps, by who takes them.
LEMMA Cases ==
  ASSUME [Next]_vars
  PROVE  \/ \E w \in Workers : Managing(w)
         \/ \E w \in Workers : ControllerStep(w) \/ CreateUnanswered(w)
         \/ Outside
  BY DEF Next, Outside

\* The initial states have the type, and nothing is recorded.
LEMMA TypeInit == Init => TypeOK /\ NoNames
<1>. SUFFICES ASSUME Init PROVE TypeOK /\ NoNames
  OBVIOUS
<1>1. ManagedTypeOK
  BY NewObjectType, ManagedInitType DEF Init, IdOrNone
<1>2. api.name = NoId /\ \A w \in Workers : cache[w].name = NoId /\ mr[w].name = NoId
  BY DEF Init, ManagedInit, NewObject
<1>. QED
  BY <1>1, <1>2, TokenAssumption DEF Init, TypeOK, Ages, NoNames, ExternalNames

\* Every step keeps the type, given that nobody sets an external name.
LEMMA TypeStep ==
  TypeOK /\ NoNames /\ [Next]_vars => TypeOK' /\ NoNames'
<1>. SUFFICES ASSUME TypeOK, NoNames, [Next]_vars
              PROVE  TypeOK' /\ NoNames'
  OBVIOUS
<1>1. api'.name \in ExternalNames'
  BY DEF NoNames, ExternalNames
<1>2. CASE \E w \in Workers : Managing(w)
  <2>1. ExternalNames' \subseteq {NoId} /\ ManagedTypeOK'
    BY <1>2, ReconcilerRecords, ReconcilerType DEF Managing, TypeOK, NoNames
  <2>2. api'.name = NoId /\ NoNames'
    BY <1>1, <2>1 DEF NoNames
  <2>. QED  BY <1>2, <2>1, <2>2 DEF Managing, TypeOK, tokenVars
<1>3. CASE \E w \in Workers : ControllerStep(w) \/ CreateUnanswered(w)
  BY <1>3, ControllerFrame DEF NoNames, ExternalNames
<1>4. CASE Outside
  <2>1. TypeOK' /\ UNCHANGED <<cache, mr>>
    BY <1>4, OutsideFrame
  <2>2. api'.name = NoId /\ api.name = NoId
    BY <2>1 DEF TypeOK
  <2>. QED  BY <2>1, <2>2 DEF NoNames, ExternalNames
<1>. QED  BY <1>2, <1>3, <1>4, Cases

\* The state keeps its type, and the external name its default: the Token
\* controller keeps its accessor in the status and sets no annotation
\* (token.go:179).
THEOREM TypeCorrect == Spec => []TypeOK
  BY TypeInit, TypeStep, PTL DEF Spec

----------------------------------------------------------------------------
(***************************************************************************)
(* The history of copies, accessors and hands.                             *)
(***************************************************************************)

\* Copies of the latest version stay what the API server stores, and nothing is
\* done for a resource without a finalizer.
LEMMA CopiesStep ==
  ASSUME TypeOK, CopiesAgree, Untouched, [Next]_vars
  PROVE  CopiesAgree' /\ Untouched'
<1>. USE DEF TypeOK
<1>1. CASE \E w \in Workers : Managing(w)
  BY <1>1, ReconcilerCopies, ReconcilerUntouched DEF Managing
<1>2. ASSUME NEW w \in Workers, ControllerStep(w) \/ CreateUnanswered(w)
      PROVE  CopiesAgree' /\ Untouched'
  <2>1. CopiesAgree'
    BY <1>2, ControllerFrame, ControllerCopies DEF Reading
  <2>2. Untouched'
    BY <1>2, ControllerFrame, ControllerUntouched DEF Before
  <2>. QED  BY <2>1, <2>2
<1>3. CASE Outside
  <2>1. CASE RequestDelete
    BY <2>1, UserCopies, UserUntouched DEF UserStep
  <2>2. CASE UNCHANGED managedVars
    BY <2>2 DEF managedVars, CopiesAgree, Untouched
  <2>. QED  BY <1>3, <2>1, <2>2, OutsideFrame
<1>. QED  BY <1>1, <1>2, <1>3, Cases

\* Accessors are those of created tokens.
LEMMA RecordingStep ==
  ASSUME TypeOK, Recording, [Next]_vars
  PROVE  Recording'
<1>. USE DEF TypeOK, ManagedTypeOK, Recording
<1>1. CASE \E w \in Workers : Managing(w)
  BY <1>1, ReconcilerRecords DEF Managing, tokenVars
<1>2. ASSUME NEW w \in Workers, ControllerStep(w) \/ CreateUnanswered(w)
      PROVE  Recording'
  <2>0. UNCHANGED <<api, cache>>
    BY <1>2, ControllerFrame
  <2>1. CASE Create(w)
    <3>1. PICK id \in Ids \ created :
             /\ created' = created \cup {id}
             /\ mr' = [mr EXCEPT ![w] = [mr[w] EXCEPT !.status = id]]
      BY <2>1 DEF Create, SetAccessor
    <3>2. IsFiniteSet(created')
      BY <3>1, FS_AddElement
    <3>3. \A v \in Workers : mr'[v].status \in {mr[v].status, id}
      BY <3>1 DEF Object
    <3>. QED  BY <2>0, <3>1, <3>2, <3>3 DEF Statuses
  <2>2. CASE CreateUnanswered(w)
    <3>1. PICK id \in Ids : created' = created \cup {id}
      BY <2>2 DEF CreateUnanswered
    <3>2. IsFiniteSet(created')
      BY <3>1, FS_AddElement
    <3>. QED  BY <2>0, <2>2, <3>1, <3>2 DEF CreateUnanswered, Statuses
  <2>3. CASE mr' = mr /\ created' = created
    BY <2>0, <2>3 DEF Statuses
  <2>. QED
    BY <1>2, <2>1, <2>2, <2>3
    DEF ControllerStep, Observe, Exists, CreateRefused, Update, Delete, CallRefused,
        tokenVars
<1>3. CASE Outside
  <2>1. api'.status = api.status
    BY <1>3, OutsideFrame DEF RequestDelete, managedVars, Object
  <2>. QED  BY <1>3, <2>1, OutsideFrame DEF Statuses
<1>. QED  BY <1>1, <1>2, <1>3, Cases

\* The reconciler keeps what the hands tell.
LEMMA ManagingHands ==
  ASSUME TypeOK, CopiesAgree, Hands, NEW w \in Workers, Managing(w)
  PROVE  Hands'
<1>. USE DEF TypeOK, ManagedTypeOK
<1>1. /\ \A v \in Workers \ {w} :
            /\ mr'[v] = mr[v] /\ pc'[v] = pc[v]
            /\ plan'[v] = plan[v] /\ secret'[v] = secret[v]
      /\ fresh' \subseteq fresh \cup {w}
      /\ api' = api \/ fresh' \subseteq {w}
      /\ live' = live
  BY ReconcilerFrame DEF Managing, tokenVars
<1>2. \A v \in Workers \ {w} : /\ Absent(v)' => mr'[v].status \notin live'
                               /\ Holding(v)'
                               /\ Telling(v)'
  BY <1>1 DEF Hands, Absent, Holding, Telling
<1>. SUFFICES /\ Absent(w)' => mr'[w].status \notin live
              /\ Holding(w)'
              /\ Telling(w)'
              /\ ~api'.present => api'.status \notin live
  BY <1>1, <1>2 DEF Hands
<1>3. /\ Absent(w) => mr[w].status \notin live
      /\ Holding(w)
      /\ Telling(w)
      /\ ~api.present => api.status \notin live
      /\ w \in fresh /\ pc[w] \in Reading => mr[w] = api
  BY DEF Hands, CopiesAgree
<1>. USE DEF Absent, Holding, Telling
<1>4. CASE Reconcile(w)
  BY <1>1, <1>3, <1>4 DEF Reconcile, Goto
<1>5. CASE AddFinalizer(w)
  <2>1. /\ mr'[w].status = mr[w].status
        /\ api'.status = api.status /\ api'.present = api.present
        /\ fresh' \subseteq fresh
    BY <1>5, AddFinalizerStores
  <2>. QED  BY <1>3, <1>5, <2>1 DEF AddFinalizer, Goto, Reading
<1>6. CASE MarkCreatePending(w)
  <2>1. /\ mr'[w].status = mr[w].status
        /\ api'.status = api.status /\ api'.present = api.present
    BY <1>6, MarkCreatePendingStores
  <2>. QED  BY <1>3, <1>6, <2>1 DEF MarkCreatePending, Goto
<1>7. CASE RemoveFinalizer(w)
  <2>1. api'.status = mr[w].status /\ mr[w].status \notin live
    BY <1>3, <1>7 DEF RemoveFinalizer, Store, Reading, Object
  <2>. QED  BY <1>7, <2>1 DEF RemoveFinalizer, Finish, Goto
<1>8. CASE Conflict(w) \/ StatusConflict(w) \/ Abort(w)
  BY <1>3, <1>8 DEF Conflict, StatusConflict, Abort, Finish, Goto
<1>9. CASE SaveAnnotations(w)
  <2>1. /\ mr'[w].status \in {mr[w].status, api.status}
        /\ api'.status = api.status /\ api'.present
    BY <1>9, SaveAnnotationsStores
  <2>. QED  BY <1>1, <1>3, <1>9, <2>1 DEF SaveAnnotations, Goto
<1>10. CASE LoseAnnotations(w) \/ PublishConnection(w) \/ LosePublication(w)
  BY <1>1, <1>3, <1>10
  DEF LoseAnnotations, PublishConnection, LosePublication, Goto
<1>11. CASE SaveStatus(w)
  <2>1. api'.present = api.present /\ api'.status \in {api.status, mr[w].status}
    BY <1>11, SaveStatusStores
  <2>2. api.present
    BY <1>11 DEF SaveStatus, CopiesAgree
  <2>. QED  BY <1>11, <2>1, <2>2 DEF SaveStatus, Finish, Goto
<1>12. CASE SyncCache(w)
  BY <1>1, <1>3, <1>12 DEF SyncCache
<1>. QED
  BY <1>4, <1>5, <1>6, <1>7, <1>8, <1>9, <1>10, <1>11, <1>12
  DEF Managing, ReconcilerStep, ReconcilerFault

\* ... and so does the controller.
LEMMA ControllerHands ==
  ASSUME TypeOK, CopiesAgree, Recording, Hands, NEW w \in Workers,
         ControllerStep(w) \/ CreateUnanswered(w)
  PROVE  Hands'
<1>. USE DEF TypeOK, ManagedTypeOK
<1>0. \A i \in Statuses : i \notin live => i \notin live'
  <2>1. CASE Create(w) \/ CreateUnanswered(w)
    BY <2>1, ManagedAssumption DEF Create, CreateUnanswered, Recording
  <2>2. CASE ~(Create(w) \/ CreateUnanswered(w))
    <3>1. live' \subseteq live
      BY <2>2
      DEF ControllerStep, Observe, Exists, CreateRefused, Update, Delete, Die,
          CallRefused, tokenVars
    <3>. QED  BY <3>1
  <2>. QED  BY <2>1, <2>2
<1>1. /\ \A v \in Workers : mr[v].status \in Statuses
      /\ api.status \in Statuses
  BY DEF Statuses
<1>2. /\ \A v \in Workers \ {w} :
            /\ mr'[v] = mr[v] /\ pc'[v] = pc[v]
            /\ plan'[v] = plan[v] /\ secret'[v] = secret[v]
      /\ UNCHANGED <<api, fresh>>
  BY ControllerFrame
<1>3. \A v \in Workers \ {w} : /\ Absent(v)' => mr'[v].status \notin live'
                               /\ Holding(v)'
                               /\ Telling(v)'
  BY <1>0, <1>1, <1>2 DEF Hands, Absent, Holding, Telling
<1>. SUFFICES /\ Absent(w)' => mr'[w].status \notin live'
              /\ Holding(w)'
              /\ Telling(w)'
  BY <1>0, <1>1, <1>2, <1>3 DEF Hands
<1>4. /\ Absent(w) => mr[w].status \notin live
      /\ Holding(w)
      /\ w \in fresh /\ pc[w] \in Reading => mr[w] = api
  BY DEF Hands, CopiesAgree
<1>. USE DEF Absent, Holding, Telling
<1>5. CASE Observe(w)
  BY <1>4, <1>5 DEF Observe, Exists, Decide, Goto, tokenVars
<1>6. CASE Create(w)
  <2>1. PICK id \in Ids : secret' = [secret EXCEPT ![w] = id]
    BY <1>6 DEF Create
  <2>. QED  BY <1>6, <2>1, ManagedAssumption DEF Create, Goto
<1>7. CASE CreateUnanswered(w)
  BY <1>0, <1>1, <1>2, <1>4, <1>7 DEF CreateUnanswered, Goto
<1>8. CASE CreateRefused(w)
  BY <1>0, <1>1, <1>2, <1>4, <1>8 DEF CreateRefused, Goto
<1>9. CASE Update(w) \/ Delete(w) \/ CallRefused(w)
  BY <1>2, <1>4, <1>9 DEF Update, Delete, CallRefused, Goto, Reading
<1>. QED  BY <1>5, <1>6, <1>7, <1>8, <1>9 DEF ControllerStep

\* ... and what is outside.
LEMMA OutsideHands ==
  ASSUME TypeOK, Untouched, Recording, Hands, Outside
  PROVE  Hands'
<1>. USE DEF TypeOK, ManagedTypeOK
<1>1. /\ UNCHANGED <<mr, pc, plan, secret>> /\ live' \subseteq live
      /\ RequestDelete \/ UNCHANGED managedVars
  BY OutsideFrame
<1>2. CASE RequestDelete
  <2>1. fresh' = {} /\ api'.status = api.status
    BY <1>2 DEF RequestDelete, Object
  <2>2. ~api'.present => api.status = NoId
    BY <1>2 DEF RequestDelete, Object, Untouched, NewObject
  <2>3. NoId \notin live
    BY ManagedAssumption
  <2>. QED  BY <1>1, <2>1, <2>2, <2>3 DEF Hands, Absent, Holding, Telling
<1>3. CASE UNCHANGED managedVars
  BY <1>1, <1>3 DEF managedVars, Hands, Absent, Holding, Telling
<1>. QED  BY <1>1, <1>2, <1>3

\* The history is kept by every step.
LEMMA HistoryStep ==
  ASSUME TypeOK, History, [Next]_vars
  PROVE  TypeOK' /\ History'
<1>1. TypeOK' /\ NoNames'
  BY TypeStep DEF History
<1>2. CopiesAgree' /\ Untouched'
  BY CopiesStep DEF History
<1>3. Recording'
  BY RecordingStep DEF History
<1>4. Hands'
  BY ManagingHands, ControllerHands, OutsideHands, Cases DEF History
<1>. QED  BY <1>1, <1>2, <1>3, <1>4 DEF History

----------------------------------------------------------------------------
(***************************************************************************)
(* What is known of the tokens that work.                                  *)
(***************************************************************************)

Known == InHand \cup Recorded

\* A step of the reconciler finds no token, and forgets one at most: the stored
\* one, when its accessor is written over, or the worker's own, when a status
\* is not stored or a failure ends the reconcile.
LEMMA ManagingKnown ==
  ASSUME TypeOK, History, NEW w \in Workers, Managing(w)
  PROVE  /\ live \cap Known' \subseteq Known
         /\ \E id : live \cap Known \subseteq Known' \cup {id}
         /\ \/ live \cap Known \subseteq Known'
            \/ Mishaps' = Mishaps + 1 /\ overrides' = overrides
            \/ SaveStatus(w) /\ api.status \in live /\ w \in Writers
<1>. USE DEF TypeOK, ManagedTypeOK
<1>1. /\ \A v \in Workers \ {w} : mr'[v] = mr[v] /\ secret'[v] = secret[v]
      /\ Holding(w) /\ Telling(w)
      /\ ~api.present => api.status \notin live
      /\ w \in fresh => api.present
      /\ w \in fresh /\ pc[w] \in Reading => mr[w] = api
      /\ faults \in Nat /\ overrides \in Nat /\ discarded \in Nat
  BY ReconcilerFrame, ManagedAssumption
  DEF Managing, History, Hands, CopiesAgree
<1>2. /\ \A i : i \in Known' <=>
                  \/ \E v \in Workers : secret'[v] # NoId /\ mr'[v].status = i
                  \/ api'.present /\ api'.status = i
      /\ \A i : i \in Known <=>
                  \/ \E v \in Workers : secret[v] # NoId /\ mr[v].status = i
                  \/ api.present /\ api.status = i
  BY DEF Known, InHand, Recorded
<1>3. ASSUME secret'[w] = secret[w], secret[w] # NoId => mr'[w].status = mr[w].status,
             api'.present = api.present, api'.status = api.status
      PROVE  Known' = Known
  <2>1. \A v \in Workers : /\ secret'[v] = secret[v]
                           /\ secret[v] # NoId => mr'[v].status = mr[v].status
    BY <1>1, <1>3
  <2>2. \A i : i \in Known' <=> i \in Known
    BY <1>2, <1>3, <2>1
  <2>. QED  BY <2>2
<1>4. ASSUME secret'[w] = NoId, api'.present = api.present, api'.status = api.status
      PROVE  /\ Known' \subseteq Known
             /\ Known \subseteq Known' \cup {mr[w].status}
             /\ secret[w] = NoId => Known' = Known
  <2>1. ASSUME NEW i \in Known' PROVE i \in Known
    BY <1>1, <1>2, <1>4
  <2>2. ASSUME NEW i \in Known
        PROVE  i \in Known' \/ (i = mr[w].status /\ secret[w] # NoId)
    BY <1>1, <1>2, <1>4
  <2>. QED  BY <2>1, <2>2
<1>. USE DEF Holding
<1>5. CASE Reconcile(w)
  BY <1>1, <1>3, <1>5 DEF Reconcile
<1>6. CASE AddFinalizer(w)
  BY <1>1, <1>3, <1>6, AddFinalizerStores DEF AddFinalizer
<1>7. CASE MarkCreatePending(w)
  BY <1>1, <1>3, <1>7, MarkCreatePendingStores DEF MarkCreatePending
<1>8. CASE RemoveFinalizer(w)
  <2>1. secret[w] = NoId /\ secret'[w] = NoId
    BY <1>1, <1>8 DEF RemoveFinalizer, Finish
  <2>2. api.status \notin live
    BY <1>1, <1>8 DEF RemoveFinalizer, History, Hands, Absent, Reading
  <2>3. ~api'.present
    BY <1>8, RemoveFinalizerStores
  <2>. QED  BY <1>1, <1>2, <2>1, <2>2, <2>3
<1>9. CASE Conflict(w)
  <2>1. secret[w] = NoId /\ secret'[w] = NoId /\ api' = api
    BY <1>1, <1>9 DEF Conflict, Finish
  <2>. QED  BY <1>4, <2>1
<1>10. CASE SaveAnnotations(w)
  <2>1. /\ api'.present = api.present /\ api'.status = api.status
        /\ secret'[w] = secret[w] /\ overrides' = overrides
        /\ discarded' = discarded
        /\ \/ mr'[w].status = mr[w].status
           \/ mr'[w].status = api.status /\ faults' = faults + 1
    BY <1>10, SaveAnnotationsStores DEF SaveAnnotations
  <2>2. CASE mr'[w].status = mr[w].status
    BY <1>3, <2>1, <2>2
  <2>3. CASE mr'[w].status = api.status /\ faults' = faults + 1
    <3>1. Known' \subseteq Known /\ Known \subseteq Known' \cup {mr[w].status}
      BY <1>1, <1>2, <1>10, <2>1, <2>3, SaveAnnotationsStores
    <3>2. Mishaps' = Mishaps + 1
      BY <1>1, <2>1, <2>3 DEF Mishaps
    <3>. QED  BY <2>1, <3>1, <3>2
  <2>. QED  BY <2>1, <2>2, <2>3
<1>11. CASE LoseAnnotations(w) \/ PublishConnection(w) \/ LosePublication(w)
  BY <1>1, <1>3, <1>11 DEF LoseAnnotations, PublishConnection, LosePublication
<1>12. CASE SaveStatus(w)
  <2>1. /\ api.present /\ api'.present /\ api'.status = mr[w].status
        /\ secret'[w] = NoId /\ w \in fresh /\ pc[w] = "status"
    BY <1>1, <1>12, SaveStatusStores DEF SaveStatus, Finish
  <2>2. /\ Known' \subseteq Known \cup {mr[w].status}
        /\ Known \subseteq Known' \cup {api.status}
        /\ secret[w] # NoId => mr[w].status \in Known
        /\ api.status \in Known
    BY <1>1, <1>2, <2>1
  <2>3. mr[w].status \in Known \/ mr[w].status \notin live
    BY <1>1, <2>1, <2>2 DEF Telling
  <2>4. mr[w].status # api.status => w \in Writers
    BY <2>1 DEF Writers
  <2>5. mr[w].status = api.status => Known \subseteq Known'
    BY <1>2, <2>1, <2>2
  <2>. QED  BY <1>12, <2>2, <2>3, <2>4, <2>5
<1>13. CASE StatusConflict(w)
  <2>1. secret'[w] = NoId /\ api' = api
    BY <1>13 DEF StatusConflict, Finish
  <2>2. CASE secret[w] # NoId /\ mr[w].status # api.status
    <3>1. Mishaps' = Mishaps + 1 /\ overrides' = overrides
      BY <1>1, <1>13, <2>2 DEF StatusConflict, CountDiscarded, Mishaps
    <3>. QED  BY <1>4, <2>1, <3>1
  <2>3. CASE secret[w] # NoId /\ mr[w].status = api.status
    <3>1. api.status \notin live \/ api.status \in Known'
      BY <1>1, <1>2, <2>1
    <3>. QED  BY <1>4, <2>1, <2>3, <3>1
  <2>. QED  BY <1>4, <2>1, <2>2, <2>3
<1>14. CASE Abort(w)
  <2>1. /\ secret'[w] = NoId /\ api' = api
        /\ Mishaps' = Mishaps + 1 /\ overrides' = overrides
    BY <1>1, <1>14 DEF Abort, Fault, Finish, Mishaps
  <2>. QED  BY <1>4, <2>1
<1>15. CASE SyncCache(w)
  BY <1>1, <1>3, <1>15 DEF SyncCache
<1>. QED
  BY <1>5, <1>6, <1>7, <1>8, <1>9, <1>10, <1>11, <1>12, <1>13, <1>14, <1>15
  DEF Managing, ReconcilerStep, ReconcilerFault

----------------------------------------------------------------------------
(***************************************************************************)
(* The ledger.                                                             *)
(***************************************************************************)

\* What the ledger counts is finite.
LEMMA CountsFinite ==
  ASSUME TypeOK, Recording
  PROVE  /\ IsFiniteSet(Orphans) /\ IsFiniteSet(Late)
         /\ Mishaps \in Nat
<1>1. Orphans \subseteq created /\ Late \subseteq Workers
  BY DEF TypeOK, ManagedTypeOK, Orphans, Late, Creators, Writers
<1>2. Mishaps \in Nat
  BY ManagedAssumption DEF TypeOK, ManagedTypeOK, Mishaps
<1>. QED  BY <1>1, <1>2, FS_Subset, ManagedAssumption DEF Recording

\* Nothing is lost, and nobody becomes late.
LEMMA QuietMove ==
  ASSUME TypeOK, Recording, Ledger, Mishaps' \in Nat,
         Orphans' \subseteq Orphans, Late' \subseteq Late, Mishaps <= Mishaps',
         Pledged => Pledged' \/ Late' # Late \/ Mishaps < Mishaps'
  PROVE  Ledger'
<1>1. IsFiniteSet(Orphans) /\ IsFiniteSet(Late) /\ Mishaps \in Nat
  BY CountsFinite
<1>2. /\ Cardinality(Orphans) \in Nat /\ Cardinality(Orphans') \in Nat
      /\ Cardinality(Orphans') <= Cardinality(Orphans)
      /\ Cardinality(Late) \in Nat /\ Cardinality(Late') \in Nat
      /\ Cardinality(Late') <= Cardinality(Late)
  BY <1>1, NoMore
<1>3. Late' # Late => Cardinality(Late') <= Cardinality(Late) - 1
  BY <1>1, OneGone
<1>. QED  BY <1>1, <1>2, <1>3 DEF Ledger

\* One token is lost, to a mishap.
LEMMA PaidMove ==
  ASSUME TypeOK, Recording, Ledger, Mishaps' \in Nat, NEW id,
         Orphans' \subseteq Orphans \cup {id}, Late' \subseteq Late,
         Mishaps < Mishaps',
         Pledged => Pledged' \/ Late' # Late
  PROVE  Ledger'
<1>1. IsFiniteSet(Orphans) /\ IsFiniteSet(Late) /\ Mishaps \in Nat
  BY CountsFinite
<1>2. /\ Cardinality(Orphans) \in Nat /\ Cardinality(Orphans') \in Nat
      /\ Cardinality(Orphans') <= Cardinality(Orphans) + 1
      /\ Cardinality(Late) \in Nat /\ Cardinality(Late') \in Nat
      /\ Cardinality(Late') <= Cardinality(Late)
  BY <1>1, NoMore, AtMostOneMore
<1>3. Late' # Late => Cardinality(Late') <= Cardinality(Late) - 1
  BY <1>1, OneGone
<1>. QED  BY <1>1, <1>2, <1>3 DEF Ledger

\* One token is lost to somebody who is late no more.
LEMMA SpentMove ==
  ASSUME TypeOK, Recording, Ledger, Mishaps' \in Nat, NEW id,
         Orphans' \subseteq Orphans \cup {id}, Late' \subseteq Late, Late' # Late,
         Mishaps <= Mishaps', ~Pledged
  PROVE  Ledger'
<1>1. IsFiniteSet(Orphans) /\ IsFiniteSet(Late) /\ Mishaps \in Nat
  BY CountsFinite
<1>2. /\ Cardinality(Orphans) \in Nat /\ Cardinality(Orphans') \in Nat
      /\ Cardinality(Orphans') <= Cardinality(Orphans) + 1
      /\ Cardinality(Late) \in Nat /\ Cardinality(Late') \in Nat
      /\ Cardinality(Late') <= Cardinality(Late) - 1
  BY <1>1, NoMore, AtMostOneMore, OneGone
<1>. QED  BY <1>1, <1>2 DEF Ledger

\* A creation is begun: it is pledged, and it replaces what was pledged before.
LEMMA BegunMove ==
  ASSUME TypeOK, Recording, Ledger, Mishaps' \in Nat, NEW w,
         Orphans' \subseteq Orphans, Late' \subseteq Late \cup {w},
         Mishaps <= Mishaps', Pledged',
         Pledged => Mishaps < Mishaps' \/ \E v \in Late : v \notin Late' /\ v # w
  PROVE  Ledger'
<1>1. IsFiniteSet(Orphans) /\ IsFiniteSet(Late) /\ Mishaps \in Nat
  BY CountsFinite
<1>2. /\ Cardinality(Orphans) \in Nat /\ Cardinality(Orphans') \in Nat
      /\ Cardinality(Orphans') <= Cardinality(Orphans)
      /\ Cardinality(Late) \in Nat /\ Cardinality(Late') \in Nat
      /\ Cardinality(Late') <= Cardinality(Late) + 1
  BY <1>1, NoMore, AtMostOneMore
<1>3. ASSUME NEW v \in Late, v \notin Late', v # w
      PROVE  Cardinality(Late') <= Cardinality(Late)
  <2>1. /\ IsFiniteSet(Late \ {v})
        /\ Cardinality(Late \ {v}) = Cardinality(Late) - 1
        /\ Cardinality(Late \ {v}) \in Nat
    BY <1>1, OneLess, FS_Subset
  <2>2. Late' \subseteq (Late \ {v}) \cup {w}
    BY <1>3
  <2>3. Cardinality(Late') <= Cardinality(Late \ {v}) + 1
    BY <2>1, <2>2, AtMostOneMore
  <2>. QED  BY <1>2, <2>1, <2>3
<1>. QED  BY <1>1, <1>2, <1>3 DEF Ledger

\* The others are as late as they were, or their copies are outdated.
LEMMA LateFrame ==
  ASSUME TypeOK, NEW w \in Workers, Managing(w)
  PROVE  /\ \A v \in Workers \ {w} : v \in Creators' <=> v \in Creators
         /\ \A v \in Workers \ {w} : v \in Writers' => v \in Writers
         /\ w \notin Late' => Late' \subseteq Late \ {w}
         /\ w \in Late => Late' \subseteq Late
<1>. USE DEF TypeOK, ManagedTypeOK
<1>1. /\ \A v \in Workers \ {w} : mr'[v] = mr[v] /\ pc'[v] = pc[v]
      /\ fresh' \subseteq fresh \cup {w}
      /\ api' = api \/ fresh' \subseteq {w}
  BY ReconcilerFrame DEF Managing
<1>2. \A v \in Workers \ {w} : v \in Creators' <=> v \in Creators
  BY <1>1 DEF Creators
<1>3. \A v \in Workers \ {w} : v \in Writers' => v \in Writers
  BY <1>1 DEF Writers
<1>4. Late' \subseteq Workers
  <2>1. fresh' \subseteq Workers
    BY <1>1
  <2>. QED  BY <2>1 DEF Late, Creators, Writers
<1>. QED  BY <1>2, <1>3, <1>4 DEF Late

\* A pledge is kept as long as the same workers are late.
LEMMA PledgeKept ==
  ASSUME TypeOK, NEW w \in Workers, Managing(w), live' = live,
         api'.present = api.present, api'.status = api.status,
         w \in Creators' => w \in Creators,
         \/ api'.pending = api.pending
         \/ w \in Creators /\ w \notin Creators'
  PROVE  Pledged => Pledged' \/ Late' # Late
<1>. SUFFICES ASSUME Pledged, Late' = Late, Writers' = {} PROVE Pledged'
  BY DEF Pledged
<1>1. Late' = Creators'
  BY DEF Late
<1>2. \A v \in Workers : v \in Creators' => v \in Creators
  BY LateFrame
<1>3. Creators' \subseteq Workers /\ Creators \cap Writers = {}
  BY DEF Creators, Writers
<1>4. Writers = {} /\ Creators = Creators'
  BY <1>1, <1>2, <1>3 DEF Late
<1>. QED  BY <1>4 DEF Pledged

\* The reconciler keeps the ledger.
LEMMA ManagingLedger ==
  ASSUME IInv, TypeOK', NEW w \in Workers, Managing(w)
  PROVE  Ledger'
<1>0. /\ TypeOK /\ History /\ Ledger /\ Recording /\ live' = live
      /\ Mishaps \in Nat /\ Mishaps' \in Nat
  <2>1. faults' \in Nat /\ overrides' \in Nat /\ discarded' \in Nat
    BY ManagedAssumption DEF TypeOK, ManagedTypeOK
  <2>2. Mishaps' \in Nat
    BY <2>1, SumsGrow DEF Mishaps
  <2>. QED  BY <2>2, CountsFinite DEF IInv, History, Managing, tokenVars
<1>. USE DEF TypeOK, ManagedTypeOK
<1>1. Mishaps <= Mishaps'
  <2>1. /\ faults \in Nat /\ overrides \in Nat /\ discarded \in Nat
        /\ faults' \in Nat /\ overrides' \in Nat /\ discarded' \in Nat
    BY <1>0, ManagedAssumption
  <2>2. faults <= faults' /\ overrides <= overrides' /\ discarded <= discarded'
    BY <1>0, ReconcilerCounts DEF Managing
  <2>. QED  BY <2>1, <2>2, SumsGrow DEF Mishaps
<1>2. /\ Orphans = live \ Known /\ Orphans' = live \ Known'
  BY <1>0 DEF Orphans, Known
<1>3. PICK id : Orphans' \subseteq Orphans \cup {id}
  BY <1>0, <1>2, ManagingKnown
<1>4. \/ Orphans' \subseteq Orphans
      \/ Mishaps' = Mishaps + 1 /\ overrides' = overrides
      \/ SaveStatus(w) /\ api.status \in live /\ w \in Writers
  BY <1>0, <1>2, ManagingKnown
<1>5. /\ w \in fresh => api.present
      /\ w \in fresh /\ pc[w] \in Reading => mr[w] = api
      /\ Absent(w) => mr[w].status \notin live
  BY <1>0 DEF History, CopiesAgree, Hands
\* One argument for the steps that write no status and end no resource.
<1>6. ASSUME api'.present = api.present, api'.status = api.status,
             w \in Creators' => w \in Creators,
             api'.pending = api.pending \/ (w \in Creators /\ w \notin Creators'),
             w \in Late' => w \in Late, ~SaveStatus(w)
      PROVE  Ledger'
  <2>1. Late' \subseteq Late
    BY <1>0, <1>6, LateFrame
  <2>2. Pledged => Pledged' \/ Late' # Late
    BY <1>0, <1>6, PledgeKept
  <2>3. CASE Orphans' \subseteq Orphans
    BY <1>0, <1>1, <2>1, <2>2, <2>3, QuietMove
  <2>4. CASE Mishaps' = Mishaps + 1
    BY <1>0, <1>3, <2>1, <2>2, <2>4, PaidMove
  <2>. QED  BY <1>4, <1>6, <2>3, <2>4
<1>7. CASE Reconcile(w)
  <2>1. pc'[w] = "observe" /\ api' = api /\ pc[w] = "idle"
    BY <1>0, <1>7 DEF Reconcile, Goto
  <2>2. w \notin Late'
    BY <2>1 DEF Late, Creators, Writers
  <2>3. ~SaveStatus(w)
    BY <2>1 DEF SaveStatus
  <2>. QED  BY <1>6, <2>1, <2>2, <2>3 DEF Late
<1>8. CASE AddFinalizer(w)
  <2>1. pc[w] = "finalizer" /\ pc'[w] \in {"pend", "update", "status"}
    BY <1>0, <1>8 DEF AddFinalizer, Goto
  <2>2. w \in fresh' => mr'[w].status = api'.status
    BY <1>0, <1>5, <1>8, <2>1, AddFinalizerStores DEF Reading
  <2>3. w \notin Late' /\ ~SaveStatus(w)
    BY <2>1, <2>2 DEF Late, Creators, Writers, SaveStatus
  <2>. QED  BY <1>0, <1>6, <1>8, <2>3, AddFinalizerStores DEF Late
<1>9. CASE MarkCreatePending(w)
  <2>1. /\ pc[w] = "pend" /\ pc'[w] = "create" /\ w \in fresh /\ fresh' = {w}
        /\ api'.present /\ api'.pending /\ api'.status = api.status
        /\ api.status \notin live
        /\ faults' = faults /\ discarded' = discarded
        /\ api.pending => overrides' = overrides + 1
    BY <1>0, <1>5, <1>9, MarkCreatePendingStores
    DEF MarkCreatePending, Goto, CountOverride, Reading, Absent
  <2>2. w \in Creators' /\ Writers' = {}
    BY <2>1 DEF Creators, Writers
  <2>3. Pledged'
    BY <1>0, <2>1, <2>2 DEF Pledged
  <2>4. Late' \subseteq Late \cup {w}
    <3>1. Creators' \subseteq Creators \cup {w}
      BY <1>0, LateFrame DEF Creators
    <3>. QED  BY <2>2, <3>1 DEF Late
  <2>5. ASSUME Pledged, ~api.pending
        PROVE  \E v \in Late : v \notin Late' /\ v # w
    <3>1. PICK v \in Writers : TRUE
      BY <2>5 DEF Pledged
    <3>2. v # w /\ v \in Workers /\ v \notin Creators
      BY <1>0, <2>1, <3>1 DEF Writers, Creators
    <3>3. v \notin Creators'
      BY <1>0, <3>2, LateFrame
    <3>. QED  BY <2>2, <3>1, <3>2, <3>3 DEF Late
  <2>6. api.pending => Mishaps < Mishaps'
    <3>1. faults \in Nat /\ overrides \in Nat /\ discarded \in Nat
      BY <1>0, ManagedAssumption
    <3>. QED  BY <2>1, <3>1 DEF Mishaps
  <2>7. Orphans' \subseteq Orphans
    <3>1. overrides' = overrides => Mishaps' = Mishaps
      BY <2>1 DEF Mishaps
    <3>2. Mishaps # Mishaps + 1
      BY <1>0
    <3>3. ~SaveStatus(w)
      BY <2>1 DEF SaveStatus
    <3>. QED  BY <1>4, <3>1, <3>2, <3>3
  <2>. QED
    BY <1>0, <1>1, <2>3, <2>4, <2>5, <2>6, <2>7, BegunMove
<1>10. CASE RemoveFinalizer(w)
  <2>1. /\ pc[w] = "unfinalize" /\ pc'[w] = "idle" /\ w \in fresh /\ fresh' = {}
        /\ faults' = faults /\ discarded' = discarded
        /\ api.pending => overrides' = overrides + 1
    BY <1>0, <1>5, <1>10, RemoveFinalizerStores
    DEF RemoveFinalizer, Finish, Goto, CountOverride, Reading
  <2>2. faults \in Nat /\ overrides \in Nat /\ discarded \in Nat
    BY <1>0, ManagedAssumption
  <2>3. api.pending => Mishaps < Mishaps'
    BY <2>1, <2>2 DEF Mishaps
  <2>4. w \notin Late' /\ w \notin Late /\ Writers' = {}
    BY <2>1 DEF Late, Creators, Writers
  <2>5. Late' \subseteq Late
    BY <1>0, <2>4, LateFrame
  <2>6. ASSUME Pledged, ~api.pending PROVE Late' # Late
    <3>1. PICK v \in Writers : TRUE
      BY <2>6 DEF Pledged
    <3>2. v # w /\ v \in Workers /\ v \notin Creators
      BY <1>0, <2>1, <3>1 DEF Writers, Creators
    <3>3. v \notin Creators'
      BY <1>0, <3>2, LateFrame
    <3>. QED  BY <2>4, <3>1, <3>3 DEF Late
  <2>7. Orphans' \subseteq Orphans
    <3>1. overrides' = overrides => Mishaps' = Mishaps
      BY <2>1 DEF Mishaps
    <3>2. Mishaps # Mishaps + 1
      BY <1>0
    <3>3. ~SaveStatus(w)
      BY <2>1 DEF SaveStatus
    <3>. QED  BY <1>4, <3>1, <3>2, <3>3
  <2>. QED  BY <1>0, <1>1, <2>3, <2>5, <2>6, <2>7, QuietMove
<1>11. CASE Conflict(w) \/ StatusConflict(w)
  <2>1. /\ pc[w] \in {"pend", "unfinalize", "finalizer", "status"}
        /\ pc'[w] = "idle" /\ api' = api /\ w \notin fresh
    BY <1>0, <1>11 DEF Conflict, StatusConflict, Finish, Goto
  <2>2. w \notin Late' /\ ~SaveStatus(w)
    BY <2>1 DEF Late, Creators, Writers, SaveStatus
  <2>. QED  BY <1>6, <2>1, <2>2 DEF Late
<1>12. CASE SaveAnnotations(w)
  <2>1. /\ pc[w] \in {"annotate", "annotateFailed"}
        /\ pc'[w] \in {"publish", "status"}
    BY <1>0, <1>12 DEF SaveAnnotations, Goto
  <2>2. w \in Creators /\ w \notin Creators' /\ w \in Late /\ ~SaveStatus(w)
    BY <2>1 DEF Late, Creators, SaveStatus
  <2>3. api'.present = api.present /\ api'.status = api.status
    BY <1>0, <1>12, SaveAnnotationsStores
  <2>. QED  BY <1>6, <2>2, <2>3
<1>13. CASE LoseAnnotations(w)
  <2>1. /\ pc[w] \in {"annotate", "annotateFailed"}
        /\ pc'[w] = "status" /\ api' = api
    BY <1>0, <1>13 DEF LoseAnnotations, Goto
  <2>2. w \in Creators /\ w \notin Creators' /\ w \in Late /\ ~SaveStatus(w)
    BY <2>1 DEF Late, Creators, SaveStatus
  <2>. QED  BY <1>6, <2>1, <2>2
<1>14. CASE PublishConnection(w) \/ LosePublication(w)
  <2>1. /\ pc[w] = "publish" /\ pc'[w] = "status" /\ api' = api /\ mr' = mr
        /\ fresh' = fresh
    BY <1>0, <1>14 DEF PublishConnection, LosePublication, Goto
  <2>2. w \notin Creators' /\ (w \in Late' => w \in Late) /\ ~SaveStatus(w)
    BY <2>1 DEF Late, Creators, Writers, SaveStatus
  <2>. QED  BY <1>6, <2>1, <2>2
<1>15. CASE Abort(w)
  <2>1. pc'[w] = "idle" /\ api' = api /\ w \notin fresh'
    BY <1>0, <1>15 DEF Abort, Finish, Goto
  <2>2. w \notin Late' /\ w \notin Creators'
    BY <2>1 DEF Late, Creators, Writers
  <2>3. Late' \subseteq Late /\ (Pledged => Pledged' \/ Late' # Late)
    BY <1>0, <2>1, <2>2, LateFrame, PledgeKept
  <2>4. Mishaps < Mishaps'
    <3>1. /\ faults \in Nat /\ overrides \in Nat /\ discarded \in Nat
          /\ faults' = faults + 1
      BY <1>0, <1>15, ManagedAssumption DEF Abort, Fault
    <3>. QED  BY <1>15, <3>1 DEF Abort, Mishaps
  <2>. QED  BY <1>0, <1>3, <2>3, <2>4, PaidMove
<1>16. CASE SyncCache(w)
  <2>1. UNCHANGED <<api, mr, pc, fresh, faults, overrides, discarded>>
    BY <1>16 DEF SyncCache
  <2>2. Late' = Late /\ Pledged' = Pledged /\ Mishaps' = Mishaps
    BY <1>0, <2>1 DEF Late, Creators, Writers, Pledged, Mishaps
  <2>3. InHand' = InHand /\ Recorded' = Recorded
    BY <1>16, <2>1 DEF InHand, Recorded, SyncCache
  <2>4. Orphans' = Orphans
    BY <1>2, <2>3 DEF Known
  <2>. QED  BY <1>0, <2>2, <2>4 DEF Ledger
<1>17. CASE SaveStatus(w)
  <2>1. /\ pc[w] = "status" /\ pc'[w] = "idle" /\ w \in fresh
        /\ api'.present = api.present /\ api'.pending = api.pending
        /\ api'.status = mr[w].status
        /\ UNCHANGED <<faults, overrides, discarded>>
        /\ (api'.status = api.status /\ fresh' = fresh \ {w}) \/ fresh' = {}
    BY <1>0, <1>17, SaveStatusStores DEF SaveStatus, Finish, Goto
  <2>2. w \notin Late' /\ w \notin Creators' /\ w \notin Creators
    BY <2>1 DEF Late, Creators, Writers
  <2>3. Mishaps' = Mishaps /\ Late' \subseteq Late
    BY <1>0, <2>1, <2>2, LateFrame DEF Mishaps
  <2>4. CASE w \in Writers
    <3>1. Late' # Late
      BY <2>2, <2>4 DEF Late
    <3>2. CASE api.status \in live
      BY <1>0, <1>3, <2>3, <3>1, <3>2, SpentMove DEF Pledged
    <3>3. CASE api.status \notin live
      <4>1. Orphans' \subseteq Orphans
        <5>1. Mishaps' # Mishaps + 1
          BY <1>0, <2>3
        <5>. QED  BY <1>4, <3>3, <5>1
      <4>. QED  BY <1>0, <2>3, <3>1, <4>1, QuietMove
    <3>. QED  BY <3>2, <3>3
  <2>5. CASE w \notin Writers
    <3>1. api'.status = api.status
      BY <2>1, <2>5 DEF Writers
    <3>2. Pledged => Pledged' \/ Late' # Late
      BY <1>0, <2>1, <2>2, <3>1, PledgeKept
    <3>3. Orphans' \subseteq Orphans
      <4>1. Mishaps' # Mishaps + 1
        BY <1>0, <2>3
      <4>. QED  BY <1>4, <2>5, <4>1
    <3>. QED  BY <1>0, <2>3, <3>2, <3>3, QuietMove
  <2>. QED  BY <2>4, <2>5
<1>. QED
  BY <1>7, <1>8, <1>9, <1>10, <1>11, <1>12, <1>13, <1>14, <1>15, <1>16, <1>17
  DEF Managing, ReconcilerStep, ReconcilerFault

\* ... and so does the controller: a token created without an answer is the
\* one that a failure costs.
LEMMA ControllerLedger ==
  ASSUME IInv, TypeOK', NEW w \in Workers, ControllerStep(w) \/ CreateUnanswered(w)
  PROVE  Ledger'
<1>0. /\ TypeOK /\ History /\ Ledger /\ Recording
      /\ Mishaps \in Nat /\ Mishaps' \in Nat
  <2>1. faults' \in Nat /\ overrides' \in Nat /\ discarded' \in Nat
    BY ManagedAssumption DEF TypeOK, ManagedTypeOK
  <2>2. Mishaps' \in Nat
    BY <2>1, SumsGrow DEF Mishaps
  <2>. QED  BY <2>2, CountsFinite DEF IInv, History
<1>. USE DEF TypeOK, ManagedTypeOK
<1>1. /\ UNCHANGED <<api, fresh, overrides, discarded>>
      /\ \A v \in Workers \ {w} :
            mr'[v] = mr[v] /\ pc'[v] = pc[v] /\ secret'[v] = secret[v]
      /\ \/ /\ pc[w] = "create"
            /\ pc'[w] \in {"annotate", "annotateFailed"}
         \/ /\ pc[w] \in {"observe", "update", "delete"}
            /\ pc'[w] \in {"delete", "unfinalize", "finalizer", "status"}
            /\ mr' = mr /\ secret' = secret /\ created' = created
  BY <1>0, ControllerFrame
<1>2. /\ w \in fresh /\ pc[w] \in Reading => mr[w] = api
      /\ pc[w] = "create" => secret[w] = NoId
      /\ api.status \in created \cup {NoId}
      /\ \A v \in Workers : mr[v].status \in created \cup {NoId}
  BY <1>0 DEF History, CopiesAgree, Hands, Holding, Recording, Statuses
<1>3. Creators' = Creators
  BY <1>0, <1>1 DEF Creators
<1>4. Writers' = Writers
  <2>1. \A v \in Workers : v \in Writers' <=> v \in Writers
    <3>1. w \notin Writers /\ w \notin Writers'
      BY <1>0, <1>1, <1>2 DEF Writers, Reading
    <3>. QED  BY <1>1, <3>1 DEF Writers
  <2>2. Writers \subseteq Workers /\ Writers' \subseteq Workers
    BY <1>0, <1>1 DEF Writers
  <2>. QED  BY <2>1, <2>2
<1>5. Late' = Late
  BY <1>3, <1>4 DEF Late
<1>6. Recorded' = Recorded
  BY <1>1 DEF Recorded
<1>7. CASE Create(w)
  <2>1. PICK id \in Ids \ created :
           /\ live' = live \cup {id}
           /\ mr' = [mr EXCEPT ![w] = [mr[w] EXCEPT !.status = id]]
           /\ secret' = [secret EXCEPT ![w] = id]
    BY <1>7 DEF Create, SetAccessor
  <2>2. mr'[w].status = id /\ secret'[w] = id /\ id # NoId /\ secret[w] = NoId
    BY <1>0, <1>2, <1>7, <2>1, ManagedAssumption DEF Create, Object
  <2>3. id \in InHand' /\ InHand \subseteq InHand'
    BY <1>1, <2>2 DEF InHand
  <2>4. Orphans' \subseteq Orphans
    BY <1>6, <2>1, <2>3 DEF Orphans
  <2>5. Pledged => Pledged'
    BY <1>1, <1>2, <1>3, <1>4, <2>1, ManagedAssumption DEF Pledged
  <2>6. Mishaps' = Mishaps
    BY <1>7 DEF Create, Mishaps
  <2>. QED  BY <1>0, <1>5, <2>4, <2>5, <2>6, QuietMove
<1>8. CASE CreateUnanswered(w)
  <2>1. PICK id \in Ids \ created : live' = live \cup {id}
    BY <1>8 DEF CreateUnanswered
  <2>2. InHand' = InHand
    BY <1>8 DEF CreateUnanswered, InHand
  <2>3. Orphans' \subseteq Orphans \cup {id}
    BY <1>6, <2>1, <2>2 DEF Orphans
  <2>4. Pledged => Pledged'
    BY <1>1, <1>2, <1>3, <1>4, <2>1, ManagedAssumption DEF Pledged
  <2>5. Mishaps < Mishaps'
    <3>1. /\ faults \in Nat /\ overrides \in Nat /\ discarded \in Nat
          /\ faults' = faults + 1
      BY <1>0, <1>8, ManagedAssumption DEF CreateUnanswered, Fault
    <3>. QED  BY <1>1, <3>1 DEF Mishaps
  <2>. QED  BY <1>0, <1>5, <2>3, <2>4, <2>5, PaidMove
<1>9. CASE \/ Observe(w) \/ CreateRefused(w) \/ Update(w) \/ Delete(w)
           \/ CallRefused(w)
  <2>1. live' \subseteq live /\ UNCHANGED <<mr, secret, faults>>
    BY <1>9
    DEF Observe, Exists, CreateRefused, Update, Delete, Die, CallRefused, tokenVars
  <2>2. InHand' = InHand
    BY <2>1 DEF InHand
  <2>3. Orphans' \subseteq Orphans
    BY <1>6, <2>1, <2>2 DEF Orphans
  <2>4. Pledged => Pledged'
    BY <1>1, <1>3, <1>4, <2>1 DEF Pledged
  <2>5. Mishaps' = Mishaps
    BY <1>1, <2>1 DEF Mishaps
  <2>. QED  BY <1>0, <1>5, <2>3, <2>4, <2>5, QuietMove
<1>. QED  BY <1>7, <1>8, <1>9 DEF ControllerStep

\* ... and what is outside.
LEMMA OutsideLedger ==
  ASSUME IInv, TypeOK', Outside
  PROVE  Ledger'
<1>0. /\ TypeOK /\ History /\ Ledger /\ Recording
      /\ Mishaps \in Nat /\ NoId \notin live
  BY CountsFinite, ManagedAssumption
  DEF IInv, History, TypeOK, ManagedTypeOK
<1>. USE DEF TypeOK, ManagedTypeOK
<1>1. /\ UNCHANGED <<mr, pc, plan, secret, faults, overrides, discarded>>
      /\ live' \subseteq live
      /\ (RequestDelete /\ live' = live) \/ UNCHANGED managedVars
  BY <1>0, OutsideFrame
<1>2. Mishaps' = Mishaps /\ Creators' = Creators /\ InHand' = InHand
  BY <1>1 DEF Mishaps, Creators, InHand
<1>3. CASE RequestDelete /\ live' = live
  <2>1. /\ api.present /\ api'.present = api.finalizer
        /\ api'.pending = api.pending /\ api'.status = api.status
        /\ fresh' = {}
    BY <1>0, <1>3, RequestDeleteStores
  <2>2. Writers' = {}
    BY <2>1 DEF Writers
  <2>3. Late' \subseteq Late
    BY <1>2, <2>2 DEF Late
  <2>4. Creators \cap Writers = {}
    BY DEF Creators, Writers
  <2>5. CASE api.finalizer
    <3>1. Orphans' = Orphans
      BY <1>2, <1>3, <2>1, <2>5 DEF Orphans, Recorded
    <3>2. Pledged => Pledged' \/ Late' # Late
      BY <1>2, <1>3, <2>1, <2>2, <2>4, <2>5 DEF Pledged, Late
    <3>. QED  BY <1>0, <1>2, <2>3, <3>1, <3>2, QuietMove
  <2>6. CASE ~api.finalizer
    <3>0. api = NewObject /\ \A w \in Workers : pc[w] \in Before
      BY <1>0, <2>1, <2>6 DEF History, Untouched
    <3>1. api.status = NoId /\ Creators = {}
      BY <3>0 DEF NewObject, Creators, Before
    <3>2. Orphans' \subseteq Orphans
      BY <1>0, <1>2, <1>3, <3>1 DEF Orphans, Recorded
    <3>3. Pledged => Late' # Late
      BY <1>2, <2>2, <3>1 DEF Pledged, Late
    <3>. QED  BY <1>0, <1>2, <2>3, <3>2, <3>3, QuietMove
  <2>. QED  BY <2>5, <2>6
<1>4. CASE UNCHANGED managedVars
  <2>1. Writers' = Writers /\ Recorded' = Recorded
    BY <1>4 DEF managedVars, Writers, Recorded
  <2>2. Late' = Late /\ Orphans' \subseteq Orphans
    BY <1>1, <1>2, <2>1 DEF Late, Orphans
  <2>3. Pledged => Pledged'
    BY <1>1, <1>2, <1>4, <2>1 DEF managedVars, Pledged
  <2>. QED  BY <1>0, <1>2, <2>2, <2>3, QuietMove
<1>. QED  BY <1>1, <1>3, <1>4

----------------------------------------------------------------------------
(***************************************************************************)
(* The invariant.                                                          *)
(***************************************************************************)

\* It holds initially: nothing is recorded, nothing works, nobody does anything.
LEMMA InvInit == Init => IInv
<1>. SUFFICES ASSUME Init PROVE IInv
  OBVIOUS
<1>1. TypeOK /\ NoNames
  BY TypeInit
<1>. USE DEF Init, ManagedInit
<1>2. CopiesAgree /\ Untouched
  BY DEF CopiesAgree, Untouched, Before, NewObject
<1>3. Recording
  BY FS_EmptySet DEF Recording, Statuses, NewObject
<1>4. Hands
  BY DEF Hands, Absent, Holding, Telling
<1>5. Orphans = {} /\ Late = {} /\ Mishaps = 0
  BY DEF Orphans, Late, Creators, Writers, Mishaps
<1>6. Ledger
  BY <1>5, FS_EmptySet DEF Ledger
<1>. QED  BY <1>1, <1>2, <1>3, <1>4, <1>6 DEF IInv, History

\* Every step keeps it.
LEMMA InvStep == IInv /\ [Next]_vars => IInv'
<1>. SUFFICES ASSUME IInv, [Next]_vars PROVE IInv'
  OBVIOUS
<1>1. TypeOK' /\ History'
  BY HistoryStep DEF IInv
<1>2. Ledger'
  BY <1>1, ManagingLedger, ControllerLedger, OutsideLedger, Cases
<1>. QED  BY <1>1, <1>2 DEF IInv

\* The ledger bounds what nobody knows of: a pledge is in late hands.
LEMMA InvBounds == IInv => LeaksAccounted
<1>. SUFFICES ASSUME IInv PROVE LeaksAccounted
  OBVIOUS
<1>1. /\ Cardinality(Orphans) \in Nat /\ Cardinality(Late) \in Nat
      /\ Cardinality(Late) = 0 <=> Late = {}
      /\ Mishaps \in Nat
  BY CountsFinite, FS_CardinalityType, FS_EmptySet DEF IInv, History
<1>2. Pledged => Late # {}
  BY DEF Pledged, Late
<1>3. Cardinality(Orphans) <= Mishaps
  BY <1>1, <1>2 DEF IInv, Ledger
<1>. QED  BY <1>3 DEF LeaksAccounted, Mishaps

\* The inductive invariant is an invariant.
THEOREM InductiveInvariant == Spec => []IInv
  BY InvInit, InvStep, PTL DEF Spec

\* However many processes reconcile the resource at the same time, there are
\* never more working tokens nobody knows of than there have been failures,
\* overridden creations and statuses refused because the resource had changed
\* (Create keeps the accessor in the status only, token.go:179, and the status
\* is not stored with the annotations).
THEOREM LeaksBounded == Spec => []LeaksAccounted
  BY InductiveInvariant, InvBounds, PTL

----------------------------------------------------------------------------
(***************************************************************************)
(* The abstract store of credentials.                                      *)
(***************************************************************************)

Lives == [id \in Ids |-> LifeOf(id)]

\* When nothing is found and one token at most is forgotten, one is lost, or
\* none.
LEMMA OneLost ==
  ASSUME TypeOK, live' = live, created' = created, NEW id,
         live \cap Known' \subseteq Known, live \cap Known \subseteq Known' \cup {id}
  PROVE  Lives' = Lives \/ \E i \in Ids : Abstract!Lose(i)
<1>1. /\ Orphans = live \ Known /\ Orphans' = live \ Known'
  BY DEF Orphans, Known
<1>2. CASE Orphans' = Orphans
  BY <1>2 DEF Lives, LifeOf
<1>3. CASE Orphans' # Orphans
  <2>1. Orphans' = Orphans \cup {id} /\ id \in live /\ id \notin Orphans
    BY <1>1, <1>3
  <2>2. id \in Ids /\ LifeOf(id) = "held" /\ LifeOf(id)' = "lost"
    BY <2>1 DEF TypeOK, LifeOf
  <2>3. \A i \in Ids : i # id => LifeOf(i)' = LifeOf(i)
    BY <2>1 DEF LifeOf
  <2>4. Abstract!Lose(id)
    BY <2>2, <2>3 DEF Abstract!Lose, Abstract!Become
  <2>. QED  BY <2>2, <2>4
<1>. QED  BY <1>2, <1>3

\* When a token ends and nothing else changes, that is its end, or nothing.
LEMMA OneEnds ==
  ASSUME TypeOK, created' = created, live \cap Known' = live \cap Known,
         NEW id, live' = live \ {id}
  PROVE  Lives' = Lives \/ \E i \in Ids : Abstract!End(i)
<1>1. Orphans = live \ Known /\ Orphans' = live' \ Known'
  BY DEF Orphans, Known
<1>2. CASE id \in live
  <2>1. id \in Ids /\ LifeOf(id) \in {"held", "lost"} /\ LifeOf(id)' = "dead"
    BY <1>2 DEF TypeOK, LifeOf
  <2>2. \A i \in Ids : i # id => LifeOf(i)' = LifeOf(i)
    BY <1>1 DEF LifeOf
  <2>3. Abstract!End(id)
    BY <2>1, <2>2 DEF Abstract!End, Abstract!Become
  <2>. QED  BY <2>1, <2>3
<1>3. CASE id \notin live
  <2>1. live' = live /\ Orphans' = Orphans
    BY <1>1, <1>3
  <2>. QED  BY <2>1 DEF Lives, LifeOf
<1>. QED  BY <1>2, <1>3

\* Vault issues a token, with or without an answer, or one is revoked.
LEMMA ControllerLives ==
  ASSUME IInv, NEW w \in Workers, ControllerStep(w) \/ CreateUnanswered(w)
  PROVE  \/ Lives' = Lives
         \/ \E id \in Ids : Abstract!Issue(id) \/ Abstract!Spill(id) \/ Abstract!End(id)
<1>0. /\ TypeOK /\ History
      /\ UNCHANGED api
      /\ \A v \in Workers \ {w} : mr'[v] = mr[v] /\ secret'[v] = secret[v]
      /\ \A i \in Known : i \in created \cup {NoId}
      /\ pc[w] = "create" => secret[w] = NoId
  BY ControllerFrame
  DEF IInv, History, Recording, Hands, Holding, Statuses, Known, InHand, Recorded
<1>. USE DEF TypeOK, ManagedTypeOK
<1>1. CASE Create(w)
  <2>1. PICK id \in Ids \ created :
           /\ live' = live \cup {id}
           /\ created' = created \cup {id}
           /\ mr' = [mr EXCEPT ![w] = [mr[w] EXCEPT !.status = id]]
           /\ secret' = [secret EXCEPT ![w] = id]
    BY <1>1 DEF Create, SetAccessor
  <2>2. mr'[w].status = id /\ secret'[w] = id /\ id # NoId /\ secret[w] = NoId
    BY <1>0, <1>1, <2>1, ManagedAssumption DEF Create, Object
  <2>3. InHand' = InHand \cup {id}
    BY <1>0, <2>2 DEF InHand
  <2>4. Known' = Known \cup {id}
    BY <1>0, <2>3 DEF Known, Recorded
  <2>5. Orphans = live \ Known /\ Orphans' = live' \ Known'
    BY DEF Orphans, Known
  <2>6. Orphans' = Orphans
    BY <1>0, <2>1, <2>4, <2>5
  <2>7. LifeOf(id) = "new" /\ LifeOf(id)' = "held"
    BY <2>1, <2>4, <2>5 DEF LifeOf
  <2>8. \A i \in Ids : i # id => LifeOf(i)' = LifeOf(i)
    BY <2>1, <2>6 DEF LifeOf
  <2>9. Abstract!Issue(id)
    BY <2>7, <2>8 DEF Abstract!Issue, Abstract!Become
  <2>. QED  BY <2>1, <2>9
<1>2. CASE CreateUnanswered(w)
  <2>1. PICK id \in Ids \ created :
           /\ live' = live \cup {id}
           /\ created' = created \cup {id}
    BY <1>2 DEF CreateUnanswered
  <2>2. Known' = Known
    BY <1>0, <1>2 DEF CreateUnanswered, Known, InHand, Recorded
  <2>3. id \notin Known
    BY <1>0, <2>1, ManagedAssumption
  <2>4. Orphans = live \ Known /\ Orphans' = live' \ Known'
    BY DEF Orphans, Known
  <2>5. LifeOf(id) = "new" /\ LifeOf(id)' = "lost"
    BY <2>1, <2>2, <2>3, <2>4 DEF LifeOf
  <2>6. \A i \in Ids : i # id => LifeOf(i)' = LifeOf(i)
    BY <2>1, <2>2, <2>4 DEF LifeOf
  <2>7. Abstract!Spill(id)
    BY <2>5, <2>6 DEF Abstract!Spill, Abstract!Become
  <2>. QED  BY <2>1, <2>7
<1>3. CASE Delete(w)
  <2>1. /\ live' = live \ {mr[w].status}
        /\ UNCHANGED <<mr, secret, created>>
    BY <1>3 DEF Delete, Die
  <2>2. Known' = Known
    BY <1>0, <2>1 DEF Known, InHand, Recorded
  <2>. QED  BY <1>0, <2>1, <2>2, OneEnds
<1>4. CASE Observe(w) \/ CreateRefused(w) \/ Update(w) \/ CallRefused(w)
  <2>1. UNCHANGED <<mr, secret, live, created>>
    BY <1>4 DEF Observe, Exists, CreateRefused, Update, CallRefused, tokenVars
  <2>2. Orphans' = Orphans
    BY <1>0, <2>1 DEF Orphans, InHand, Recorded
  <2>. QED  BY <2>1, <2>2 DEF Lives, LifeOf
<1>. QED  BY <1>1, <1>2, <1>3, <1>4 DEF ControllerStep

\* The user and Vault: a token ends, or the last record of none goes.
LEMMA OutsideLives ==
  ASSUME IInv, Outside
  PROVE  Lives' = Lives \/ \E id \in Ids : Abstract!End(id)
<1>0. /\ TypeOK /\ Untouched /\ NoId \notin live
      /\ UNCHANGED <<mr, secret, created>>
      /\ (RequestDelete /\ live' = live) \/ UNCHANGED managedVars
  BY OutsideFrame, ManagedAssumption DEF IInv, History, TypeOK, ManagedTypeOK
<1>1. InHand' = InHand
  BY <1>0 DEF InHand
<1>2. CASE RequestDelete /\ live' = live
  <2>1. /\ api.present /\ api'.present = api.finalizer
        /\ api'.status = api.status
        /\ ~api.finalizer => api.status = NoId
    BY <1>0, <1>2, RequestDeleteStores DEF TypeOK, Untouched, NewObject
  <2>2. live \cap Recorded' = live \cap Recorded
    BY <1>0, <2>1 DEF Recorded
  <2>3. Orphans' = Orphans
    BY <1>1, <1>2, <2>2 DEF Orphans
  <2>. QED  BY <1>0, <1>2, <2>3 DEF Lives, LifeOf
<1>3. CASE UNCHANGED managedVars
  <2>1. Known' = Known
    BY <1>1, <1>3 DEF managedVars, Known, Recorded
  <2>2. live' = live \/ \E id : live' = live \ {id}
    BY DEF Outside, User, Age, Expire, Die, vars, tokenVars
  <2>3. CASE live' = live
    <3>1. Orphans' = Orphans
      BY <2>1, <2>3 DEF Orphans, Known
    <3>. QED  BY <1>0, <2>3, <3>1 DEF Lives, LifeOf
  <2>. QED  BY <1>0, <2>1, <2>2, <2>3, OneEnds
<1>. QED  BY <1>0, <1>2, <1>3

\* The store counts as this module does.
LEMMA SameCardinality == \A S : Abstract!Cardinality(S) = Cardinality(S)
  BY DEF Abstract!Cardinality, Cardinality

\* No step takes back a mishap.
LEMMA MishapsGrow ==
  ASSUME TypeOK, TypeOK', [Next]_vars
  PROVE  Mishaps \in Nat /\ Mishaps' \in Nat /\ Mishaps <= Mishaps'
<1>1. /\ faults \in Nat /\ overrides \in Nat /\ discarded \in Nat
      /\ faults' \in Nat /\ overrides' \in Nat /\ discarded' \in Nat
  BY ManagedAssumption DEF TypeOK, ManagedTypeOK
<1>2. faults <= faults' /\ overrides <= overrides' /\ discarded <= discarded'
  <2>1. CASE \E w \in Workers : Managing(w)
    BY <2>1, ReconcilerCounts DEF Managing, TypeOK
  <2>2. ASSUME NEW w \in Workers, ControllerStep(w) \/ CreateUnanswered(w)
        PROVE  faults <= faults' /\ overrides <= overrides' /\ discarded <= discarded'
    <3>1. overrides' = overrides /\ discarded' = discarded
      BY <2>2, ControllerFrame
    <3>2. faults' \in {faults, faults + 1}
      BY <2>2
      DEF ControllerStep, Observe, Exists, Create, CreateRefused, Update, Delete,
          CallRefused, CreateUnanswered, Fault
    <3>. QED  BY <1>1, <3>1, <3>2
  <2>3. CASE Outside
    BY <1>1, <2>3, OutsideFrame
  <2>. QED  BY <2>1, <2>2, <2>3, Cases
<1>. QED  BY <1>1, <1>2, SumsGrow DEF Mishaps

\* Every step of the controller is a step of the abstract store.
LEMMA LivesStep ==
  IInv /\ IInv' /\ [Next]_vars => [Abstract!Next]_(Abstract!vars)
<1>. SUFFICES ASSUME IInv, IInv', [Next]_vars
              PROVE  Abstract!Next
  BY DEF Abstract!vars
<1>0. TypeOK /\ TypeOK' /\ History /\ Recording'
  BY DEF IInv, History
<1>1. \/ Lives' = Lives
      \/ \E id \in Ids : \/ Abstract!Issue(id) \/ Abstract!Spill(id)
                         \/ Abstract!Lose(id) \/ Abstract!End(id)
  <2>1. CASE \E w \in Workers : Managing(w)
    <3>1. PICK w \in Workers : Managing(w)
      BY <2>1
    <3>2. live' = live /\ created' = created
      BY <3>1 DEF Managing, tokenVars
    <3>. QED  BY <1>0, <3>1, <3>2, ManagingKnown, OneLost
  <2>2. CASE \E w \in Workers : ControllerStep(w) \/ CreateUnanswered(w)
    BY <2>2, ControllerLives
  <2>3. CASE Outside
    BY <2>3, OutsideLives
  <2>. QED  BY <2>1, <2>2, <2>3, Cases
<1>2. Abstract!Paid
  <2>1. /\ Mishaps \in Nat /\ Mishaps' \in Nat /\ Mishaps <= Mishaps'
    BY <1>0, MishapsGrow
  <2>2. Cardinality(Orphans') <= Mishaps'
    <3>1. LeaksAccounted'
      BY InvBounds, PTL
    <3>. QED  BY <3>1 DEF LeaksAccounted, Mishaps
  <2>3. IsFiniteSet(Orphans')
    <3>1. IsFiniteSet(created') /\ Orphans' \subseteq created'
      BY <1>0 DEF Recording, Orphans, TypeOK
    <3>. QED  BY <3>1, FS_Subset
  <2>4. Abstract!Lost' \subseteq Orphans'
    BY DEF Abstract!Lost, LifeOf
  <2>5. /\ Cardinality(Orphans') \in Nat /\ Cardinality(Abstract!Lost') \in Nat
        /\ Cardinality(Abstract!Lost') <= Cardinality(Orphans')
    BY <2>3, <2>4, NoMore
  <2>6. Cardinality(Abstract!Lost') <= Mishaps' /\ Mishaps' >= Mishaps
    BY <2>1, <2>2, <2>5
  <2>. QED  BY <2>1, <2>6, SameCardinality DEF Abstract!Paid, Mishaps
<1>. QED  BY <1>1, <1>2 DEF Abstract!Next, Abstract!Mishap, Lives

\* The initial states are the store's: nothing has been issued.
LEMMA LivesInit == Init => Abstract!Init
  BY DEF Init, ManagedInit, Abstract!Init, LifeOf

\* However many processes reconcile the resource at the same time, the
\* controller implements the abstract store of credentials: a token is issued
\* once (Create, token.go:144), is known to the resource or to a worker until
\* it ends or is lost, is never found again once it is lost, and no more are
\* lost and working than mishaps have paid for.
THEOREM Refinement == Spec => ImplementsCredentials
  BY LivesStep, LivesInit, InductiveInvariant, PTL
  DEF Spec, ImplementsCredentials, Abstract!Spec

----------------------------------------------------------------------------
(***************************************************************************)
(* The release.                                                            *)
(***************************************************************************)

\* Only the removal of the finalizer releases the resource, and the copy that
\* brought a worker there records what does not work.
LEMMA ReleaseStep == IInv /\ [Next]_vars => (Released => api.status \notin live)
<1>. SUFFICES ASSUME IInv, [Next]_vars, Released
              PROVE  api.status \notin live
  OBVIOUS
<1>0. TypeOK /\ ManagedTypeOK /\ CopiesAgree /\ Hands
  BY DEF IInv, History, TypeOK
<1>1. CASE \E w \in Workers : Managing(w)
  <2>1. PICK w \in Workers : Managing(w)
    BY <1>1
  <2>2. pc[w] = "unfinalize" /\ mr[w] = api
    BY <1>0, <2>1, ReconcilerReleases DEF Managing
  <2>. QED  BY <1>0, <2>2 DEF Hands, Absent
<1>2. CASE \E w \in Workers : ControllerStep(w) \/ CreateUnanswered(w)
  BY <1>0, <1>2, ControllerFrame DEF Released
<1>3. CASE Outside
  <2>1. (RequestDelete /\ live' = live) \/ UNCHANGED managedVars
    BY <1>0, <1>3, OutsideFrame
  <2>. QED
    BY <1>0, <2>1, RequestDeleteStores DEF Released, managedVars
<1>. QED  BY <1>1, <1>2, <1>3, Cases

\* The finalizer is removed only once the recorded token does not work any more:
\* Observe (token.go:97-108) has not found it, or Delete (213-227) has revoked it.
\* With any number of processes, outdated caches and failures.
THEOREM RevocationFirst == Spec => RevokedBeforeReleased
  BY ReleaseStep, InductiveInvariant, PTL DEF Spec, RevokedBeforeReleased
=============================================================================
