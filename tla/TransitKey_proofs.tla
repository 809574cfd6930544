-------------------------- MODULE TransitKey_proofs --------------------------
(***************************************************************************)
(* Theorems about TransitKey, for any number of processes, any             *)
(* specifications and any bounds: the state keeps its type, and a key is   *)
(* rotated past what was asked for only by others and by processes that    *)
(* observed it at the same time; and the finalizer goes after the key.     *)
(***************************************************************************)
EXTENDS TransitKey, Managed_proofs

----------------------------------------------------------------------------
(***************************************************************************)
(* Type correctness.                                                       *)
(***************************************************************************)

\* The steps of a worker from the answer of Observe to the last rotation.
OnTheWay == {"finalizer", "update", "rotate"}

\* What a worker remembers keeps its type, and does not change on the way to
\* Update but by the worker's own observation and rotations.
LEMMA Remembered ==
  ASSUME TypeOK, NEW R, Remember(R),
         \A w \in Workers : pc'[w] \in OnTheWay => pc[w] \in OnTheWay \cup {"observe"}
  PROVE  /\ CarrySpec
         /\ specCache' \in [Workers -> Wants] /\ specCopy' \in [Busy' -> Wants]
         /\ seen' \in [Tracking' -> Nat]
         /\ Tracking' = {w \in Workers : pc'[w] \in OnTheWay}
         /\ \A w \in Tracking' :
               /\ w \in Busy /\ specCopy'[w] = specCopy[w]
               /\ seen'[w] = IF pc[w] = "observe" THEN key.latest
                             ELSE IF w \in R THEN seen[w] + 1 ELSE seen[w]
<1>1. Busy' = {w \in Workers : pc'[w] # "idle"}
  BY DEF Busy
<1>2. Tracking' = {w \in Workers : pc'[w] \in OnTheWay}
  BY DEF Tracking, OnTheWay
<1>3. \A w \in Tracking' : pc[w] = "observe" \/ w \in Tracking
  BY <1>2 DEF Tracking, OnTheWay
<1>4. /\ CarrySpec
      /\ seen' = [w \in Tracking' |->
                   IF pc[w] = "observe" THEN key.latest
                   ELSE IF w \in R THEN seen[w] + 1
                   ELSE seen[w]]
  BY DEF Remember
<1>5. key.latest \in Nat /\ \A w \in Tracking : seen[w] \in Nat
  BY DEF TypeOK, Keys
<1>6. seen' \in [Tracking' -> Nat]
  BY <1>3, <1>4, <1>5
<1>7. specCache' \in [Workers -> Wants] /\ specCopy' \in [Busy' -> Wants]
  BY <1>1, <1>4 DEF CarrySpec, TypeOK, SpecifiedTypeOK
<1>8. \A w \in Tracking' : w \in Busy /\ specCopy'[w] = specCopy[w]
  BY <1>2, <1>3, <1>4 DEF CarrySpec, Busy, Tracking, OnTheWay
<1>. QED  BY <1>2, <1>4, <1>6, <1>7, <1>8

\* A step of the reconciler: a worker comes to Update only from the finalizer
\* and with the plan Observe has made.
LEMMA ReconcilerPath ==
  ASSUME ManagedTypeOK, NEW w \in Workers,
         ReconcilerStep(w) \/ ReconcilerFault(w) \/ SyncCache(w)
  PROVE  \A v \in Workers :
            /\ pc'[v] = "rotate" => pc[v] = "rotate"
            /\ pc'[v] = "update" =>
                  pc[v] = "update" \/ (pc[v] = "finalizer" /\ plan[v] = "update")
            /\ pc'[v] = "finalizer" => pc[v] = "finalizer" /\ plan'[v] = plan[v]
<1>. USE DEF ManagedTypeOK
<1>1. CASE Reconcile(w) \/ SaveAnnotations(w)
  BY <1>1 DEF Reconcile, SaveAnnotations, Goto
<1>2. CASE AddFinalizer(w) \/ MarkCreatePending(w)
  BY <1>2 DEF AddFinalizer, MarkCreatePending, Goto
<1>3. CASE RemoveFinalizer(w) \/ Conflict(w) \/ Abort(w)
  BY <1>3 DEF RemoveFinalizer, Conflict, Abort, Finish, Goto
<1>4. CASE PublishConnection(w) \/ LosePublication(w) \/ LoseAnnotations(w)
  BY <1>4 DEF PublishConnection, LosePublication, LoseAnnotations, Goto
<1>5. CASE SaveStatus(w) \/ StatusConflict(w) \/ SyncCache(w)
  BY <1>5 DEF SaveStatus, StatusConflict, SyncCache, Finish, Goto
<1>. QED
  BY <1>1, <1>2, <1>3, <1>4, <1>5 DEF ReconcilerStep, ReconcilerFault

\* What any step but an edit or tampering has to establish to keep the type.
LEMMA TypeCases ==
  ASSUME TypeOK, NEW R, Remember(R), ManagedTypeOK', spec' = spec, edits' = edits,
         \A w \in Workers : pc'[w] \in OnTheWay => pc[w] \in OnTheWay \cup {"observe"},
         \A w \in Workers : pc'[w] = "rotate" => seen'[w] < specCopy[w].target,
         key' \in Keys, asked' = asked, tampers' = tampers,
         refusals' \in 0 .. MaxRefusals
  PROVE  TypeOK'
<1>1. /\ specCache' \in [Workers -> Wants] /\ specCopy' \in [Busy' -> Wants]
      /\ seen' \in [Tracking' -> Nat]
      /\ \A w \in Workers : pc'[w] = "rotate" => specCopy'[w] = specCopy[w]
  BY Remembered DEF OnTheWay
<1>. QED  BY <1>1 DEF TypeOK, SpecifiedTypeOK

\* What a step of the controller does to the key and to the reconcile.
LEMMA ControllerEffect ==
  ASSUME TypeOK, NEW w \in Workers, ControllerStep(w) \/ ControllerFault(w)
  PROVE  /\ UNCHANGED <<spec, edits, asked, tampers>>
         /\ ManagedTypeOK' /\ key' \in Keys /\ refusals' \in 0 .. MaxRefusals
         /\ \A v \in Workers \ {w} : pc'[v] = pc[v] /\ plan'[v] = plan[v]
         /\ \/ /\ Observe(w) /\ Remember({}) /\ key' = key
               /\ pc[w] = "observe"
               /\ pc'[w] \in {"delete", "unfinalize", "finalizer"}
               /\ plan'[w] = "update" => key.latest > 0
            \/ /\ Remember({}) /\ pc'[w] \in {"annotate", "annotateFailed"}
               /\ pc[w] = "create"
               /\ key'.latest = key.latest \/ (key.latest = 0 /\ key'.latest = 1)
            \/ /\ Remember({}) /\ pc'[w] \in {"rotate", "status"}
               /\ pc[w] \in {"observe", "update", "rotate", "delete"}
               /\ pc'[w] = "rotate" => /\ pc[w] = "update"
                                       /\ seen[w] < specCopy[w].target
               /\ key'.latest <= key.latest
            \/ /\ pc[w] = "rotate"
               /\ \/ Remember({w}) /\ pc'[w] = "rotate" /\ seen[w] + 1 < specCopy[w].target
                  \/ Remember({w}) /\ pc'[w] = "status"
                  \/ Remember({}) /\ pc'[w] = "status"
               /\ key'.latest <= key.latest + 1
<1>. USE DEF TypeOK, ManagedTypeOK, Steps, Keys
<1>0. /\ key.latest \in Nat
      /\ \/ specCopy[w] \in [target : Nat, minimum : Nat, period : Periods,
                             form : Forms]
         \/ pc[w] = "idle"
      /\ pc[w] # "idle"
  BY TransitKeyAssumption
  DEF SpecifiedTypeOK, Busy, ControllerStep, ControllerFault, Observe, Create,
      CreateRefused, Configure, Rotate, Delete, CallRefused, CreateUnanswered,
      RotateUnanswered
<1>1. CASE Observe(w)
  BY <1>0, <1>1 DEF Observe, Decide, Goto, Exists
<1>2. CASE Create(w)
  <2>1. key' \in Keys /\ (key'.latest = key.latest \/ (key.latest = 0 /\ key'.latest = 1))
    BY <1>0, <1>2 DEF Create, MakeKey, Exists, Periods
  <2>. QED  BY <1>2, <2>1 DEF Create, Goto
<1>3. CASE CreateUnanswered(w)
  <2>1. key' \in Keys /\ (key'.latest = key.latest \/ (key.latest = 0 /\ key'.latest = 1))
    BY <1>0, <1>3 DEF CreateUnanswered, MakeKey, Exists, Periods
  <2>2. faults' \in 0 .. MaxFaults
    BY <1>3, ManagedAssumption DEF CreateUnanswered, Fault
  <2>. QED  BY <1>3, <2>1, <2>2 DEF CreateUnanswered, Goto
<1>4. CASE CreateRefused(w) \/ CallRefused(w)
  BY <1>0, <1>4, TransitKeyAssumption DEF CreateRefused, CallRefused, Refuse, Goto
<1>5. CASE Configure(w)
  <2>1. key' \in Keys /\ key'.latest = key.latest
    BY <1>0, <1>5 DEF Configure, Periods
  <2>2. /\ pc'[w] \in {"rotate", "status"} /\ pc[w] = "update"
        /\ pc'[w] = "rotate" => seen[w] < specCopy[w].target
        /\ pc' \in [Workers -> Steps]
        /\ \A v \in Workers \ {w} : pc'[v] = pc[v]
    BY <1>5 DEF Configure, RotationsLeft, Goto
  <2>. QED  BY <1>0, <1>5, <2>1, <2>2 DEF Configure
<1>6. CASE Rotate(w)
  <2>1. key' \in Keys /\ key'.latest <= key.latest + 1
    BY <1>0, <1>6 DEF Rotate
  <2>2. /\ pc[w] = "rotate"
        /\ \/ pc'[w] = "rotate" /\ seen[w] + 1 < specCopy[w].target
           \/ pc'[w] = "status"
        /\ pc' \in [Workers -> Steps]
        /\ \A v \in Workers \ {w} : pc'[v] = pc[v]
    BY <1>6 DEF Rotate, RotationsLeft, Goto
  <2>. QED  BY <1>0, <1>6, <2>1, <2>2 DEF Rotate
<1>7. CASE RotateUnanswered(w)
  <2>1. key' \in Keys /\ key'.latest <= key.latest + 1
    BY <1>0, <1>7 DEF RotateUnanswered
  <2>2. faults' \in 0 .. MaxFaults
    BY <1>7, ManagedAssumption DEF RotateUnanswered, Fault
  <2>. QED  BY <1>7, <2>1, <2>2 DEF RotateUnanswered, Goto
<1>8. CASE Delete(w)
  <2>1. key' \in Keys /\ key'.latest <= key.latest
    BY <1>0, <1>8 DEF Delete, NoKey, Periods
  <2>. QED  BY <1>8, <2>1 DEF Delete, Goto
<1>. QED
  BY <1>1, <1>2, <1>3, <1>4, <1>5, <1>6, <1>7, <1>8
  DEF ControllerStep, ControllerFault

\* A step of the controller keeps the type.
LEMMA ControllerType ==
  ASSUME TypeOK, NEW w \in Workers, ControllerStep(w) \/ ControllerFault(w)
  PROVE  TypeOK'
<1>1. PICK R \in {{}, {w}} :
         /\ Remember(R)
         /\ R = {w} => pc[w] = "rotate" /\ (pc'[w] = "rotate" => seen[w] + 1 < specCopy[w].target)
         /\ R = {} => (pc'[w] = "rotate" => pc[w] = "update" /\ seen[w] < specCopy[w].target)
         /\ pc'[w] \in OnTheWay => pc[w] \in OnTheWay \cup {"observe"}
  BY ControllerEffect DEF OnTheWay
<1>2. \A v \in Workers : pc'[v] \in OnTheWay => pc[v] \in OnTheWay \cup {"observe"}
  BY <1>1, ControllerEffect
<1>3. \A v \in Workers : pc'[v] = "rotate" => seen'[v] < specCopy[v].target
  <2>1. \A v \in Workers \ {w} : pc'[v] = "rotate" => pc[v] = "rotate" /\ v \notin R
    BY ControllerEffect
  <2>2. \A v \in Workers : pc'[v] = "rotate" =>
           seen'[v] = IF pc[v] = "observe" THEN key.latest
                      ELSE IF v \in R THEN seen[v] + 1 ELSE seen[v]
    BY <1>1, <1>2, Remembered DEF OnTheWay
  <2>3. \A v \in Workers \ {w} : pc'[v] = "rotate" => seen'[v] < specCopy[v].target
    BY <2>1, <2>2 DEF TypeOK
  <2>4. pc'[w] = "rotate" => seen'[w] < specCopy[w].target
    BY <1>1, <2>2
  <2>. QED  BY <2>3, <2>4
<1>. QED  BY <1>1, <1>2, <1>3, ControllerEffect, TypeCases

\* The initial states have the type.
LEMMA TypeInit == Init => TypeOK
<1>. SUFFICES ASSUME Init PROVE TypeOK
  OBVIOUS
<1>1. ManagedTypeOK
  BY NewObjectType, ManagedInitType DEF Init, IdOrNone
<1>2. spec \in Wants /\ Busy = {} /\ Tracking = {}
  BY DEF Init, ManagedInit, Busy, Tracking
<1>3. <<>> \in [{} -> Wants] /\ <<>> \in [{} -> Nat]
  OBVIOUS
<1>4. SpecifiedTypeOK(Wants)
  BY <1>2, <1>3, SpecifiedAssumption DEF Init, SpecifiedInit, SpecifiedTypeOK
<1>5. key \in Keys /\ key.latest \in Nat
  <2>1. spec.form \in Forms
    BY <1>2, TransitKeyAssumption
  <2>2. NoKey(spec.form) \in Keys
    BY <2>1 DEF Keys, NoKey, Periods
  <2>3. [latest : 1 .. 2, minimum : {0}, period : {"unset"}, form : Forms,
         deletable : BOOLEAN] \subseteq Keys
    BY DEF Keys, Periods
  <2>4. key \in Keys
    BY <2>2, <2>3 DEF Init
  <2>. QED  BY <2>4 DEF Keys
<1>6. asked \in Nat
  BY <1>2, <1>5, TransitKeyAssumption DEF Init, Larger
<1>7. tampers \in 0 .. MaxTampers /\ refusals \in 0 .. MaxRefusals
  BY TransitKeyAssumption DEF Init
<1>8. seen \in [Tracking -> Nat] /\ \A w \in Workers : pc[w] = "idle"
  BY <1>2, <1>3 DEF Init, ManagedInit
<1>. QED  BY <1>1, <1>4, <1>5, <1>6, <1>7, <1>8 DEF TypeOK

\* An edit keeps the type.
LEMMA EditSpecType ==
  ASSUME TypeOK, EditSpec
  PROVE  /\ TypeOK'
         /\ UNCHANGED <<pc, plan, key, seen, tampers>>
         /\ CarrySpec
         /\ asked' = Larger(asked, spec'.target) /\ spec' \in Wants
<1>1. PICK want \in Wants : Edit(want) /\ asked' = Larger(asked, want.target)
  BY DEF EditSpec
<1>2. /\ UNCHANGED <<api, conn, cache, mr, pc, plan, secret, faults, overrides,
                     discarded, key, seen, tampers, refusals>>
      /\ edits' = edits + 1 /\ edits < MaxEdits /\ spec' = want
      /\ CarrySpec /\ current' = {} /\ fresh' = {}
  BY <1>1 DEF EditSpec, Edit
<1>3. Busy' = Busy /\ Tracking' = Tracking
  BY <1>2 DEF Busy, Tracking
<1>4. specCache' \in [Workers -> Wants] /\ specCopy' = specCopy
  <2>1. specCopy' = [w \in Busy |-> specCopy[w]]
    BY <1>2 DEF CarrySpec, Busy
  <2>. QED  BY <1>2, <2>1 DEF CarrySpec, TypeOK, SpecifiedTypeOK
<1>5. edits' \in 0 .. MaxEdits /\ asked' \in Nat
  <2>1. want.target \in Nat
    BY TransitKeyAssumption
  <2>. QED
    BY <1>1, <1>2, <2>1, SpecifiedAssumption DEF TypeOK, SpecifiedTypeOK, Larger
<1>6. ManagedTypeOK'
  BY <1>2 DEF TypeOK, ManagedTypeOK
<1>. QED
  BY <1>1, <1>2, <1>3, <1>4, <1>5, <1>6 DEF TypeOK, SpecifiedTypeOK

\* Tampering keeps the type.
LEMMA TamperType ==
  ASSUME TypeOK, Tamper
  PROVE  /\ TypeOK'
         /\ UNCHANGED <<managedVars, specVars, seen, asked>>
         /\ tampers' = tampers + 1 /\ key'.latest <= key.latest + 1
<1>1. /\ UNCHANGED <<managedVars, specVars, seen, asked, refusals>>
      /\ tampers' = tampers + 1 /\ tampers' \in 0 .. MaxTampers
  BY TransitKeyAssumption DEF Tamper, TypeOK
<1>2. key' \in Keys /\ key'.latest <= key.latest + 1
  <2>1. key \in Keys
    BY DEF TypeOK
  <2>2. key' = [key EXCEPT !.latest = @ + 1] \/ key' = NoKey(key.form)
    BY DEF Tamper
  <2>3. CASE key' = [key EXCEPT !.latest = @ + 1]
    BY <2>1, <2>3 DEF Keys
  <2>4. CASE key' = NoKey(key.form)
    BY <2>1, <2>4 DEF Keys, NoKey, Periods
  <2>. QED  BY <2>2, <2>3, <2>4
<1>3. ManagedTypeOK' /\ SpecifiedTypeOK(Wants)'
  BY <1>1
  DEF TypeOK, ManagedTypeOK, SpecifiedTypeOK, Busy, managedVars, specVars
<1>4. pc' = pc /\ specCopy' = specCopy /\ seen' = seen /\ Tracking' = Tracking
  BY <1>1 DEF managedVars, specVars, Tracking
<1>. QED  BY <1>1, <1>2, <1>3, <1>4 DEF TypeOK

\* What the steps of the reconciler and the request for deletion do.
LEMMA ManagingType ==
  ASSUME TypeOK,
         (\E w \in Workers : Managing(w)) \/ (RequestDelete /\ Aside)
  PROVE  /\ TypeOK' /\ Remember({})
         /\ UNCHANGED <<spec, key, asked, tampers>>
         /\ \A v \in Workers :
               /\ pc'[v] = "rotate" => pc[v] = "rotate"
               /\ pc'[v] = "update" =>
                     pc[v] = "update" \/ (pc[v] = "finalizer" /\ plan[v] = "update")
               /\ pc'[v] = "finalizer" => pc[v] = "finalizer" /\ plan'[v] = plan[v]
<1>1. /\ Aside /\ Remember({})
      /\ UNCHANGED <<spec, edits, key, asked, tampers, refusals>>
  BY DEF Managing, Aside
<1>2. /\ ManagedTypeOK'
      /\ \A v \in Workers :
            /\ pc'[v] = "rotate" => pc[v] = "rotate"
            /\ pc'[v] = "update" =>
                  pc[v] = "update" \/ (pc[v] = "finalizer" /\ plan[v] = "update")
            /\ pc'[v] = "finalizer" => pc[v] = "finalizer" /\ plan'[v] = plan[v]
  <2>1. CASE \E w \in Workers : Managing(w)
    BY <2>1, ReconcilerType, ReconcilerPath DEF Managing, TypeOK
  <2>2. CASE RequestDelete
    BY <2>2, UserType DEF UserStep, TypeOK
  <2>. QED  BY <2>1, <2>2
<1>3. \A w \in Workers : pc'[w] \in OnTheWay => pc[w] \in OnTheWay \cup {"observe"}
  BY <1>2 DEF OnTheWay
<1>4. \A w \in Workers : pc'[w] = "rotate" => seen'[w] < specCopy[w].target
  BY <1>1, <1>2, <1>3, Remembered DEF TypeOK, OnTheWay
<1>5. TypeOK'
  BY <1>1, <1>2, <1>3, <1>4, TypeCases DEF TypeOK
<1>. QED  BY <1>1, <1>2, <1>5

\* Every step keeps the type.
LEMMA TypeStep == TypeOK /\ [Next]_vars => TypeOK'
<1>1. ASSUME TypeOK, UNCHANGED vars PROVE TypeOK'
  BY <1>1
  DEF vars, managedVars, specVars, keyVars, TypeOK, ManagedTypeOK,
      SpecifiedTypeOK, Busy, Tracking
<1>. QED
  BY <1>1, ManagingType, ControllerType, EditSpecType, TamperType DEF Next, User

\* The state keeps its type: a worker in the loop of Update (transitkey.go:214)
\* has rotations left to make, and knows the version it has observed.
THEOREM TypeCorrect == Spec => []TypeOK
  BY TypeInit, TypeStep, PTL DEF Spec

----------------------------------------------------------------------------
(***************************************************************************)
(* Rotations.                                                              *)
(***************************************************************************)

\* The workers that are going to rotate the key, if there is a reason to.
Rotating == {w \in Workers : \/ pc[w] \in {"update", "rotate"}
                             \/ pc[w] = "finalizer" /\ plan[w] = "update"}

\* The rotations they have still to make, by the version each believes in.
Due == {d \in Workers \X (2 .. asked) :
            /\ d[1] \in Rotating
            /\ seen[d[1]] < d[2] /\ d[2] <= specCopy[d[1]].target}

\* What the other processes may add: each the whole way to the highest target.
Spare == (Cardinality(Workers) - 1) * (asked - 1)

\* No specification on its way asks for more than what was ever asked for, and
\* those that rotate have observed a key.
Reasons ==
    /\ asked >= 1
    /\ spec.target <= asked
    /\ \A w \in Workers : specCache[w].target <= asked
    /\ \A w \in Busy : specCopy[w].target <= asked
    /\ \A w \in Rotating : seen[w] >= 1

\* The rotations made and those that are due stay within the bound.
Budget == key.latest + Cardinality(Due) <= asked + tampers + Spare

IInv == TypeOK /\ Reasons /\ Budget

\* The natural numbers of the budget.
LEMMA BudgetType ==
  ASSUME TypeOK, Reasons, Workers # {}
  PROVE  /\ key.latest \in Nat /\ tampers \in Nat /\ asked \in Nat /\ Spare \in Nat
         /\ IsFiniteSet(Due) /\ Cardinality(Due) \in Nat
         /\ Cardinality(Workers) - 1 \in Nat /\ asked - 1 \in Nat
<1>1. key.latest \in Nat /\ tampers \in Nat /\ asked \in Nat /\ asked - 1 \in Nat
  BY TransitKeyAssumption DEF TypeOK, Keys, Reasons
<1>2. Cardinality(Workers) - 1 \in Nat
  <2>1. /\ Cardinality(Workers) \in Nat
        /\ Cardinality(Workers) # 0
    BY ManagedAssumption, FS_CardinalityType, FS_EmptySet
  <2>. QED  BY <2>1
<1>3. Spare \in Nat
  <2>1. \A m, n \in Nat : m * n \in Nat
    OBVIOUS
  <2>. QED  BY <1>1, <1>2, <2>1 DEF Spare
<1>4. IsFiniteSet(Due)
  <2>1. IsFiniteSet(2 .. asked)
    BY <1>1, FS_Interval
  <2>2. IsFiniteSet(Workers \X (2 .. asked))
    BY <2>1, ManagedAssumption, FS_Product
  <2>. QED  BY <2>2, FS_Subset DEF Due
<1>5. Cardinality(Due) \in Nat
  BY <1>4, FS_CardinalityType
<1>. QED  BY <1>1, <1>2, <1>3, <1>4, <1>5

\* The rotations that processes other than w can have due fit into Spare.
LEMMA OthersDue ==
  ASSUME TypeOK, Reasons, NEW w \in Workers, NEW S,
         S \subseteq (Workers \ {w}) \X (2 .. asked)
  PROVE  IsFiniteSet(S) /\ Cardinality(S) \in Nat /\ Cardinality(S) <= Spare
<1>1. asked \in Nat /\ asked >= 1
  BY DEF TypeOK, Reasons
<1>2. /\ IsFiniteSet(Workers \ {w})
      /\ Cardinality(Workers \ {w}) = Cardinality(Workers) - 1
  BY ManagedAssumption, FS_Subset, OneLess
<1>3. IsFiniteSet(2 .. asked) /\ Cardinality(2 .. asked) = asked - 1
  BY <1>1, FS_Interval
<1>4. /\ IsFiniteSet((Workers \ {w}) \X (2 .. asked))
      /\ Cardinality((Workers \ {w}) \X (2 .. asked)) = Spare
  <2>1. /\ IsFiniteSet((Workers \ {w}) \X (2 .. asked))
        /\ Cardinality((Workers \ {w}) \X (2 .. asked))
             = Cardinality(Workers \ {w}) * Cardinality(2 .. asked)
    BY <1>2, <1>3, FS_Product
  <2>. QED  BY <1>2, <1>3, <2>1 DEF Spare
<1>. QED  BY <1>4, FS_Subset, NoMore

\* The targets that travel, and the versions that were seen, before an edit.
LEMMA ReasonsKept ==
  ASSUME TypeOK, Reasons, CarrySpec, spec' = spec, asked' = asked,
         \A w \in Rotating' : seen'[w] >= 1
  PROVE  Reasons'
<1>1. Busy' = {w \in Workers : pc'[w] # "idle"}
  BY DEF Busy
<1>2. /\ \A w \in Workers : specCache'[w] \in {spec, specCache[w]}
      /\ \A w \in Busy' : specCopy'[w] = IF w \in Busy THEN specCopy[w] ELSE specCache[w]
      /\ Busy' \subseteq Workers
  BY <1>1 DEF CarrySpec
<1>. QED  BY <1>2 DEF Reasons

\* Rotations that are due stay the same for workers that go on their way.
LEMMA DueKept ==
  ASSUME TypeOK, NEW R, Remember(R), NEW S, asked' = asked,
         \A v \in Workers : pc'[v] \in OnTheWay => pc[v] \in OnTheWay \cup {"observe"},
         \A v \in S : v \in Rotating' => v \in Rotating
  PROVE  \A d \in Due' : d[1] \in S =>
            d \in Due /\ (d[1] \in R => d[2] # seen[d[1]] + 1)
<1>1. /\ Rotating' = {v \in Workers : \/ pc'[v] \in {"update", "rotate"}
                                      \/ pc'[v] = "finalizer" /\ plan'[v] = "update"}
      /\ Due' = {d \in Workers \X (2 .. asked) :
                   /\ d[1] \in Rotating'
                   /\ seen'[d[1]] < d[2] /\ d[2] <= specCopy'[d[1]].target}
  BY DEF Rotating, Due
<1>. SUFFICES ASSUME NEW d \in Due', d[1] \in S
              PROVE  d \in Due /\ (d[1] \in R => d[2] # seen[d[1]] + 1)
  OBVIOUS
<1>2. /\ d \in Workers \X (2 .. asked) /\ d[1] \in Workers /\ d[2] \in Nat
      /\ d[1] \in Rotating' /\ d[1] \in Rotating
      /\ seen'[d[1]] < d[2] /\ d[2] <= specCopy'[d[1]].target
  BY <1>1 DEF TypeOK
<1>3. d[1] \in Tracking' /\ d[1] \in Tracking /\ pc[d[1]] # "observe"
  BY <1>1, <1>2 DEF Tracking, Rotating
<1>4. /\ specCopy'[d[1]] = specCopy[d[1]]
      /\ seen'[d[1]] = IF d[1] \in R THEN seen[d[1]] + 1 ELSE seen[d[1]]
  BY <1>3, Remembered
<1>5. seen[d[1]] \in Nat
  BY <1>3 DEF TypeOK
<1>. QED  BY <1>2, <1>4, <1>5 DEF Due

\* A step that adds no rotation to those that are due and makes none.
LEMMA NoneMade ==
  ASSUME TypeOK, Reasons, Budget, Workers # {},
         Due' \subseteq Due, key'.latest \in Nat, key'.latest <= key.latest,
         asked' = asked, tampers' = tampers
  PROVE  Budget'
<1>1. /\ key.latest \in Nat /\ tampers \in Nat /\ asked \in Nat /\ Spare \in Nat
      /\ IsFiniteSet(Due) /\ Cardinality(Due) \in Nat
  BY BudgetType
<1>2. Cardinality(Due') \in Nat /\ Cardinality(Due') <= Cardinality(Due)
  BY <1>1, NoMore
<1>3. key'.latest + Cardinality(Due') <= key.latest + Cardinality(Due)
  BY <1>1, <1>2, SumsGrow
<1>4. Spare' = Spare /\ asked' = asked /\ tampers' = tampers
  BY DEF Spare
<1>5. PICK left \in Nat : left = key'.latest + Cardinality(Due')
  BY <1>2
<1>6. left <= asked + tampers + Spare
  BY <1>1, <1>3, <1>5 DEF Budget
<1>. QED  BY <1>4, <1>5, <1>6 DEF Budget

\* The versions one process still has to go,.
LEMMA SpanDue ==
  ASSUME NEW w, NEW m \in Nat, NEW n \in Nat, m < n
  PROVE  /\ IsFiniteSet({w} \X ((m + 1) .. n))
         /\ Cardinality({w} \X ((m + 1) .. n)) = n - m
<1>1. IsFiniteSet((m + 1) .. n) /\ Cardinality((m + 1) .. n) = n - m
  BY FS_Interval
<1>2. IsFiniteSet({w}) /\ Cardinality({w}) = 1
  BY FS_Singleton
<1>3. /\ IsFiniteSet({w} \X ((m + 1) .. n))
      /\ Cardinality({w} \X ((m + 1) .. n)) = 1 * Cardinality((m + 1) .. n)
  BY <1>1, <1>2, FS_Product
<1>4. \A i \in Int : 1 * i = i
  OBVIOUS
<1>. QED  BY <1>1, <1>3, <1>4

\* A part of two sets has at most as many elements as both together.
LEMMA UnionBound ==
  ASSUME NEW S, NEW T, NEW D, IsFiniteSet(S), IsFiniteSet(T), D \subseteq S \cup T
  PROVE  /\ Cardinality(D) \in Nat /\ Cardinality(S) \in Nat /\ Cardinality(T) \in Nat
         /\ Cardinality(D) <= Cardinality(S) + Cardinality(T)
<1>1. /\ Cardinality(S) \in Nat /\ Cardinality(T) \in Nat
      /\ Cardinality(S \cap T) \in Nat
  BY FS_Subset, FS_CardinalityType
<1>2. /\ IsFiniteSet(S \cup T)
      /\ Cardinality(S \cup T) = Cardinality(S) + Cardinality(T) - Cardinality(S \cap T)
  BY FS_Union
<1>3. Cardinality(D) \in Nat /\ Cardinality(D) <= Cardinality(S \cup T)
  BY <1>2, NoMore
<1>. QED  BY <1>1, <1>2, <1>3

\* A step of the controller makes a rotation that was due, observes a key, or
\* makes one while the others have no more due than is spared for them.
LEMMA ControllerKeeps ==
  ASSUME IInv, NEW w \in Workers, ControllerStep(w) \/ ControllerFault(w)
  PROVE  Reasons' /\ Budget'
<1>0. /\ TypeOK /\ Reasons /\ Budget /\ TypeOK' /\ Workers # {}
      /\ key.latest \in Nat /\ tampers \in Nat /\ asked \in Nat /\ Spare \in Nat
      /\ key'.latest \in Nat /\ asked >= 1
      /\ IsFiniteSet(Due) /\ Cardinality(Due) \in Nat
      /\ UNCHANGED <<spec, edits, asked, tampers>>
      /\ Spare' = Spare
  <2>1. TypeOK'
    BY ControllerType DEF IInv
  <2>2. UNCHANGED <<spec, edits, asked, tampers>>
    BY ControllerEffect DEF IInv
  <2>. QED  BY <2>1, <2>2, BudgetType DEF IInv, TypeOK, Keys, Reasons, Spare
<1>1. \A v \in Workers \ {w} : pc'[v] = pc[v] /\ plan'[v] = plan[v]
  BY <1>0, ControllerEffect
<1>2. \A v \in Workers \ {w} : v \in Rotating' <=> v \in Rotating
  BY <1>1 DEF Rotating
<1>. DEFINE Others == Workers \ {w}
            Far == Others \X (2 .. asked)
<1>3. ASSUME NEW R \in {{}, {w}}, Remember(R),
             pc'[w] \in OnTheWay => pc[w] \in OnTheWay \cup {"observe"}
      PROVE  /\ CarrySpec
             /\ \A d \in Due' : d[1] \in Others => d \in Due
             /\ (w \in Rotating' => w \in Rotating) =>
                   \A d \in Due' : d \in Due /\ (d[1] \in R => d[2] # seen[d[1]] + 1)
             /\ \A v \in Others : v \in Rotating' => seen'[v] >= 1
  <2>1. \A v \in Workers : pc'[v] \in OnTheWay => pc[v] \in OnTheWay \cup {"observe"}
    BY <1>1, <1>3
  <2>2. CarrySpec
    BY <1>0, <1>3, <2>1, Remembered
  <2>3. \A d \in Due' : d[1] \in Others => d \in Due
    BY <1>0, <1>2, <1>3, <2>1, DueKept
  <2>4. ASSUME w \in Rotating' => w \in Rotating
        PROVE  \A d \in Due' : d \in Due /\ (d[1] \in R => d[2] # seen[d[1]] + 1)
    <3>1. \A v \in Workers : v \in Rotating' => v \in Rotating
      BY <1>2, <2>4
    <3>2. \A d \in Due' : d[1] \in Workers
      BY DEF Due
    <3>. QED  BY <1>0, <1>3, <2>1, <3>1, <3>2, DueKept
  <2>5. \A v \in Others : v \in Rotating' => seen'[v] >= 1
    <3>. SUFFICES ASSUME NEW v \in Others, v \in Rotating'
                  PROVE  seen'[v] >= 1
      OBVIOUS
    <3>1. v \in Rotating
      BY <1>2
    <3>2. pc[v] # "observe" /\ v \in Tracking' /\ v \notin R
      BY <1>1, <3>1 DEF Rotating, Tracking
    <3>3. seen'[v] = seen[v]
      BY <1>0, <1>3, <2>1, <3>2, Remembered
    <3>. QED  BY <1>0, <3>1, <3>3 DEF Reasons
  <2>. QED  BY <2>2, <2>3, <2>4, <2>5
<1>4. \A d \in Due' : d \in Workers \X (2 .. asked)
  BY <1>0 DEF Due
<1>5. CASE /\ Observe(w) /\ Remember({}) /\ key' = key
           /\ pc[w] = "observe"
           /\ pc'[w] \in {"delete", "unfinalize", "finalizer"}
           /\ plan'[w] = "update" => key.latest > 0
  <2>1. /\ CarrySpec
        /\ \A d \in Due' : d[1] \in Others => d \in Due
        /\ \A v \in Others : v \in Rotating' => seen'[v] >= 1
    BY <1>3, <1>5
  <2>2. w \in Rotating' => /\ w \in Tracking' /\ key.latest >= 1
                           /\ specCopy'[w] = specCopy[w] /\ seen'[w] = key.latest
    <3>1. \A v \in Workers : pc'[v] \in OnTheWay => pc[v] \in OnTheWay \cup {"observe"}
      BY <1>1, <1>5 DEF OnTheWay
    <3>2. w \in Rotating' => w \in Tracking' /\ key.latest >= 1
      BY <1>0, <1>5 DEF Rotating, Tracking
    <3>. QED  BY <1>0, <1>5, <3>1, <3>2, Remembered
  <2>3. Reasons'
    BY <1>0, <2>1, <2>2, ReasonsKept DEF Rotating
  <2>4. specCopy[w].target \in Nat /\ specCopy[w].target <= asked
    BY <1>0, <1>5, TransitKeyAssumption DEF TypeOK, SpecifiedTypeOK, Busy, Reasons
  <2>. DEFINE target == specCopy[w].target
              Own == {w} \X ((key.latest + 1) .. target)
  <2>5. Due' \subseteq (Due' \cap Far) \cup Own
    <3>. SUFFICES ASSUME NEW d \in Due', d \notin Far PROVE d \in Own
      OBVIOUS
    <3>1. d[1] = w /\ d = <<d[1], d[2]>> /\ d[2] \in 2 .. asked
      BY <1>4
    <3>2. /\ w \in Rotating' /\ seen'[w] < d[2] /\ d[2] <= specCopy'[w].target
      BY <3>1 DEF Due
    <3>. QED  BY <1>0, <2>2, <2>4, <3>1, <3>2
  <2>6. /\ IsFiniteSet(Due' \cap Far) /\ Cardinality(Due' \cap Far) \in Nat
        /\ Cardinality(Due' \cap Far) <= Spare
    BY <1>0, OthersDue
  <2>7. CASE key.latest < target
    <3>1. IsFiniteSet(Own) /\ Cardinality(Own) = target - key.latest
      BY <1>0, <2>4, <2>7, SpanDue
    <3>2. /\ Cardinality(Due') \in Nat
          /\ Cardinality(Due') <= Cardinality(Due' \cap Far) + Cardinality(Own)
      BY <2>5, <2>6, <3>1, UnionBound
    <3>3. Cardinality(Due') <= Spare + (target - key.latest)
      BY <1>0, <2>4, <2>6, <3>1, <3>2
    <3>4. key.latest + Cardinality(Due') <= asked + tampers + Spare
      BY <1>0, <2>4, <3>2, <3>3
    <3>5. Budget'
      BY <1>0, <1>5, <3>4 DEF Budget
    <3>. QED  BY <2>3, <3>5
  <2>8. CASE key.latest >= target
    <3>1. Own = {}
      BY <1>0, <2>4, <2>8
    <3>2. Due' \subseteq Due
      BY <2>1, <2>5, <3>1
    <3>3. Budget'
      BY <1>0, <1>5, <3>2, NoneMade
    <3>. QED  BY <2>3, <3>3
  <2>. QED  BY <1>0, <2>4, <2>7, <2>8
<1>6. CASE /\ Remember({}) /\ pc'[w] \in {"annotate", "annotateFailed"}
           /\ pc[w] = "create"
           /\ key'.latest = key.latest \/ (key.latest = 0 /\ key'.latest = 1)
  <2>1. w \notin Rotating'
    BY <1>6 DEF Rotating
  <2>2. /\ CarrySpec /\ Due' \subseteq Due
        /\ \A v \in Others : v \in Rotating' => seen'[v] >= 1
    BY <1>3, <1>6, <2>1 DEF OnTheWay
  <2>3. \A v \in Rotating' : seen'[v] >= 1
    BY <2>1, <2>2 DEF Rotating
  <2>4. Reasons'
    BY <1>0, <2>2, <2>3, ReasonsKept
  <2>5. CASE key'.latest = key.latest
    <3>1. Budget'
      BY <1>0, <2>2, <2>5, NoneMade
    <3>. QED  BY <2>4, <3>1
  <2>6. CASE key'.latest = 1
    <3>1. Due' \subseteq Far
      BY <1>4, <2>1 DEF Due
    <3>2. Cardinality(Due') \in Nat /\ Cardinality(Due') <= Spare
      BY <1>0, <3>1, OthersDue
    <3>3. 1 + Cardinality(Due') <= asked + tampers + Spare
      BY <1>0, <3>2
    <3>4. Budget'
      BY <1>0, <2>6, <3>3 DEF Budget
    <3>. QED  BY <2>4, <3>4
  <2>. QED  BY <1>6, <2>5, <2>6
<1>7. CASE /\ Remember({}) /\ pc'[w] \in {"rotate", "status"}
           /\ pc[w] \in {"observe", "update", "rotate", "delete"}
           /\ pc'[w] = "rotate" => pc[w] = "update"
           /\ key'.latest <= key.latest
  <2>1. w \in Rotating' => w \in Rotating /\ w \in Tracking'
    BY <1>7 DEF Rotating, Tracking
  <2>2. /\ CarrySpec /\ Due' \subseteq Due
        /\ \A v \in Others : v \in Rotating' => seen'[v] >= 1
    BY <1>3, <1>7, <2>1 DEF OnTheWay
  <2>3. w \in Rotating' => seen'[w] = seen[w]
    <3>1. \A v \in Workers : pc'[v] \in OnTheWay => pc[v] \in OnTheWay \cup {"observe"}
      BY <1>1, <1>7 DEF OnTheWay
    <3>2. w \in Rotating' => pc[w] # "observe"
      BY <2>1 DEF Rotating
    <3>. QED  BY <1>0, <1>7, <2>1, <3>1, <3>2, Remembered
  <2>4. \A v \in Rotating' : seen'[v] >= 1
    <3>1. w \in Rotating' => seen'[w] >= 1
      BY <1>0, <2>1, <2>3 DEF Reasons
    <3>2. Rotating' \subseteq Workers
      BY DEF Rotating
    <3>. QED  BY <2>2, <3>1, <3>2
  <2>5. Reasons'
    BY <1>0, <2>2, <2>4, ReasonsKept
  <2>6. Budget'
    BY <1>0, <1>7, <2>2, NoneMade
  <2>. QED  BY <2>5, <2>6
<1>8. CASE /\ pc[w] = "rotate"
           /\ \/ Remember({w}) /\ pc'[w] = "rotate" /\ seen[w] + 1 < specCopy[w].target
              \/ Remember({w}) /\ pc'[w] = "status"
              \/ Remember({}) /\ pc'[w] = "status"
           /\ key'.latest <= key.latest + 1
  <2>1. PICK R \in {{}, {w}} :
           /\ Remember(R) /\ pc'[w] \in {"rotate", "status"}
           /\ R = {} => pc'[w] = "status"
    BY <1>8
  <2>2. /\ w \in Rotating /\ w \in Tracking /\ w \in Busy
        /\ pc[w] # "observe" /\ seen[w] \in Nat /\ seen[w] < specCopy[w].target
        /\ specCopy[w].target \in Nat /\ specCopy[w].target <= asked
        /\ seen[w] >= 1
    BY <1>0, <1>8, TransitKeyAssumption
    DEF Rotating, Tracking, Busy, TypeOK, SpecifiedTypeOK, Reasons
  <2>3. /\ CarrySpec
        /\ \A d \in Due' : d \in Due /\ (d[1] \in R => d[2] # seen[d[1]] + 1)
        /\ \A v \in Others : v \in Rotating' => seen'[v] >= 1
    BY <1>3, <1>8, <2>1, <2>2 DEF OnTheWay
  <2>4. w \in Rotating' => R = {w} /\ seen'[w] = seen[w] + 1
    <3>1. \A v \in Workers : pc'[v] \in OnTheWay => pc[v] \in OnTheWay \cup {"observe"}
      BY <1>1, <1>8 DEF OnTheWay
    <3>2. w \in Rotating' => w \in Tracking' /\ R = {w}
      BY <2>1 DEF Rotating, Tracking
    <3>. QED  BY <1>0, <2>1, <2>2, <3>1, <3>2, Remembered
  <2>5. \A v \in Rotating' : seen'[v] >= 1
    <3>1. Rotating' \subseteq Workers
      BY DEF Rotating
    <3>. QED  BY <2>2, <2>3, <2>4, <3>1
  <2>6. Reasons'
    BY <1>0, <2>3, <2>5, ReasonsKept
  <2>. DEFINE made == <<w, seen[w] + 1>>
  <2>7. made \in Due
    BY <1>0, <2>2 DEF Due
  <2>8. made \notin Due'
    <3>1. CASE R = {w}
      BY <2>3, <3>1
    <3>2. CASE R = {}
      BY <2>4, <3>2 DEF Due
    <3>. QED  BY <3>1, <3>2
  <2>9. Due' \subseteq Due /\ Due' # Due
    BY <2>3, <2>7, <2>8
  <2>10. Cardinality(Due') \in Nat /\ Cardinality(Due') <= Cardinality(Due) - 1
    BY <1>0, <2>9, OneGone
  <2>11. key'.latest + Cardinality(Due') <= key.latest + Cardinality(Due)
    BY <1>0, <1>8, <2>10
  <2>12. PICK left \in Nat : left = key'.latest + Cardinality(Due')
    BY <1>0, <2>10
  <2>13. left <= asked + tampers + Spare
    BY <1>0, <2>11, <2>12 DEF Budget
  <2>14. Budget'
    BY <1>0, <2>12, <2>13 DEF Budget
  <2>. QED  BY <2>6, <2>14
<1>. QED  BY <1>0, <1>5, <1>6, <1>7, <1>8, ControllerEffect

\* The reconciler and the request for deletion leave the key alone, and bring
\* no worker on the way to a rotation that Observe has not sent there.
LEMMA ManagingKeeps ==
  ASSUME IInv, Workers # {},
         (\E w \in Workers : Managing(w)) \/ (RequestDelete /\ Aside)
  PROVE  Reasons' /\ Budget'
<1>0. /\ TypeOK /\ Reasons /\ Budget /\ TypeOK' /\ Remember({})
      /\ UNCHANGED <<spec, key, asked, tampers>>
      /\ key.latest \in Nat
  BY ManagingType DEF IInv, TypeOK, Keys
<1>1. \A v \in Workers :
         /\ pc'[v] \in OnTheWay => pc[v] \in OnTheWay \cup {"observe"}
         /\ v \in Rotating' => v \in Rotating /\ v \in Tracking' /\ pc[v] # "observe"
  BY <1>0, ManagingType DEF IInv, OnTheWay, Rotating, Tracking
<1>2. CarrySpec /\ \A v \in Workers : v \in Rotating' => seen'[v] = seen[v]
  BY <1>0, <1>1, Remembered
<1>3. \A v \in Rotating' : seen'[v] >= 1
  <2>1. Rotating' \subseteq Workers
    BY DEF Rotating
  <2>. QED  BY <1>0, <1>1, <1>2, <2>1 DEF Reasons
<1>4. Reasons'
  BY <1>0, <1>2, <1>3, ReasonsKept
<1>5. Due' \subseteq Due
  <2>1. \A d \in Due' : d[1] \in Workers
    BY DEF Due
  <2>. QED  BY <1>0, <1>1, <2>1, DueKept
<1>6. Budget'
  BY <1>0, <1>5, NoneMade
<1>. QED  BY <1>4, <1>6

\* An edit may raise what was ever asked for, which makes no rotation due for
\* the specifications on their way.
LEMMA EditKeeps ==
  ASSUME IInv, Workers # {}, EditSpec
  PROVE  Reasons' /\ Budget'
<1>0. /\ TypeOK /\ Reasons /\ Budget /\ TypeOK'
      /\ UNCHANGED <<pc, plan, key, seen, tampers>>
      /\ CarrySpec
      /\ asked' = Larger(asked, spec'.target) /\ spec'.target \in Nat
      /\ asked \in Nat /\ key.latest \in Nat /\ tampers \in Nat /\ Spare \in Nat
      /\ IsFiniteSet(Due) /\ Cardinality(Due) \in Nat
      /\ Cardinality(Workers) - 1 \in Nat /\ asked - 1 \in Nat
  BY EditSpecType, BudgetType, TransitKeyAssumption DEF IInv
<1>1. asked' \in Nat /\ asked <= asked' /\ spec'.target <= asked' /\ asked' >= 1
  BY <1>0 DEF Larger, Reasons
<1>2. Busy' = Busy /\ Rotating' = Rotating /\ Rotating \subseteq Busy
  BY <1>0 DEF Busy, Rotating
<1>3. /\ \A w \in Workers : specCache'[w] \in {spec, specCache[w]}
      /\ \A w \in Busy : specCopy'[w] = specCopy[w]
  BY <1>0, <1>2 DEF CarrySpec, Busy
<1>4. /\ spec.target \in Nat
      /\ \A w \in Workers : specCache[w].target \in Nat
      /\ \A w \in Busy : specCopy[w].target \in Nat
  BY <1>0, TransitKeyAssumption DEF TypeOK, SpecifiedTypeOK
<1>5. Reasons'
  <2>1. \A w \in Workers : specCache'[w].target <= asked'
    BY <1>0, <1>1, <1>3, <1>4 DEF Reasons
  <2>2. \A w \in Busy' : specCopy'[w].target <= asked'
    BY <1>0, <1>1, <1>2, <1>3, <1>4 DEF Reasons
  <2>3. \A w \in Rotating' : seen'[w] >= 1
    BY <1>0, <1>2 DEF Reasons
  <2>. QED  BY <1>1, <2>1, <2>2, <2>3 DEF Reasons
<1>6. Due' \subseteq Due
  <2>. SUFFICES ASSUME NEW d \in Due' PROVE d \in Due
    OBVIOUS
  <2>1. /\ d \in Workers \X (2 .. asked') /\ d[1] \in Rotating'
        /\ seen'[d[1]] < d[2] /\ d[2] <= specCopy'[d[1]].target
    BY DEF Due
  <2>2. /\ d[1] \in Rotating /\ d[1] \in Busy /\ seen[d[1]] < d[2]
        /\ d[2] <= specCopy[d[1]].target /\ specCopy[d[1]].target <= asked
    BY <1>0, <1>2, <1>3, <2>1 DEF Reasons
  <2>3. d = <<d[1], d[2]>> /\ d[1] \in Workers /\ d[2] \in 2 .. asked
    BY <1>0, <1>1, <1>2, <1>4, <2>1, <2>2
  <2>. QED  BY <2>2, <2>3 DEF Due
<1>7. Cardinality(Due') \in Nat /\ Cardinality(Due') <= Cardinality(Due)
  BY <1>0, <1>6, NoMore
<1>8. Spare <= Spare' /\ Spare' \in Nat
  <2>1. \A m, i, j \in Nat : i <= j => m * i <= m * j /\ m * j \in Nat
    OBVIOUS
  <2>2. PICK more \in Nat : more = asked' - 1 /\ asked - 1 <= more
    BY <1>0, <1>1
  <2>3. Spare' = (Cardinality(Workers) - 1) * more
    BY <2>2 DEF Spare
  <2>. QED  BY <1>0, <2>1, <2>2, <2>3 DEF Spare
<1>9. asked + tampers + Spare <= asked' + tampers + Spare'
  BY <1>0, <1>1, <1>8, SumsGrow
<1>10. PICK bound \in Nat : /\ bound = asked' + tampers + Spare'
                            /\ asked + tampers + Spare <= bound
  BY <1>0, <1>1, <1>8, <1>9
<1>11. PICK left \in Nat : left = Cardinality(Due') /\ left <= Cardinality(Due)
  BY <1>7
<1>12. key.latest + left <= bound
  BY <1>0, <1>10, <1>11 DEF Budget
<1>13. Budget'
  BY <1>0, <1>10, <1>11, <1>12 DEF Budget
<1>. QED  BY <1>5, <1>13

\* A rotation by others is counted, and so is a key they remove.
LEMMA TamperKeeps ==
  ASSUME IInv, Workers # {}, Tamper
  PROVE  Reasons' /\ Budget'
<1>0. /\ TypeOK /\ Reasons /\ Budget /\ TypeOK'
      /\ UNCHANGED <<managedVars, specVars, seen, asked>>
      /\ tampers' = tampers + 1 /\ key'.latest <= key.latest + 1
      /\ key'.latest \in Nat
      /\ asked \in Nat /\ key.latest \in Nat /\ tampers \in Nat /\ Spare \in Nat
      /\ Cardinality(Due) \in Nat
  BY TamperType, BudgetType DEF IInv, TypeOK, Keys
<1>1. UNCHANGED <<pc, plan, spec, specCache, specCopy>>
  BY <1>0 DEF managedVars, specVars
<1>2. Busy' = Busy /\ Rotating' = Rotating /\ Due' = Due /\ Spare' = Spare
  BY <1>0, <1>1 DEF Busy, Rotating, Due, Spare
<1>3. Reasons'
  BY <1>0, <1>1, <1>2 DEF Reasons
<1>4. key'.latest + Cardinality(Due) <= asked + (tampers + 1) + Spare
  BY <1>0 DEF Budget
<1>5. Budget'
  BY <1>0, <1>2, <1>4 DEF Budget
<1>. QED  BY <1>3, <1>5

\* At first nothing is due, and the key that may be there is a reason of its
\* own.
LEMMA InvInit ==
  ASSUME Workers # {}
  PROVE  Init => IInv
<1>. SUFFICES ASSUME Init PROVE IInv
  OBVIOUS
<1>1. TypeOK
  BY TypeInit
<1>2. /\ \A w \in Workers : pc[w] = "idle" /\ specCache[w] = spec
      /\ asked = Larger(Larger(spec.target, key.latest), 1) /\ tampers = 0
  BY DEF Init, ManagedInit, SpecifiedInit
<1>3. Busy = {} /\ Rotating = {}
  BY <1>2 DEF Busy, Rotating
<1>4. spec.target \in Nat /\ key.latest \in Nat
  BY <1>1, TransitKeyAssumption DEF TypeOK, SpecifiedTypeOK, Keys
<1>5. asked >= 1 /\ spec.target <= asked /\ key.latest <= asked /\ asked \in Nat
  BY <1>2, <1>4 DEF Larger
<1>6. Reasons
  BY <1>2, <1>3, <1>5 DEF Reasons
<1>7. Due = {}
  BY <1>3 DEF Due
<1>8. Cardinality(Due) = 0
  BY <1>7, FS_EmptySet
<1>9. Spare \in Nat
  BY <1>1, <1>6, BudgetType
<1>10. Budget
  BY <1>2, <1>4, <1>5, <1>8, <1>9 DEF Budget
<1>. QED  BY <1>1, <1>6, <1>10 DEF IInv

\* Every step keeps the inductive invariant.
LEMMA InvStep ==
  ASSUME Workers # {}
  PROVE  IInv /\ [Next]_vars => IInv'
<1>. SUFFICES ASSUME IInv, [Next]_vars PROVE Reasons' /\ Budget'
  BY TypeStep DEF IInv
<1>1. CASE UNCHANGED vars
  <2>1. UNCHANGED <<pc, plan, spec, specCache, specCopy, key, seen, asked, tampers>>
    BY <1>1 DEF vars, managedVars, specVars, keyVars
  <2>2. Busy' = Busy /\ Rotating' = Rotating /\ Due' = Due /\ Spare' = Spare
    BY <2>1 DEF Busy, Rotating, Due, Spare
  <2>. QED  BY <2>1, <2>2 DEF IInv, Reasons, Budget
<1>. QED
  BY <1>1, ManagingKeeps, ControllerKeeps, EditKeeps, TamperKeeps DEF Next, User

\* The rotations made are within the bound.
LEMMA InvBounds ==
  ASSUME Workers # {}
  PROVE  IInv => RotationsBounded
<1>. SUFFICES ASSUME IInv PROVE RotationsBounded
  OBVIOUS
<1>1. /\ key.latest \in Nat /\ tampers \in Nat /\ asked \in Nat /\ Spare \in Nat
      /\ Cardinality(Due) \in Nat
  BY BudgetType DEF IInv
<1>2. key.latest <= asked + tampers + Spare
  BY <1>1 DEF IInv, Budget
<1>. QED  BY <1>2 DEF Spare, RotationsBounded

\* For any number of processes, the key is rotated past what was asked for only
\* by others and by processes that observed it at the same time, each of which
\* adds at most the whole way from the first version to the highest target: the
\* number of rotations is the difference to the version Observe has recorded
\* (transitkey.go:238), so that one process alone never passes the highest target,
\* however often answers are lost and whichever specification it works with.
THEOREM RotationsWithinBound ==
  ASSUME Workers # {}
  PROVE  Spec => []RotationsBounded
  BY InvInit, InvStep, InvBounds, PTL DEF Spec
----------------------------------------------------------------------------
(***************************************************************************)
(* The release.                                                            *)
(***************************************************************************)

\* A process that is about to remove the finalizer with a copy of the latest
\* version has found no key, unless another may be making one since.
Unkept ==
    Undisputed =>
        \A w \in fresh : pc[w] = "unfinalize" => ~Exists \/ Contended

RInv == TypeOK /\ CopiesAgree /\ Marked /\ Unkept

\* The controller writes nothing to the resource, and makes a key only while it
\* is creating.
LEMMA ControllerStores ==
  ASSUME TypeOK, NEW w \in Workers, ControllerStep(w) \/ ControllerFault(w)
  PROVE  /\ UNCHANGED <<api, cache, current, mr, fresh, overrides>>
         /\ \A v \in Workers \ {w} : pc'[v] = pc[v]
         /\ pc'[w] \in Reading => pc[w] \in Reading
         /\ pc'[w] \in CreationSteps => pc[w] \in CreationSteps
         /\ pc'[w] = "unfinalize" => ~Exists'
         /\ Exists' => Exists \/ pc[w] = "create"
<1>. USE DEF TypeOK, ManagedTypeOK, Exists, Reading, CreationSteps, Keys
<1>1. CASE Observe(w)
  BY <1>1 DEF Observe, Decide, Goto
<1>2. CASE Create(w) \/ CreateUnanswered(w) \/ CreateRefused(w)
  BY <1>2 DEF Create, CreateUnanswered, CreateRefused, Goto
<1>3. CASE Configure(w)
  <2>1. key'.latest = key.latest
    BY <1>3 DEF Configure
  <2>2. pc' = [pc EXCEPT ![w] = pc'[w]] /\ pc'[w] \in {"rotate", "status"}
    BY <1>3 DEF Configure, Goto
  <2>. QED  BY <1>3, <2>1, <2>2 DEF Configure
<1>4. CASE Rotate(w) \/ RotateUnanswered(w)
  <2>1. key'.latest > 0 => key.latest > 0
    BY <1>4 DEF Rotate, RotateUnanswered
  <2>. QED  BY <1>4, <2>1 DEF Rotate, RotateUnanswered, Goto
<1>5. CASE Delete(w) \/ CallRefused(w)
  <2>1. key'.latest > 0 => key.latest > 0
    BY <1>5 DEF Delete, CallRefused, NoKey
  <2>. QED  BY <1>5, <2>1 DEF Delete, CallRefused, Goto
<1>. QED
  BY <1>1, <1>2, <1>3, <1>4, <1>5 DEF ControllerStep, ControllerFault

\* Nothing is left in the initial states.
LEMMA ReleaseInit == Init => RInv
  BY TypeInit
  DEF Init, ManagedInit, RInv, CopiesAgree, Marked, Unkept, CreationSteps

\* Every step keeps the invariant, whoever takes it.
LEMMA ReleaseStep == RInv /\ [Next]_vars => RInv'
<1>. SUFFICES ASSUME RInv, [Next]_vars PROVE RInv'
  OBVIOUS
<1>0. TypeOK /\ ManagedTypeOK /\ CopiesAgree /\ Marked /\ Unkept /\ TypeOK'
  BY TypeStep DEF RInv, TypeOK
<1>1. ASSUME NEW w \in Workers, Managing(w)
      PROVE  RInv'
  <2>1. /\ ReconcilerStep(w) \/ ReconcilerFault(w) \/ SyncCache(w)
        /\ key' = key
    BY <1>1 DEF Managing, Aside
  <2>2. CopiesAgree' /\ Marked' /\ (Undisputed' => Undisputed)
    BY <1>0, <2>1, ReconcilerCopies, ReconcilerMarked
  <2>3. \A v \in fresh' : pc'[v] = "unfinalize" =>
           v \in fresh /\ pc[v] = "unfinalize" /\ api' = api
    BY <1>0, <2>1, ReconcilerWaits
  <2>4. Unkept'
    BY <1>0, <2>1, <2>2, <2>3 DEF Unkept, Exists, Contended
  <2>. QED  BY <1>0, <2>2, <2>4 DEF RInv
<1>2. ASSUME NEW w \in Workers, ControllerStep(w) \/ ControllerFault(w)
      PROVE  RInv'
  <2>1. /\ UNCHANGED <<api, cache, current, mr, fresh, overrides>>
        /\ \A v \in Workers \ {w} : pc'[v] = pc[v]
        /\ pc'[w] \in Reading => pc[w] \in Reading
        /\ pc'[w] \in CreationSteps => pc[w] \in CreationSteps
        /\ pc'[w] = "unfinalize" => ~Exists'
        /\ Exists' => Exists \/ pc[w] = "create"
    BY <1>0, <1>2, ControllerStores
  <2>2. CopiesAgree' /\ Marked' /\ Undisputed' = Undisputed
    BY <1>0, <2>1, ControllerCopies, ControllerMarked
  <2>3. ASSUME Undisputed, NEW v \in fresh, v # w, pc[v] = "unfinalize"
        PROVE  ~Exists' \/ Contended'
    <3>1. v \in Workers /\ Contended' = Contended
      BY <1>0, <2>1 DEF ManagedTypeOK, Contended
    <3>2. CASE ~Exists \/ Contended
      BY <1>0, <2>1, <2>3, <3>1, <3>2, CreationContends DEF CreationSteps
    <3>. QED  BY <1>0, <2>3, <3>2 DEF Unkept
  <2>4. Unkept'
    BY <1>0, <2>1, <2>2, <2>3 DEF Unkept, ManagedTypeOK
  <2>. QED  BY <1>0, <2>2, <2>4 DEF RInv
<1>3. CASE EditSpec
  <2>1. /\ UNCHANGED <<api, cache, mr, pc, overrides>>
        /\ current' = {} /\ fresh' = {}
    BY <1>3 DEF EditSpec, Edit
  <2>. QED
    BY <1>0, <2>1 DEF RInv, CopiesAgree, Marked, Unkept, Undisputed
<1>4. CASE RequestDelete /\ Aside
  <2>1. CopiesAgree' /\ Marked' /\ fresh' = {}
    BY <1>0, <1>4, UserCopies, UserMarked, RequestDeleteStores DEF UserStep
  <2>. QED  BY <1>0, <2>1 DEF RInv, Unkept
<1>5. CASE Tamper \/ UNCHANGED vars
  <2>1. UNCHANGED managedVars /\ (Exists' => Exists)
    BY <1>0, <1>5 DEF Tamper, vars, keyVars, Exists
  <2>. QED
    BY <1>0, <2>1
    DEF RInv, CopiesAgree, Marked, Unkept, Undisputed, Contended, managedVars
<1>. QED  BY <1>1, <1>2, <1>3, <1>4, <1>5 DEF Next, User

\* Only the removal of the finalizer releases the resource.
LEMMA ReleaseGone ==
  RInv /\ [Next]_vars => (Released /\ Undisputed' => key.latest = 0)
<1>. SUFFICES ASSUME RInv, [Next]_vars, Released, Undisputed'
              PROVE  key.latest = 0
  OBVIOUS
<1>0. TypeOK /\ ManagedTypeOK /\ CopiesAgree /\ Marked /\ Unkept /\ key.latest \in Nat
  BY DEF RInv, TypeOK, Keys
<1>1. CASE \E w \in Workers : Managing(w)
  <2>1. PICK w \in Workers :
           ReconcilerStep(w) \/ ReconcilerFault(w) \/ SyncCache(w)
    BY <1>1 DEF Managing
  <2>2. RemoveFinalizer(w) /\ pc[w] = "unfinalize" /\ w \in fresh
    BY <1>0, <2>1, ReconcilerReleases
  <2>3. Undisputed /\ ~Contended
    BY <1>0, <2>2, ReleaseUncontended
  <2>. QED  BY <1>0, <2>2, <2>3 DEF Unkept, Exists
<1>2. CASE \E w \in Workers : ControllerStep(w) \/ ControllerFault(w)
  BY <1>0, <1>2, ControllerStores DEF Released
<1>3. CASE User
  BY <1>0, <1>3, RequestDeleteStores DEF User, EditSpec, Edit, Released
<1>4. CASE Tamper \/ UNCHANGED vars
  BY <1>4 DEF Tamper, Released, vars, managedVars
<1>. QED  BY <1>1, <1>2, <1>3, <1>4 DEF Next

\* For any number of processes, unless one goes ahead over a creation that another
\* may still be at, the finalizer is removed only when there is no key: one whose
\* deletion Vault has refused (transitkey.go:202), or that another process has
\* made since Observe, keeps it.
THEOREM RemovalFirst == Spec => GoneBeforeReleased
  BY ReleaseInit, ReleaseStep, ReleaseGone, PTL DEF Spec, GoneBeforeReleased
=============================================================================
