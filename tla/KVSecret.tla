------------------------------ MODULE KVSecret ------------------------------
(***************************************************************************)
(* The KVSecret controller (internal/controller/kvsecret) over the managed *)
(* reconciler: the data of a secret is compared as a whole, and Update is  *)
(* a read followed by a write of everything, without check-and-set.  Other *)
(* writers use the same secret at any time.                                *)
(***************************************************************************)
EXTENDS Specified

CONSTANTS
    Keys,         \* the keys of a secret
    MaxTampers,   \* bound on the writes of others
    MaxRefusals   \* bound on the requests Vault answers with an error

ASSUME KVSecretAssumption == {MaxTampers, MaxRefusals} \subseteq Nat

VARIABLES
    there,      \* whether Vault has a secret under the path
    data,       \* what it holds
    nulls,      \* what the engine does with a null: "stored" or "dropped"
    dropping,   \* per worker, the keys its Update is going to drop
    tampers,    \* writes of others so far
    refusals    \* requests Vault has answered with an error

kv == <<there, data, nulls, dropping>>
vars == <<managedVars, specVars, kv, tampers, refusals>>

\* "foreign" is the text of another writer, "number" a value that is no text.
Values == {"old", "new"}
Stored == Values \cup {"foreign", "number", "null"}

Maps(values) == UNION {[ks -> values] : ks \in SUBSET Keys}

\* The type of the state.  An engine that drops nulls never stores one, and
\* only between the requests of Update does a worker know what it will drop.
TypeOK ==
    /\ ManagedTypeOK
    /\ SpecifiedTypeOK(Maps(Values))
    /\ there \in BOOLEAN
    /\ data \in Maps(IF nulls = "stored" THEN Stored ELSE Stored \ {"null"})
    /\ nulls \in {"stored", "dropped"}
    /\ dropping \in [Workers -> SUBSET Keys]
    /\ \A w \in Workers : dropping[w] # {} => pc[w] = "write"
    /\ tampers \in 0 .. MaxTampers
    /\ refusals \in 0 .. MaxRefusals

\* A secret somebody else has written may be there before the resource.
Init ==
    /\ ManagedInit(NewObject)
    /\ conn = NoId
    /\ spec = [k \in Keys |-> "old"]
    /\ SpecifiedInit
    /\ \/ there = FALSE /\ data = <<>>
       \/ there = TRUE /\ data = [k \in Keys |-> "foreign"]
    /\ nulls \in {"stored", "dropped"}
    /\ dropping = [w \in Workers |-> {}]
    /\ tampers = 0 /\ refusals = 0

----------------------------------------------------------------------------
Refuse ==
    /\ refusals < MaxRefusals
    /\ refusals' = refusals + 1

\* The answer is decoded as a map of strings: a null is the empty string and
\* anything that is no text is an error.
Decoded == [k \in DOMAIN data |-> IF data[k] = "null" THEN "" ELSE data[k]]

Readable == ~there \/ \A k \in DOMAIN data : data[k] # "number"

SameWanted(want, read) ==
    \A k \in DOMAIN want : k \in DOMAIN read /\ read[k] = want[k]

UpToDate(want, read) == read = want

Observe(w) ==
    /\ pc[w] = "observe"
    /\ Readable
    /\ Decide(w, there, there /\ UpToDate(specCopy[w], Decoded))
    /\ UNCHANGED <<api, conn, cache, current, mr, fresh, secret, faults,
                   overrides, discarded, spec, edits, kv, tampers, refusals>>
    /\ CarrySpec

\* Update, first request: the keys that are there and no longer wanted.
ReadExisting(w) ==
    /\ pc[w] = "update"
    /\ Readable
    /\ dropping' = [dropping EXCEPT ![w] =
                       IF there THEN DOMAIN data \ DOMAIN specCopy[w] ELSE {}]
    /\ Goto(w, "write")
    /\ UNCHANGED <<api, conn, cache, current, mr, fresh, plan, secret, faults,
                   overrides, discarded, spec, edits, there, data, nulls,
                   tampers, refusals>>
    /\ CarrySpec

BodyWithNulls(w) ==
    LET want == specCopy[w]
    IN  [k \in DOMAIN want \cup dropping[w] |->
            IF k \in DOMAIN want THEN want[k] ELSE "null"]

\* What is wanted, and the nulls that the engine keeps of what is dropped.
Body(w) ==
    LET want == specCopy[w]
        null == IF nulls = "stored" THEN dropping[w] ELSE {}
    IN  [k \in DOMAIN want \cup null |->
            IF k \in DOMAIN want THEN want[k] ELSE "null"]

\* A write replaces the whole of the former version.
NewVersion(w) == Body(w)

Write(w) ==
    /\ there' = TRUE
    /\ data' = NewVersion(w)
    /\ dropping' = [dropping EXCEPT ![w] = {}]

Writing(w) == pc[w] \in {"create", "write"}

\* Create, or the second request of Update.
WriteKVSecret(w) ==
    /\ Writing(w)
    /\ Write(w)
    /\ Goto(w, IF pc[w] = "create" THEN "annotate" ELSE "status")
    /\ UNCHANGED <<api, conn, cache, current, mr, fresh, plan, secret, faults,
                   overrides, discarded, spec, edits, nulls, tampers, refusals>>
    /\ CarrySpec

WriteFailed(w) ==
    Goto(w, IF pc[w] = "create" THEN "annotateFailed" ELSE "status")

\* The secret is written and the answer is lost.
WriteUnanswered(w) ==
    /\ Writing(w)
    /\ Fault
    /\ Write(w)
    /\ WriteFailed(w)
    /\ UNCHANGED <<api, conn, cache, current, mr, fresh, plan, secret,
                   overrides, discarded, spec, edits, nulls, tampers, refusals>>
    /\ CarrySpec

WriteRefused(w) ==
    /\ Writing(w)
    /\ Refuse
    /\ WriteFailed(w)
    /\ dropping' = [dropping EXCEPT ![w] = {}]
    /\ UNCHANGED <<api, conn, cache, current, mr, fresh, plan, secret, faults,
                   overrides, discarded, spec, edits, there, data, nulls,
                   tampers>>
    /\ CarrySpec

Gone == there' = FALSE /\ data' = <<>>

Delete(w) ==
    /\ pc[w] = "delete"
    /\ Gone
    /\ Goto(w, "status")
    /\ UNCHANGED <<api, conn, cache, current, mr, fresh, plan, secret, faults,
                   overrides, discarded, spec, edits, nulls, dropping, tampers,
                   refusals>>
    /\ CarrySpec

\* A request is refused, or its answer cannot be decoded.
CallRefused(w) ==
    /\ \/ pc[w] \in {"observe", "update", "delete"} /\ Refuse
       \/ pc[w] \in {"observe", "update"} /\ ~Readable /\ UNCHANGED refusals
    /\ Goto(w, "status")
    /\ UNCHANGED <<api, conn, cache, current, mr, fresh, plan, secret, faults,
                   overrides, discarded, spec, edits, kv, tampers>>
    /\ CarrySpec

----------------------------------------------------------------------------
\* The environment

\* The user drops, adds or changes keys.
EditSpec ==
    /\ \E want \in Maps(Values) : Edit(want)
    /\ UNCHANGED <<kv, tampers, refusals>>

\* Another writer sets or adds a key, or removes the secret.
Tamper ==
    /\ there
    /\ tampers < MaxTampers
    /\ tampers' = tampers + 1
    /\ \/ /\ \E key \in Keys, value \in {"foreign", "number"} :
                data' = [k \in DOMAIN data \cup {key} |->
                            IF k = key THEN value ELSE data[k]]
          /\ UNCHANGED there
       \/ Gone
    /\ UNCHANGED <<managedVars, specVars, nulls, dropping, refusals>>

----------------------------------------------------------------------------
ControllerStep(w) ==
    \/ Observe(w)
    \/ ReadExisting(w)
    \/ WriteKVSecret(w)
    \/ WriteRefused(w)
    \/ Delete(w)
    \/ CallRefused(w)

Unmanaged == UNCHANGED <<spec, edits, there, data, nulls, tampers, refusals>>

\* A worker that ends takes the keys it was going to drop with it.
ForgetDropping ==
    dropping' = [w \in Workers |-> IF pc'[w] = "write" THEN dropping[w] ELSE {}]

Managing(w) ==
    /\ ReconcilerStep(w) \/ ReconcilerFault(w) \/ SyncCache(w)
    /\ Unmanaged
    /\ ForgetDropping
    /\ CarrySpec

User ==
    \/ EditSpec
    \/ RequestDelete /\ Unmanaged /\ ForgetDropping /\ CarrySpec

Next ==
    \/ \E w \in Workers : Managing(w)
    \/ \E w \in Workers : ControllerStep(w)
    \/ \E w \in Workers : WriteUnanswered(w)
    \/ User
    \/ Tamper

Spec == Init /\ [][Next]_vars

\* A process keeps working on a queued resource and its cache catches up.
\* Nothing obliges Vault, the user or a failure to act.
Progress(w) ==
    \/ ReconcilerStep(w) /\ Unmanaged /\ ForgetDropping /\ CarrySpec
    \/ ControllerStep(w)

Fairness ==
    \A w \in Workers :
        /\ WF_vars(Progress(w))
        /\ WF_vars(SyncCache(w) /\ Unmanaged /\ ForgetDropping /\ CarrySpec)

FairSpec == Spec /\ Fairness

----------------------------------------------------------------------------
\* Every null in the secret comes from a key that was dropped.
Nulled == there /\ \E k \in DOMAIN data : data[k] = "null"

\* Once edits and other writers stop, the secret of a wanted resource holds
\* what the specification says and nothing else but nulls, whatever was
\* written between the two requests of an Update; unless a value that is no
\* text keeps every Observe from reading it.  The updates cease too, unless
\* the engine has stored the null of a key that was dropped: it is read back
\* as an empty text, for ever.
SecretSettles ==
    <>[](Wanted /\ Readable =>
            /\ there
            /\ SameWanted(spec, data)
            /\ \A k \in DOMAIN data \ DOMAIN spec : data[k] = "null"
            /\ \A w \in Workers : pc[w] \in {"update", "write"} => Nulled)

\* A deletion that has been asked for ends, unless the secret cannot be read:
\* the reconciler observes before it deletes.
DeletionCompletes == api.deleting ~> ~api.present \/ ~Readable
=============================================================================
