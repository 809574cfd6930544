----------------------------- MODULE Specified -----------------------------
(***************************************************************************)
(* The specification of a managed resource (spec.forProvider) on its way   *)
(* from the user to a reconcile: the user edits what the API server        *)
(* stores, the informer caches lag behind, and a reconcile works to its    *)
(* end with the specification it has read.                                 *)
(***************************************************************************)
EXTENDS Managed

CONSTANT MaxEdits   \* bound on the edits of the specification

ASSUME SpecifiedAssumption == MaxEdits \in Nat

VARIABLES
    spec,       \* spec.forProvider, as the API server stores it
    specCache,  \* per worker, the specification its cache holds
    specCopy,   \* per busy worker, the one the current reconcile works on
    edits       \* edits of the specification so far

specVars == <<spec, specCache, specCopy, edits>>

Busy == {w \in Workers : pc[w] # "idle"}

SpecifiedTypeOK(Specs) ==
    /\ spec \in Specs
    /\ specCache \in [Workers -> Specs]
    /\ specCopy \in [Busy -> Specs]
    /\ edits \in 0 .. MaxEdits

SpecifiedInit ==
    /\ specCache = [w \in Workers |-> spec]
    /\ specCopy = <<>>
    /\ edits = 0

\* The specification travels with the resource: a cache that is brought up
\* to date holds the stored one, and a reconcile works on its cache's.
CarrySpec ==
    /\ specCache' = [w \in Workers |->
                        IF w \in current' \ current THEN spec ELSE specCache[w]]
    /\ specCopy' = [w \in {v \in Workers : pc'[v] # "idle"} |->
                        IF w \in Busy THEN specCopy[w] ELSE specCache[w]]

\* The user stores another specification.
Edit(new) ==
    /\ api.present
    /\ edits < MaxEdits
    /\ new # spec
    /\ spec' = new
    /\ edits' = edits + 1
    /\ current' = {}
    /\ fresh' = {}
    /\ UNCHANGED <<api, conn, cache, mr, pc, plan, secret, faults, overrides,
                   discarded>>
    /\ CarrySpec

Wanted == api.present /\ ~api.deleting
=============================================================================
