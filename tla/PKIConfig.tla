----------------------------- MODULE PKIConfig -----------------------------
(***************************************************************************)
(* The PKIConfig controller (internal/controller/pkiconfig) over the       *)
(* managed reconciler: a root certificate is generated in a PKI mount, and *)
(* the mount's URLs and CRL are configured.  Observe reads and Create and  *)
(* Update write in several requests, each of which can fail on its own.    *)
(*                                                                         *)
(* The parameters of the root itself are sent once and never compared, so  *)
(* they play no part.  What Vault answers for a part nobody has set, and   *)
(* the form in which it gives back a duration, are not in the repository:  *)
(* every answer the code tells apart is taken.  The identifiers of Managed *)
(* are not used.                                                           *)
(***************************************************************************)
EXTENDS Specified

CONSTANTS
    Answers,      \* the ways in which Vault may answer
    MaxTampers,   \* bound on the changes made in Vault by others
    MaxRefusals   \* bound on the requests Vault answers with an error

\* `unset` is what Vault answers for a part that nobody has set: a default value,
\* an answer without it, or 404.  `verbatim` is whether it gives a duration back
\* in the form that it was sent in.
AllAnswers == [unset : {"default", "missing", "notfound"}, verbatim : BOOLEAN]

ASSUME PKIConfigAssumption ==
    /\ Answers \subseteq AllAnswers
    /\ {MaxTampers, MaxRefusals} \subseteq Nat

VARIABLES
    mount,      \* the PKI mount: "absent", "empty" or with a "root"
    config,     \* its URLs and its CRL configuration
    answers,    \* how Vault answers
    drift,      \* the workers whose Observe has seen a difference
    generated,  \* roots generated so far
    tampers,    \* changes made in Vault by others so far
    refusals    \* requests Vault has answered with an error

pki == <<mount, config, answers, drift, generated>>
vars == <<managedVars, specVars, pki, tampers, refusals>>

Parts == {"urls", "crl"}

\* "odd" is "new" with a duration that Go cannot parse.  There are durations in
\* the CRL configuration only.
Values == {"unset", "old", "new", "odd"}
Stored == {"default", "old", "new", "odd"}
Specs == {want \in [Parts -> Values] : want["urls"] # "odd"}
Defaults == [p \in Parts |-> "default"]

\* The type of the state.  Only a worker between the last two requests of
\* Observe has seen a difference.
TypeOK ==
    /\ ManagedTypeOK
    /\ SpecifiedTypeOK(Specs)
    /\ mount \in {"absent", "empty", "root"}
    /\ config \in [Parts -> Stored]
    /\ answers \in Answers
    /\ drift \subseteq {w \in Workers : pc[w] = "readcrl"}
    /\ generated \in Nat
    /\ tampers \in 0 .. MaxTampers
    /\ refusals \in 0 .. MaxRefusals

\* A mount may hold somebody else's root before the resource is there.
Init ==
    /\ ManagedInit(NewObject)
    /\ conn = NoId
    /\ spec \in {[p \in Parts |-> value] : value \in {"unset", "old"}}
    /\ SpecifiedInit
    /\ mount \in {"empty", "root"}
    /\ config = Defaults
    /\ answers \in Answers
    /\ drift = {}
    /\ generated = 0
    /\ tampers = 0 /\ refusals = 0

----------------------------------------------------------------------------
Refuse ==
    /\ refusals < MaxRefusals
    /\ refusals' = refusals + 1

Wants(w, part) == specCopy[w][part] # "unset"

\* A part that is missing from Vault's answer.
LeftOut(part) == answers.unset = "missing" /\ config[part] = "default"

\* A duration that cannot be parsed differs from nothing.
Unparsable(want, part) == "odd" \in {want[part], config[part]}

NeverDrifted(w, part) == FALSE

\* DriftedStringSlice, DriftedBool and DriftedDuration: neither a part that is
\* not set drifts nor one that Vault leaves out.
Drifted(w, part) ==
    /\ Wants(w, part)
    /\ ~LeftOut(part)
    /\ ~Unparsable(specCopy[w], part)
    /\ config[part] # specCopy[w][part]

MountFound == mount # "absent"

\* A request for a part of the configuration is answered 404.
NotFound(part) ==
    ~MountFound \/ (answers.unset = "notfound" /\ config[part] = "default")

ConfiguredRoot == mount = "root" /\ config # Defaults

\* Neither a mount that is gone nor one without an issuer has a certificate.
RootFound == mount = "root"

\* Observe, first request: the root certificate.
ReadCA(w) ==
    /\ pc[w] = "observe"
    /\ IF RootFound THEN Goto(w, "readurls") /\ UNCHANGED plan
                    ELSE Decide(w, FALSE, FALSE)
    /\ UNCHANGED <<api, conn, cache, current, mr, fresh, secret, faults,
                   overrides, discarded, spec, edits, pki, tampers, refusals>>
    /\ CarrySpec

\* Observe, second request, of what the specification sets.  A 404 means that
\* there is no root, although the first request has found one.
ReadURLs(w) ==
    /\ pc[w] = "readurls"
    /\ IF Wants(w, "urls") /\ NotFound("urls")
       THEN Decide(w, FALSE, FALSE) /\ UNCHANGED drift
       ELSE /\ Goto(w, "readcrl")
            /\ drift' = IF Drifted(w, "urls") THEN drift \cup {w} ELSE drift
            /\ UNCHANGED plan
    /\ UNCHANGED <<api, conn, cache, current, mr, fresh, secret, faults,
                   overrides, discarded, spec, edits, mount, config, answers,
                   generated, tampers, refusals>>
    /\ CarrySpec

\* Observe, last request, and its result.
ReadCRL(w) ==
    /\ pc[w] = "readcrl"
    /\ IF Wants(w, "crl") /\ NotFound("crl")
       THEN Decide(w, FALSE, FALSE)
       ELSE Decide(w, TRUE, w \notin drift /\ ~Drifted(w, "crl"))
    /\ drift' = drift \ {w}
    /\ UNCHANGED <<api, conn, cache, current, mr, fresh, secret, faults,
                   overrides, discarded, spec, edits, mount, config, answers,
                   generated, tampers, refusals>>
    /\ CarrySpec

\* A mount that holds a root gets another issuer, or Vault refuses.
Generate ==
    /\ MountFound
    /\ mount' = "root"
    /\ generated' = generated + 1

Canonical(value) == IF value = "odd" /\ ~answers.verbatim THEN "new" ELSE value

WrittenUnset(w, part) == [config EXCEPT ![part] = specCopy[w][part]]

\* The body of a request has what the specification sets, and is not sent
\* if that is nothing.
Written(w, part) ==
    IF Wants(w, part) THEN [config EXCEPT ![part] = Canonical(specCopy[w][part])]
                      ELSE config

\* Create, first request.
GenerateRootCA(w) ==
    /\ pc[w] = "create"
    /\ Generate
    /\ Goto(w, "urls")
    /\ UNCHANGED <<api, conn, cache, current, mr, fresh, plan, secret, faults,
                   overrides, discarded, spec, edits, config, answers, drift,
                   tampers, refusals>>
    /\ CarrySpec

\* Create and Update, the request that configures the URLs.
ConfigurePKIURLs(w) ==
    /\ pc[w] \in {"urls", "update"}
    /\ Wants(w, "urls") => MountFound
    /\ config' = Written(w, "urls")
    /\ Goto(w, IF pc[w] = "urls" THEN "crl" ELSE "updatecrl")
    /\ UNCHANGED <<api, conn, cache, current, mr, fresh, plan, secret, faults,
                   overrides, discarded, spec, edits, mount, answers, drift,
                   generated, tampers, refusals>>
    /\ CarrySpec

\* Create and Update, the request that configures the CRL.
ConfigurePKICRL(w) ==
    /\ pc[w] \in {"crl", "updatecrl"}
    /\ Wants(w, "crl") => MountFound
    /\ config' = Written(w, "crl")
    /\ Goto(w, IF pc[w] = "crl" THEN "annotate" ELSE "status")
    /\ UNCHANGED <<api, conn, cache, current, mr, fresh, plan, secret, faults,
                   overrides, discarded, spec, edits, mount, answers, drift,
                   generated, tampers, refusals>>
    /\ CarrySpec

Creating(w) == pc[w] \in {"create", "urls", "crl"}
Updating(w) == pc[w] \in {"update", "updatecrl"}
Part(w) == IF pc[w] \in {"urls", "update"} THEN "urls" ELSE "crl"

Fail(w) == Goto(w, IF Creating(w) THEN "annotateFailed" ELSE "status")

\* A request is carried out and its answer is lost.
Unanswered(w) ==
    /\ Creating(w) \/ Updating(w)
    /\ Fault
    /\ \/ pc[w] = "create" /\ Generate /\ UNCHANGED config
       \/ /\ pc[w] # "create" /\ Wants(w, Part(w)) /\ MountFound
          /\ config' = Written(w, Part(w))
          /\ UNCHANGED <<mount, generated>>
    /\ Fail(w)
    /\ UNCHANGED <<api, conn, cache, current, mr, fresh, plan, secret,
                   overrides, discarded, spec, edits, answers, drift, tampers,
                   refusals>>
    /\ CarrySpec

\* The first failure ends Create and Update; what was done before it stays.
Refused(w) ==
    /\ \/ pc[w] = "create"
       \/ pc[w] # "create" /\ (Creating(w) \/ Updating(w)) /\ Wants(w, Part(w))
    /\ Refuse \/ (~MountFound /\ UNCHANGED refusals)
    /\ Fail(w)
    /\ UNCHANGED <<api, conn, cache, current, mr, fresh, plan, secret, faults,
                   overrides, discarded, spec, edits, pki, tampers>>
    /\ CarrySpec

\* Delete does nothing.
Delete(w) ==
    /\ pc[w] = "delete"
    /\ Goto(w, "status")
    /\ UNCHANGED <<api, conn, cache, current, mr, fresh, plan, secret, faults,
                   overrides, discarded, spec, edits, pki, tampers, refusals>>
    /\ CarrySpec

\* Observe gives an error back.
ObserveRefused(w) ==
    /\ pc[w] \in {"observe", "readurls", "readcrl"}
    /\ Refuse
    /\ Goto(w, "status")
    /\ drift' = drift \ {w}
    /\ UNCHANGED <<api, conn, cache, current, mr, fresh, plan, secret, faults,
                   overrides, discarded, spec, edits, mount, config, answers,
                   generated, tampers>>
    /\ CarrySpec

----------------------------------------------------------------------------
\* The environment

EditSpec ==
    /\ \E part \in Parts, value \in Values :
          /\ [spec EXCEPT ![part] = value] \in Specs
          /\ Edit([spec EXCEPT ![part] = value])
    /\ UNCHANGED <<pki, tampers, refusals>>

\* An operator removes the mount, mounts it, removes its issuers or resets a
\* part of its configuration, while there is a resource to notice.
Tamper ==
    /\ api.present
    /\ tampers < MaxTampers
    /\ tampers' = tampers + 1
    /\ \/ mount # "absent" /\ mount' = "absent" /\ config' = Defaults
       \/ mount = "absent" /\ mount' = "empty" /\ UNCHANGED config
       \/ mount = "root" /\ mount' = "empty" /\ UNCHANGED config
       \/ /\ \E part \in Parts : config' = [config EXCEPT ![part] = "default"]
          /\ UNCHANGED mount
    /\ UNCHANGED <<managedVars, specVars, answers, drift, generated, refusals>>

----------------------------------------------------------------------------
ControllerStep(w) ==
    \/ ReadCA(w)
    \/ ReadURLs(w)
    \/ ReadCRL(w)
    \/ GenerateRootCA(w)
    \/ ConfigurePKIURLs(w)
    \/ ConfigurePKICRL(w)
    \/ Refused(w)
    \/ Delete(w)
    \/ ObserveRefused(w)

Unmanaged ==
    UNCHANGED <<spec, edits, mount, config, answers, generated, tampers, refusals>>

\* A worker that ends takes what it has seen with it.
ForgetDrift == drift' = {w \in drift : pc'[w] = "readcrl"}

Managing(w) ==
    /\ ReconcilerStep(w) \/ ReconcilerFault(w) \/ SyncCache(w)
    /\ Unmanaged
    /\ ForgetDrift
    /\ CarrySpec

User ==
    \/ EditSpec
    \/ RequestDelete /\ Unmanaged /\ ForgetDrift /\ CarrySpec

Next ==
    \/ \E w \in Workers : Managing(w)
    \/ \E w \in Workers : ControllerStep(w)
    \/ \E w \in Workers : Unanswered(w)
    \/ User
    \/ Tamper

Spec == Init /\ [][Next]_vars

\* A process keeps working on a queued resource and its cache catches up.
\* Nothing obliges Vault, the user or a failure to act.
Progress(w) ==
    \/ ReconcilerStep(w) /\ Unmanaged /\ ForgetDrift /\ CarrySpec
    \/ ControllerStep(w)

Fairness ==
    \A w \in Workers :
        /\ WF_vars(Progress(w))
        /\ WF_vars(SyncCache(w) /\ Unmanaged /\ ForgetDrift /\ CarrySpec)

FairSpec == Spec /\ Fairness

----------------------------------------------------------------------------
\* Each process generates one root at most, and one more for each change made
\* by others: neither a lost answer, a configuration that fails after the root,
\* a crash nor a reconcile that overrides a pending creation makes another; a
\* single process never generates a root over one that is there.  Where Vault
\* answers 404 for a part that nobody has set, a part left unset by a failure, or
\* asked for by an edit, costs a root for each process as well.
Unset == IF answers.unset = "notfound" THEN edits + faults + refusals ELSE 0
RootsAccounted ==
    generated <= Cardinality(Workers) * (1 + tampers + Unset)

Missed(part) == spec[part] # "unset" /\ config[part] # Canonical(spec[part])

\* Once edits and tampering stop, a wanted resource whose mount is there has a
\* root and every part of its configuration that is set, whichever request
\* failed on the way; all but a part that Vault leaves out of its answer, and a
\* duration that cannot be compared because Go does not parse the one that is
\* asked for or the one that is there.  And no reconcile writes any more.
ConfigSettles ==
    <>[](Wanted /\ MountFound =>
            /\ RootFound
            /\ \A p \in Parts : ~Missed(p) \/ LeftOut(p) \/ Unparsable(spec, p)
            /\ \A w \in Workers : ~Creating(w) /\ ~Updating(w))
=============================================================================
