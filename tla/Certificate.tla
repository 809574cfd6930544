---------------------------- MODULE Certificate ----------------------------
(***************************************************************************)
(* The Certificate controller (internal/controller/certificate) over the   *)
(* managed reconciler: a certificate is issued by a PKI backend, its       *)
(* serial is kept under status.atProvider, it is revoked and issued again  *)
(* when little of its time to live remains, and revoked on deletion.       *)
(*                                                                         *)
(* An identifier stands for a certificate together with its serial.  Time  *)
(* is the age of a certificate: "due" is below the renewal threshold.      *)
(***************************************************************************)
EXTENDS Specified

CONSTANTS
    Backends,     \* the PKI backends the specification may name
    Timed,        \* whether the specification gives a time to live
    Dated,        \* whether Vault answers the expiration of a certificate
    MaxRefusals   \* bound on the requests Vault answers with an error

ASSUME CertificateAssumption ==
    /\ Backends # {}
    /\ {Timed, Dated} \subseteq BOOLEAN
    /\ MaxRefusals \in Nat

VARIABLES
    certs,     \* the certificates Vault stores, by serial
    issued,    \* the certificates this resource has been issued
    kept,      \* refused revocations a renewal has passed over
    refusals   \* requests Vault has answered with an error

pki == <<certs, issued, kept>>
vars == <<managedVars, specVars, certs, issued, kept, refusals>>

Certs == [backend : Backends, age : {"young", "due", "expired"},
          revoked : BOOLEAN]

\* The type of the state.  The external name keeps its default.
TypeOK ==
    /\ ManagedTypeOK
    /\ SpecifiedTypeOK(Backends)
    /\ issued \subseteq Ids
    /\ DOMAIN certs \subseteq issued
    /\ \A id \in DOMAIN certs : certs[id] \in Certs
    /\ kept \in 0 .. refusals
    /\ refusals \in 0 .. MaxRefusals
    /\ api.name = NoId

Init ==
    /\ ManagedInit(NewObject)
    /\ conn = NoId
    /\ spec = CHOOSE b \in Backends : TRUE
    /\ SpecifiedInit
    /\ certs = <<>>
    /\ issued = {}
    /\ kept = 0 /\ refusals = 0

----------------------------------------------------------------------------
Refuse ==
    /\ refusals < MaxRefusals
    /\ refusals' = refusals + 1

Valid(id) ==
    id \in DOMAIN certs /\ ~certs[id].revoked /\ certs[id].age # "expired"

FoundYoung(backend, serial) ==
    /\ serial \in DOMAIN certs /\ certs[serial].backend = backend
    /\ certs[serial].age = "young"

\* The backend of the specification answers for the serial of the status,
\* whether the certificate is revoked or not.
Found(backend, serial) ==
    serial \in DOMAIN certs /\ certs[serial].backend = backend

OnceExpired(serial) == Dated /\ certs[serial].age = "expired"

\* Without a time to live in the specification the threshold is unknown.
NeedsUpdate(serial) ==
    /\ Dated
    /\ \/ certs[serial].age = "expired"
       \/ certs[serial].age = "due" /\ Timed

Observe(w) ==
    /\ pc[w] = "observe"
    /\ LET found == Found(specCopy[w], mr[w].status)
       IN  Decide(w, found, found /\ ~NeedsUpdate(mr[w].status))
    /\ UNCHANGED <<api, conn, cache, current, mr, fresh, secret, faults,
                   overrides, discarded, spec, edits, pki, refusals>>
    /\ CarrySpec

RevokeNothing(serial) == certs

\* Vault answers a serial it does not know with an error.
Revoke(serial) ==
    IF serial \in DOMAIN certs THEN [certs EXCEPT ![serial].revoked = TRUE]
                               ELSE certs

\* Update, first request.  Its outcome is ignored.
RevokeOld(w) ==
    /\ pc[w] = "update"
    /\ \/ certs' = Revoke(mr[w].status) /\ UNCHANGED <<kept, refusals>>
       \/ Refuse /\ kept' = kept + 1 /\ UNCHANGED certs
    /\ Goto(w, "issue")
    /\ UNCHANGED <<api, conn, cache, current, mr, fresh, plan, secret, faults,
                   overrides, discarded, spec, edits, issued>>
    /\ CarrySpec

\* Vault never gives a serial twice; which one it gives makes no difference.
NewSerial == CHOOSE id \in Ids \ issued : TRUE

NewCert(w, id) ==
    /\ certs' = [i \in DOMAIN certs \cup {id} |->
                    IF i = id THEN [backend |-> specCopy[w],
                                    age |-> "young", revoked |-> FALSE]
                              ELSE certs[i]]
    /\ issued' = issued \cup {id}

SerialAsName(w, id) == [mr EXCEPT ![w].name = id]

UpdateStatus(w, id) == [mr EXCEPT ![w].status = id]

NoConnectionDetails(w, id) == IF pc[w] = "create" THEN id ELSE NoId

ConnectionDetails(w, id) == id

\* Create, or the second request of Update, which publishes as Create does.
IssueCertificate(w) ==
    /\ pc[w] \in {"create", "issue"}
    /\ issued # Ids
    /\ NewCert(w, NewSerial)
    /\ mr' = UpdateStatus(w, NewSerial)
    /\ secret' = [secret EXCEPT ![w] = ConnectionDetails(w, NewSerial)]
    /\ Goto(w, IF pc[w] = "create" THEN "annotate" ELSE "publish")
    /\ UNCHANGED <<api, conn, cache, current, fresh, plan, faults, overrides,
                   discarded, spec, edits, kept, refusals>>
    /\ CarrySpec

IssueFailed(w) ==
    Goto(w, IF pc[w] = "create" THEN "annotateFailed" ELSE "status")

\* The certificate is issued and the answer is lost.
IssueUnanswered(w) ==
    /\ pc[w] \in {"create", "issue"}
    /\ Fault
    /\ issued # Ids
    /\ NewCert(w, NewSerial)
    /\ IssueFailed(w)
    /\ UNCHANGED <<api, conn, cache, current, mr, fresh, plan, secret,
                   overrides, discarded, spec, edits, kept,
                   refusals>>
    /\ CarrySpec

IssueRefused(w) ==
    /\ pc[w] \in {"create", "issue"}
    /\ Refuse
    /\ IssueFailed(w)
    /\ UNCHANGED <<api, conn, cache, current, mr, fresh, plan, secret, faults,
                   overrides, discarded, spec, edits, pki>>
    /\ CarrySpec

Delete(w) ==
    /\ pc[w] = "delete"
    /\ certs' = Revoke(mr[w].status)
    /\ Goto(w, "status")
    /\ UNCHANGED <<api, conn, cache, current, mr, fresh, plan, secret, faults,
                   overrides, discarded, spec, edits, issued,
                   kept, refusals>>
    /\ CarrySpec

\* Observe and Delete give an error back without having done anything.
CallRefused(w) ==
    /\ pc[w] \in {"observe", "delete"}
    /\ Refuse
    /\ Goto(w, "status")
    /\ UNCHANGED <<api, conn, cache, current, mr, fresh, plan, secret, faults,
                   overrides, discarded, spec, edits, pki>>
    /\ CarrySpec

----------------------------------------------------------------------------
\* The environment.  Time, operators and Vault's own cleaning are followed for
\* the recorded certificate: what becomes of the others changes nothing here,
\* except that a lost one may stop being valid.

\* What costs an identifier happens as long as they last: one is left for each
\* one a failure or the request to delete can still cost.
Spare ==
    Cardinality(Ids \ issued) >
        (MaxFaults - faults) + Cardinality({TRUE} \ {api.deleting})

Age ==
    /\ api.status \in DOMAIN certs
    /\ certs[api.status].age # "expired"
    /\ Spare
    /\ certs' = [certs EXCEPT ![api.status].age =
                    IF @ = "young" THEN "due" ELSE "expired"]
    /\ UNCHANGED <<managedVars, specVars, issued, kept, refusals>>

OperatorRevokes ==
    /\ api.status \in DOMAIN certs
    /\ ~certs[api.status].revoked
    /\ certs' = Revoke(api.status)
    /\ UNCHANGED <<managedVars, specVars, issued, kept, refusals>>

\* Vault forgets a certificate that has expired, if it is ever told to.
Tidy ==
    /\ api.status \in DOMAIN certs
    /\ certs[api.status].age = "expired"
    /\ certs' = [id \in DOMAIN certs \ {api.status} |-> certs[id]]
    /\ UNCHANGED <<managedVars, specVars, issued, kept, refusals>>

EditSpec ==
    /\ Spare
    /\ \E b \in Backends : Edit(b)
    /\ UNCHANGED <<pki, refusals>>

----------------------------------------------------------------------------
ControllerStep(w) ==
    \/ Observe(w)
    \/ RevokeOld(w)
    \/ IssueCertificate(w)
    \/ IssueRefused(w)
    \/ Delete(w)
    \/ CallRefused(w)

Unmanaged == UNCHANGED <<spec, edits, pki, refusals>>

\* A reconcile of an outdated cache can renew what is renewed already, so it
\* too begins only as far as identifiers last.
Reconciling(w) ==
    /\ ReconcilerStep(w)
    /\ pc[w] = "idle" => w \in current \/ Spare

Managing(w) ==
    /\ Reconciling(w) \/ ReconcilerFault(w) \/ SyncCache(w)
    /\ Unmanaged
    /\ CarrySpec

\* The connection secret is never read here, so its deletion plays no part.
User ==
    \/ EditSpec
    \/ RequestDelete /\ Unmanaged /\ CarrySpec

Next ==
    \/ \E w \in Workers : Managing(w)
    \/ \E w \in Workers : ControllerStep(w)
    \/ \E w \in Workers : IssueUnanswered(w)
    \/ User
    \/ Age
    \/ OperatorRevokes
    \/ Tidy

Spec == Init /\ [][Next]_vars

\* A process keeps working on a queued resource and its cache catches up.
\* Nothing obliges Vault, the user or a failure to act.
Progress(w) ==
    \/ Reconciling(w) /\ Unmanaged /\ CarrySpec
    \/ ControllerStep(w)

Fairness ==
    \A w \in Workers :
        /\ WF_vars(Progress(w))
        /\ WF_vars(SyncCache(w) /\ Unmanaged /\ CarrySpec)

FairSpec == Spec /\ Fairness

----------------------------------------------------------------------------
InHand == {mr[w].status : w \in {v \in Workers : secret[v] # NoId}}

Recorded == IF api.present THEN {api.status} ELSE {}

\* Valid certificates that neither the resource nor a worker knows: nothing
\* will ever revoke them.
Orphans == {id \in DOMAIN certs : Valid(id)} \ (InHand \cup Recorded)

\* A valid certificate is lost only to an infrastructure failure, to an
\* overridden creation, with a status that was not stored, to a refused
\* revocation that the renewal has ignored, or to an edit of the backend.  Each
\* of these costs at most one, but an edit one per process: a creation for the
\* former backend can still overwrite the status with its own certificate.
LeaksAccounted ==
    Cardinality(Orphans) <=
        faults + overrides + discarded + kept + Cardinality(Workers) * edits

\* The backend has not been changed to another one and back, or nobody else is
\* there to go on with what it was meanwhile.
NotEditedBack == edits <= 1 \/ Cardinality(Workers) = 1

\* Without an infrastructure failure and without a dropped status, at rest the
\* published certificate is the recorded one: a renewal publishes what it
\* records, also when it fails half way and starts again.  Another process can
\* spoil this only by going ahead over a creation, or by renewing, once the
\* backend is edited back, the certificate that the first one is replacing.
PublishedIsRecorded ==
    (\A w \in Workers : pc[w] = "idle") /\ faults = 0 /\ discarded = 0
        /\ Undisputed /\ NotEditedBack /\ api.present => conn = api.status

\* While the resource is wanted it ends up with a certificate that its backend
\* knows and whose renewal, where it can be seen to be near, is over.
CertificateProvided ==
    <>[](Wanted => /\ Found(spec, api.status)
                   /\ Dated => certs[api.status].age # "expired"
                   /\ Dated /\ Timed => certs[api.status].age # "due")

\* Whatever fails and whichever process does it, the finalizer is removed only
\* when the backend of the specification does not know the recorded certificate
\* any more: one that Delete could not revoke, or that Vault still answers for,
\* keeps the resource.
RevokedBeforeReleased ==
    [][Released /\ api.status \in DOMAIN certs =>
           certs[api.status].backend # spec]_vars

\* A deletion that has been asked for ends: none is pending for ever, unless
\* Vault still answers for the recorded certificate, which it has revoked.
DeletionCompletes ==
    <>[](api.present /\ api.deleting =>
            Found(spec, api.status) /\ ~Valid(api.status))
=============================================================================
