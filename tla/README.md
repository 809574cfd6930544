# Formal models of provider-vault

provider-vault is a Crossplane provider: 25 controllers keep HashiCorp Vault as
the Kubernetes resources of a cluster describe it. This directory holds TLA+
models of its controllers, the TLC configurations that check them on small
instances, and proofs about them that TLAPS checks for every instance.

## 1. The system

### Components

| Component (under `internal/` unless noted) | State it keeps or reads | Operations | What makes it correct |
|---|---|---|---|
| Managed reconciler (crossplane-runtime, a library, not in the repository) | the managed resource (annotations, finalizer, status), the informer cache, the connection secret | one reconcile: observe, add the finalizer, mark the creation pending, create or update, store the annotations, publish, store the status; on deletion: observe, delete, remove the finalizer | a creation is not repeated without need, the finalizer goes only when the external object is gone, every queued resource is eventually handled |
| `controller/approlesecretid` | a SecretID and its accessor; external-name annotation, connection secret | Observe, Create (two requests), Delete, getSecretID | no working SecretID is lost track of, an existing one is adopted, deletions end |
| `controller/token` | a token and its accessor; `status.atProvider` | Observe (renewal threshold), Create, Update (renew), Delete | no working token is lost track of, a due token is renewed, an expired one replaced |
| controllers of named objects: `policy`, `authbackendrole`, `secretbackendrole`, `databaserole`, `databasebackend`, `identityentity`, `identitygroup`, `mount`, `authmethod`, `quota`, `namespaces`, `auditdevice` | an object in Vault under a name or path of the specification | Observe (drift), Create, Update, Delete | the object converges to the last specification, updates cease, nothing is left behind |
| controllers of auth method configurations: `kubernetesauthconfig`, `ldapauthconfig`, `jwtauthconfig`, `awsauthconfig`, `azureauthconfig`, `gcpauthconfig` | a configuration under the mount of its auth method | as above; Delete does nothing | as above |
| `controller/kvsecret` | the data of a secret in a KV engine, which others write too | Observe, Create, Update (read, then write everything), Delete | the secret ends up as specified whoever writes in between |
| `controller/certificate` | a certificate, its serial in the status, its key in the connection secret | Observe (expiry), Create, Update (revoke, then issue), Delete (revoke) | no valid certificate is lost track of, a due one is replaced |
| `controller/transitkey` | a key and its versions | Observe, Create, Update (configure, rotate up to a target), Delete | the target version is reached and not passed |
| `controller/pkiconfig` | a root, URLs and CRL configuration of a PKI mount | Observe, Create (three requests), Update, Delete (nothing) | a root is generated once, the rest converges |
| `controller/leaserenewal` | a lease | Observe, Create (renews), Update, Delete (revokes on request) | what is there is found, deletions end |
| Vault client, `clients/vault.go` | none (base URL, token, namespace) | one HTTP request per method, 404 recognised, KV update as read, merge and write | an answer is never mistaken for another |
| Drift detection, `clients/drift.go` | none | comparison of a field of the specification with Vault's answer | defaults never drift, differences do |
| Provider configuration, `clients/connect.go`, `apis/v1beta1` | ProviderConfig, ProviderConfigUsage, the secret with the token | TrackUsage, Connect (two namespaces), GetConfig | the object is made in the Vault the resource is configured for, and nowhere else |
| Set-up, `controller/setup.go`, `cmd/provider/main.go` (`src/cmd`) | options | register the controllers, leader election (off by default), metrics, RBAC | |

### Interaction and hard behaviour

A worker of the manager takes a resource from its queue, reads it from an
*informer cache* that lags behind the API server, and calls the controller's
Observe, Create, Update or Delete, which talk to Vault with blocking requests.
What a controller changes on its copy of the resource reaches the API server
only later, by one of three writes with different rules: a plain update (refused
when the copy is outdated), an update of the annotations that is retried until it
passes, and an update of the status (refused when outdated, and then dropped
with what it held). The connection secret is a fourth write. Nothing spans
Vault and the API server atomically, so:

- a process can end, or a request fail or lose its answer, between any two steps;
- leader election is off by default (`cmd/provider/main.go:58`), so during a
  rolling update or with two replicas two processes reconcile the same resource;
- every controller sets `WithDeterministicExternalName(true)`, so a creation that
  was begun and never reported does not stop the next reconcile, which matters
  for the kinds whose identifier Vault generates;
- the user edits or deletes the resource, and operators change Vault, at any time;
- credentials age and expire while all this happens.

`PROJECT.json` lists the hazards with the line where each one bites and the
properties that cover it.

## 2. Modules

```
Managed                 the reconciler: API server, caches, workers, crashes
 |- AppRoleSecretID     MCAppRoleSecretID, AppRoleSecretID_proofs
 |- Token               MCToken, Token_proofs
 `- Specified           specifications that the user edits
     |- NamedKinds      MCNamedKinds, NamedKinds_proofs; VaultKinds: the 19 kinds
     |- Certificate     MCCertificate, Certificate_proofs
     |- PKIConfig       MCPKIConfig, PKIConfig_proofs
     |- KVSecret        MCKVSecret
     |- TransitKey      MCTransitKey, TransitKey_proofs
     `- Connection      MCConnection, Connection_proofs: how each finds its Vault

Managed_proofs          what all these proofs need of the reconciler
Credentials             what AppRoleSecretID and Token are shown to implement
```

A controller module EXTENDS `Managed` and composes its actions with the
reconciler's: `Managed` has the steps of a reconcile, the controller adds the
state of Vault and one action per request. Every Vault request is one step, so
that anything (another worker, the user, Vault, a crash) can come between two of
them.

### Managed

One managed resource. `api` is what the API server stores, `cache[w]` what the
informer cache of process `w` holds, `mr[w]` the copy the reconcile of `w` works
on and `pc[w]` the step it has reached; resource versions are the two sets
`current` (caches that are up to date) and `fresh` (copies that are). The fields
of an object are those the controllers depend on: deletion timestamp, finalizer,
the create-pending annotation, the external name and one identifier under
`status.atProvider`. `conn` is the credential in the connection secret and
`secret[w]` the connection details a call has just returned.

The library's source is not in the repository; the actions are what the
controllers use of it and are marked external in `PROJECT.json`. The one choice
that is the repository's is `DeterministicExternalName`. Each worker is a
process: within one process the work queue never reconciles a resource twice at
the same time.

`faults` counts what goes wrong in the infrastructure (the end of a process, an
API call that fails, a Vault answer that is lost), `overrides` the reconciles that
go ahead over a pending creation, `discarded` the identifiers lost with a status
that was not stored. They are bounded to keep the state space finite, and the
safety properties refer to them: they say what each mishap may cost.

### AppRoleSecretID (`controller/approlesecretid/approlesecretid.go`)

An identifier stands for a SecretID with its accessor. `live` is what Vault
accepts, `generated` what this provider has generated. `Generate` and
`ReadRoleID` are the two requests of Create; `CreateRefused` is the failure of
either, after which the connection details are dropped but the external name that
was set before is stored all the same. `Accessor` is the rule of Observe and
Delete: the external name or, while it is the default, the accessor in the
connection secret. `SecretUnread` is getSecretID taking an error for an absent
secret. Update, which would regenerate a SecretID, has no action: Observe reports
every existing one as up to date, so that no reconcile reaches it (`PlansOK` in the
proofs; section 5, item 11).

The lookup of an accessor that Vault does not know is taken to be answered with 404.
A Vault that answers otherwise would keep an expired SecretID from being replaced
and its resource from being released, as stated for tokens below.

### Token (`controller/token/token.go`)

As above, with the accessor in the status and an `age` in place of clocks: a token
is young, due (below the renewal threshold), late (at its end by the clock of the
provider, and still accepted), or capped (due, and at its maximum). `Update` renews
by accessor and publishes nothing.

What `Observe` can see depends on three traits, each fixed for a behaviour. `timed`:
the specification has a `ttl`, and one that `time.ParseDuration` accepts; without it
a token below the threshold is not found due and only a late one is renewed
(`token.go:126-130`). `dated`: Vault's answer has an expiration; without it a token
shows no age at all. (An answer that has one at some lookups only is left out.)
`strict`: Vault answers the lookup of an accessor it does not know with an error
other than 404. Then every Observe of a token that is gone fails (`token.go:107`): an
expired one is never replaced, and a deletion does not end, not even after the
resource's own Delete has revoked the token. `TokenProvided` and `DeletionCompletes`
except exactly that (`Unknown`).

### Specified

The specification of a resource on its way from the user to a reconcile: the user
edits `spec`, a cache holds an older one, and a reconcile works with the one it
has read (`CarrySpec`).

### VaultKinds and NamedKinds (19 controllers)

These controllers differ in which fields Observe compares and which ones Create
and Update write. `VaultKinds` tables, for every kind, the class of each field of
`spec.forProvider` (`apis/*/v1beta1/*_types.go`, read with the Observe, Create and
Update of its controller). A kind is a record with one field per class that
occurs, so that one module states the behaviour of all of them; the record also
says whether a write succeeds when the object is there (`put`), needs a free path
to create and a used one to update (`tune`), always needs a free path (`enable`)
or an object that is there (`renew`, a lease), whether Delete does anything, which
of its classes have a field that is a duration, and how Vault answers for the fields
that are compared. That is not in the repository, so every answer `Drifted` tells
apart is taken: in a form of Vault's own (`normal`), as it was written (`verbatim`),
left out while nobody has set the field (`set`), or left out or of an unexpected type
always (`never`).

| Class | Compared | Created | Updated | Examples |
|---|---|---|---|---|
| `kept` | yes | yes | yes | a policy's rules, the TTLs of a mount or role |
| `written` | no | yes | yes | passwords, the limits of a quota |
| `fixed` | yes | yes | no | the type of an identity group or auth method |
| `createOnly` | no | yes | no | the options of a mount, of an audit device |

`Drifted` is the rule of `clients/drift.go`: a field differs only if it is set, if
the answer holds it in the expected type, and if both sides can be parsed where they
are durations. A value in a form Vault may give back differently (a list in another
order) is `shuffled`; a duration that Vault understands and Go's `time.ParseDuration`
rejects (`86400`, `30d`) is `odd`, which only the kinds with durations can have. What
Observe cannot compare for one of these reasons is the exception of `SpecSettles`
(`Incomparable`). The specification can be edited, its name included, at any time.
`Tamper` is an operator who removes, resets or makes the object. Every behaviour
starts with or without an object somebody else has made.

`LeaseRenewal` is such a kind without fields: Create renews a lease that is there
and fails otherwise, Observe finds every lease up to date, and Delete revokes it
if `revokeOnDelete` says so. Whether Vault answers the lookup of an unknown lease
with 404 or with 400 is not in the repository; the style `strict` is the latter,
in which Observe can never report that a lease is gone.

### Certificate (`controller/certificate/certificate.go`)

An identifier stands for a certificate with its serial, which is kept in the
status. A certificate belongs to the backend it was issued by, has an age and may
be revoked; a revoked one can still be read until Vault tidies it. `RevokeOld` and
`IssueCertificate` are the two requests of Update; the outcome of the first is
ignored (`kept` counts the refused ones), and the second publishes as Create does.
`Timed` and `Dated` say whether the specification has a time to live and Vault's
answer an expiration: without them `NeedsUpdate` sees less. Vault's answer to the
revocation of a serial it does not know is an error; Delete ends alike either way.

### PKIConfig (`controller/pkiconfig/pkiconfig.go`)

A mount is absent, empty or holds a root; `config` has the URLs and the CRL
configuration as two parts. `ReadCA`, `ReadURLs` and `ReadCRL` are the requests of
Observe (the last two only for what the specification sets; `drift` is what a
worker has seen on its way), `GenerateRootCA`, `ConfigurePKIURLs` and
`ConfigurePKICRL` those of Create, the latter two those of Update. Any of them can
be refused or lose its answer, and what was done before stays. What Vault answers for
a part nobody has set is not in the repository: `answers.unset` is a default, an
answer without the fields, or 404. Observe takes any 404 for an absent root
(`pkiconfig.go:141`, `:160`), so where Vault answers so a part that is asked for and
was never written costs another root (`Unset`). The CRL configuration has durations:
`odd` is one that Go cannot parse, which Vault gives back as it was sent or not
(`answers.verbatim`) and which is never compared. A root somebody
else has generated is adopted. The parameters of the root itself are sent once and
never compared, so they play no part; Delete does nothing, so nothing is said of
deletions.

### KVSecret (`controller/kvsecret/kvsecret.go`, `clients/vault.go:139-219`)

`data` maps keys to values, `ReadExisting` and `WriteKVSecret` are the two requests
of `UpdateKVSecret`; between them `dropping` holds the keys that are going to be
written as null. Another writer (`Tamper`) sets, adds or removes at any time, also
between the two. What the engine does with a null it is sent is not in the
repository: both answers (`stored`, `dropped`) are taken. A stored null is decoded
as an empty string (`Decoded`), and a value that is no text cannot be decoded
(`Readable`), so Observe and Update fail.

### Connection (`clients/connect.go`, `GetConfig` in `clients/vault.go`)

The beginning of every reconcile of every controller: record the use of the
ProviderConfig, look it up in `crossplane-system` and then in the namespace of the
resource, read the token, make a client. The client is dropped with the reconcile.
The resource stands for any that Observe finds up to date once it is there. A
Vault stands for an address with a Vault namespace and TLS settings. Meanwhile
ProviderConfigs are made, redirected, broken and removed (`ChangeConfig`), the
token is replaced in Vault and then in its secret (`RotateToken`), and the read in
`crossplane-system` fails for another reason than absence (`SystemUnread`), which
leads to the other namespace. `restricted` is a process whose cache is limited to
one namespace by `WATCH_NAMESPACE`.

The other modules leave this out: for them a reconcile that gets no client is one
whose request is refused, and the Vault is always the same.

### Credentials

The abstract store of credentials: each identifier is new, held by the resource,
lost or dead; it is issued once, a lost one is never found again, and at any time
no more are lost than there have been mishaps. `AppRoleSecretID` and `Token` map
their state to it (`LifeOf`) and are checked to implement its specification.

### TransitKey (`controller/transitkey/transitkey.go`)

The key has a latest version, a least one (for both minimum versions), a period of
its automatic rotation, a form (for everything that is fixed at creation) and says
whether it may be deleted. A period that `time.ParseDuration` rejects (`odd`) is sent
like any other and never compared (`transitkey.go:156`); Vault gives every period back
in seconds. `Configure` and `Rotate` are the requests of Update; the worker counts
from the version Observe put into the status (`seen`), not from the key, and the
number of rotations is fixed before the first one. `Tamper` is a rotation by Vault
or an operator, or the removal of the key. Vault's side of it is assumed: a key
that is there is left alone by Create, a least version above the latest one is
refused, and only a key that allows it is deleted; whether `deletion_allowed`
counts when it is sent at creation is left open.

## 3. Runs

| Run | Instance | Shows |
|---|---|---|
| `secretid` | 1 process, 4 identifiers of which 1 is from before the annotation was lost, 1 fault, 2 overrides, 1 refusal | `LegacyAdopted`: nothing is generated beside a credential found in the connection secret. `PublishedIsTracked`: a published credential that works can be found by the resource, until it is destroyed. `DeletionCompletes`, `CredentialProvided` |
| `secretid_replicas` | 2 processes, 2 identifiers, 1 fault, 1 override, 1 refusal | `LeaksAccounted`: working SecretIDs nobody can destroy are at most the faults plus the overrides. `ImplementsCredentials`. `DestroyedBeforeReleased`: the finalizer goes only when the recorded SecretID does not work |
| `secretid_published` (finding) | 1 process, no fault, 1 refusal | a working SecretID is recorded and never published |
| `token` | 1 process, 3 identifiers, 4 combinations of traits, 1 fault, 2 overrides, 1 refusal | `LeaksAccounted`, `ImplementsCredentials`, `RevokedBeforeReleased`. `DeletionCompletes` unless the token is gone and Vault does not answer 404. `TokenProvided`: a wanted resource ends up with a working token, with the same exception, and one that can be seen to be due is renewed |
| `certificate` | 1 process, 4 identifiers, 2 backends, 1 edit, 1 fault, 1 override, 1 refusal | `LeaksAccounted`: a valid certificate nobody will revoke costs a mishap, a refused revocation that the renewal ignored or, once per process, an edit of the backend. `PublishedIsRecorded`: without faults what is published is what the status records. `RevokedBeforeReleased`: the finalizer goes only when the backend of the specification does not know the recorded certificate. `CertificateProvided`; `DeletionCompletes` once Vault has forgotten the revoked certificate |
| `named` | all 19 kinds with the answers `normal` and `set`, the other answers with the kinds that have durations, a fixed field or a tuning Update, 2 names, 1 edit, 1 change by others or refusal, 1 fault, 1 override | `SpecSettles`: the last edit of every compared and updated field is in Vault in the end unless Observe cannot compare it, and the updates stop. `StraysAccounted`: what the resource wrote stays behind only under a name the specification left, one object for each rename. `GoneBeforeReleased`: the finalizer goes only after what the resource wrote under its present name. `DeletionCompletes` |
| `kvsecret` | 2 keys, both engines, 1 edit, 1 write by another, 1 fault, 1 override, 1 refusal | `SecretSettles`: the secret ends up as specified whatever was written between the requests of an Update, and updates cease but for a stored null. `DeletionCompletes` unless the secret cannot be decoded |
| `pkiconfig` | 3 of the 6 answers, 1 edit, 1 change by others, 1 fault, 1 override, 1 refusal | `RootsAccounted`: one root is generated, and one more for each change by others; where Vault answers 404 for what nobody has set, one more for each edit, fault and refusal. `ConfigSettles`: later reconciles complete what failed half way or was edited, but for what Observe cannot compare |
| `transitkey` | 1 process, 6 specifications, 1 edit, 1 tampering, 1 fault | `RotationsBounded`: with one process only others rotate a key past its target. `KeySettles`: the key ends up at its target and configured, but for a period that cannot be parsed, and the updates stop. `DeletionCompletes` |
| `transitkey_replicas` | 2 processes, 1 target, 1 tampering, 1 fault, 1 refusal | `RotationsBounded`: two processes that race pass the target by at most one more way to it. `GoneBeforeReleased`: the finalizer goes only when there is no key, unless one process goes ahead over the creation of the other |
| `transitkey_target` (finding) | 1 process, no fault, no edit | a target that is never reached |
| `connection` | 2 Vaults, 2 references, 1 change of a ProviderConfig, the token rotation, 1 edit, 1 fault, 1 override | `ElsewhereAccounted`: an object is left in another Vault only by a change, an edit or a failed read, one for each. `GoneBeforeReleased`: the finalizer goes only after what the resource made in the Vault of that reconcile. `ProvidedWhereConfigured`: the resource ends up in the Vault it is configured for, with the token of now. `DeletionCompletes` unless there is no usable ProviderConfig |

Several properties name the cases in which the code does not do what one might
hope (a value Vault stores in another form, a duration that Go cannot parse, a field
that Vault does not answer, a stored null, a fixed field, a Delete that does nothing,
a lease or a token that cannot be looked up): they exclude every other case, and the hazards in `PROJECT.json` say where the exception comes from.

### Bounds

The bounds count mishaps, not steps: behaviours are infinite, reconciles repeat
for ever and credentials expire any number of times as far as identifiers
last. One fault can fall at every step of a behaviour, in particular between
any two of: request, annotation, publication, status. The
invariants that compare counters (`LeaksAccounted`, `StraysAccounted`,
`RootsAccounted`, `RotationsBounded`, `ElsewhereAccounted`) are proved for every
bound (section 4). The number of
identifiers leaves one for the credential in use, one for each that a mishap can
cost and one for a replacement (`Expire`, `Age` and the edits of `Certificate` are
guarded so that the provider never runs out of identifiers, which Vault never
does). Two names, backends, keys or Vaults are enough for a change and the way
back. Targets up to 3 let a worker be between two rotations with one to go. Two
processes show every race of a pair. `secretid_replicas` and
`transitkey_replicas` use symmetry; they check invariants and three step properties
(`ImplementsCredentials`, `DestroyedBeforeReleased` and `GoneBeforeReleased` ask
nothing of fairness), all of which treat processes and identifiers alike. The other runs have one
process, since two would pass what a search of their liveness properties can
cover; what is proved holds for any number (section 4).

In `named` changes by others and refusals share one bound, and `connection` has no
refusals but those of a token that is not accepted: more of both passes what a run
can search, and each of them is met by every other event. `token` takes the traits
`timed` and `dated`, `dated` alone, none, and all three: a threshold that is known, one
that is not, no end, and an answer other than 404. `pkiconfig` takes each answer for
what is unset once, and each form of a duration. The kinds that `named` leaves out of
the answers `verbatim` and `never` are written like those with durations that it takes,
with fewer values, or with a Delete that does nothing.

The library promises to keep the annotations Create has set and nothing else, so
its answer may put the stored status over the one Create has filled in. The model
counts this as a fault. A library that does it every time would leave a token
behind at every poll, and the re-creation of a certificate that was tidied, or whose
backend was edited, would never settle either: each answer would put the former serial
back, the next Observe would find nothing under it and Create would be called again
(`SaveAnnotations`; `CertificateProvided` and `TokenProvided` do not hold there). That
is the hazard of keeping an identifier in the status.

Deadlock is not checked: once the resource is deleted nothing is left to do.

### Fairness

`FairSpec` asks for weak fairness of two things per process: the next step of a
reconcile with a Vault that answers, and the update of its cache. The first is
the work queue: a resource that is not finished is requeued at once or, at the
latest, by the poll interval, and controller-runtime keeps its workers running;
requests that are refused use up a bounded number of refusals, so they delay a
reconcile but do not end it. The second is the watch of the informer. Nothing is
asked of users, operators, expiry, tidying, token rotation or faults. The finding
about SecretIDs is a safety property; that about transit keys is checked under
`FairSpec`.

### Refinement

`ImplementsCredentials` is the abstract specification `Credentials!Spec` with the
life of each credential computed from who can still find it: `new` while Vault has
not handed it out, `dead` when Vault no longer accepts it, `lost` when it works
and neither the stored resource nor a worker knows it, else `held`. For SecretIDs
the mishaps are faults and overrides, for tokens the statuses that were dropped
too. A step of the controller is a step of the store or leaves it alone; in
particular no step turns a lost credential into a held one, with two processes
and any cache.

## 4. Proofs

TLAPS checks the theorems below for every set of processes, identifiers, names,
Vaults and specifications and every bound; where one process is assumed the
theorem says so. The assumptions on the constants are those of the modules: the
set of processes is finite, `NoId` is no identifier, `Legacy` is a set of
identifiers, the bounds are natural numbers.

| Module | Theorem | Establishes | Processes |
|---|---|---|---|
| `AppRoleSecretID_proofs` | `TypeCorrect` | `TypeOK` | any |
| | `LeaksBounded` | `LeaksAccounted`, by `InductiveInvariant` | any |
| | `Refinement` | `ImplementsCredentials` | any |
| | `DestructionFirst` | `DestroyedBeforeReleased` | any |
| | `Adoption` | `LegacyAdopted`, by `AdoptionInvariant` | any |
| | `Tracking` | `PublishedIsTracked` | any |
| `Token_proofs` | `TypeCorrect` | `TypeOK` | any |
| | `LeaksBounded` | `LeaksAccounted`, by `InductiveInvariant` | any |
| | `Refinement` | `ImplementsCredentials` | any |
| | `RevocationFirst` | `RevokedBeforeReleased` | any |
| `Certificate_proofs` | `TypeCorrect` | `TypeOK` | any |
| | `LeaksBounded` | `LeaksAccounted`, by `InductiveInvariant` | any |
| | `RevocationFirst` | `RevokedBeforeReleased` | any |
| | `PublishedRecorded` | `PublishedIsRecorded` | any |
| `NamedKinds_proofs` | `TypeCorrect` | `TypeOK` | any |
| | `StraysBounded` | `StraysAccounted` | any |
| | `RemovalFirst` | `GoneBeforeReleased` | one |
| `PKIConfig_proofs` | `TypeCorrect` | `TypeOK` | any |
| | `RootsBounded` | `RootsAccounted`, where Vault does not answer 404 for what nobody has set | any |
| `TransitKey_proofs` | `TypeCorrect` | `TypeOK` | any |
| | `RotationsWithinBound` | `RotationsBounded` | any, at least one |
| | `RemovalFirst` | `GoneBeforeReleased` | any |
| `Connection_proofs` | `TypeCorrect` | `TypeOK` | any |
| | `ElsewhereBounded` | `ElsewhereAccounted` | any |
| | `RemovalFirst` | `GoneBeforeReleased` | any |

### What the proofs share

`Managed_proofs` has the lemmas about the reconciler: its steps keep the types of
its state; they keep `CopiesAgree` (a cache that is up to date is the stored
resource, and so is a copy of the latest version until Create, the save of its
annotations or Delete is reached), `CopiesCurrent` and `Untouched` (until the
finalizer is stored, the resource is as the user made it and nothing has been done
for it); they release the resource only by the removal of the finalizer; they make
no external name or status that is not there already; and how the cardinality of a
set changes by one element.

None of the counting invariants is inductive: that a step loses nothing depends on
what every cache and every copy may still say. Each `IInv` is `TypeOK`, a
`History` (what the copies may say about the past) and a ledger that counts,
beside what is lost, what can still be lost without another mishap. TLC has
checked each of them on the instances of the runs before it was proved. One lemma
per action shows that it keeps the ledger; the lemma `InvBounds` reads the
property off it.

### SecretIDs and tokens

For a SecretID, `NamesGenerated` says that every external name anywhere is one
this provider has generated, `AbsentIsDead` that the way from "does not exist" to
Create, or to the end of the resource, is taken with a name that does not work.
The `Ledger`: orphans plus workers inside a creation are at most faults plus
overrides, plus one while the resource says that a creation is pending and a
worker is inside one. A worker that begins a creation over a pending one pays with
an override, and the plain update of the pending annotation keeps a second process
from creating for free.

For a token the accessor is in the status, which is written last and is dropped on
a conflict, so the ledger counts the workers about to write another accessor as
well (`Late`), and the pledge is that what the resource records is dead and about
to be replaced. `Hands` says who holds the value of a token, and that a copy
without it tells nothing new.

`Refinement` shows for both that each step of the controller is a step of
`Credentials` or leaves it alone. The lives of the credentials after a step follow
from which working ones are *known* before and after it: no step makes an unknown
working credential known, `Generate` and `Create` make one that is new, expiry
and Delete end one, and what stops being known is lost, within the mishaps the
ledger allows. Liveness is no part of `Credentials`, so nothing is left to TLC.

`Adoption` adds to the invariant that nobody is on the way to a creation while an
adopted credential works and nothing has failed (`Undisturbed`). `Tracking` adds
what a process holds on its way (`Held`): one that creates, or is on the way there
with a copy of the latest version, does so while nothing published works, and the
name it publishes under is the stored one. With `Marked` (one process at a time
creates, and the resource says so) no other can store a name meanwhile. A process
that goes ahead over the creation of another spoils it without any fault, as TLC has
shown with two: it stores its own name after the first has published. So with
several processes the property asks that none has (`Undisputed`).

### Certificates

A certificate can be valid and useless: recorded, but of a backend the
specification has left. Besides the ones nobody knows (`Lost`) the ledger counts
each creation under way, a write of the status under way (only one of them can
succeed), a recorded certificate of a former backend (`Astray`) and the workers
that work for a former backend (`Behind`). `Pledged` is the recorded certificate
that is about to be replaced and has been paid for already. `Apart` says that not
all workers create for the backend that has the recorded certificate.

An edit of the backend is worth one certificate *per process*, since each process
may be in the middle of a creation for the former backend and then records it over
what another has recorded. A first statement that charged one for each edit was
refuted by TLC with two processes and four identifiers; the present one was checked
on that instance (65 million states, too many for a run of this project) and is
proved.

`PublishedRecorded` says that without a failure and without a dropped status,
whatever the revocation and the issue of a renewal answer, the secret and the
status name the same certificate at rest. A worker may have published what it has
not recorded yet (`Outgoing`), and several may at once; `Leading` says that what is
published is then the certificate of one of them, and that the one that can still
store its status outdates the others. `Alone` keeps a creation apart from the
renewals: the backend does not know the recorded certificate, so nobody finds it
due. With several processes two things break that, and the property excludes both.
One is a process that goes ahead over the creation of another (`Undisputed`). The
other is an edit of the backend to another one and back (`NotEditedBack`): a worker
that has found nothing in the other backend, and is refused a creation there, stores
the status it has read over a renewal in the first. TLC has found that one with two
processes and two edits, and nothing with one edit (14 million states); the run has
one process.

### Objects and Vaults

For `NamedKinds`, `Reached` are the names the resource has written or can still
write without another edit: what it owns and the names in its specification, in the
caches and in the copies a worker is busy with. `Paid` says that a rename has been
spent on each of them but the present one; it is inductive for any number of
processes and is all that is needed while the resource is there. `Connection` has
the same argument with the Vaults that are looked up (`Lookup`) in place of names,
where a change of a ProviderConfig, an edit and a failed read each pay for one.

What a deletion leaves depends on who may still write. For `NamedKinds` with one
process, `Sought` and `Gone` say that the finalizer goes only after the object of
that reconcile's name was found to be gone and that nothing is written for a
resource that is gone, so that the present name is not among what is left
(`Cleared`). With two, an Update, which creates what it does not find and which
nothing keeps apart from the deletion, can write the object again after the other
process has found it gone (TLC, without a fault), so `StraysAccounted` allows one
object more once the resource is gone: whatever the number of processes, there is
one last name. `StraysBounded` joins the two cases. In `Connection` only Create
writes, and the pending annotation does keep it apart: `ElsewhereAccounted` allows
the one object more only if a process has gone ahead over a pending creation
(`Undisputed`), and is proved in one argument for any number of processes.

### Roots

A process on its way from "no root" to the request that makes one is a seeker.
`Allowance` says that the roots generated and the seekers are together at most one
for each process and each change by others, and that where there is no root one of
these per process is left: nothing else generates a root, and Observe comes before
it in every reconcile. That needs an Observe that finds a root which is there: where
Vault answers 404 for a part nobody has set (`answers.unset = "notfound"`) it does not,
and the theorem excludes it. There the bound counts edits, faults and refusals as well;
it is checked by the run and, with two processes, was checked on an instance without
changes by others (13 million states).

### Releases

A resource whose finalizer is gone is never looked at again, so what it recorded
must not work any more. `ReconcilerReleases` (`Managed_proofs`) says that only the
removal of the finalizer releases it, with a copy of the latest version: such a
write is refused when the copy is outdated. Each controller's invariant says of a
worker at that step that what its copy records was not found, or was destroyed
(`AbsentIsDead`, `Hands`, `Sought`), and `CopiesAgree` and `SpecsAgree` carry this
over to the stored resource and specification. This needs no bound on the number of
processes for credentials, which a second process cannot bring back to life.

A key or an object it can: by a Create between the first one's Observe and its
removal of the finalizer. What prevents that is the pending annotation, and the
lemmas on creations in flight (`Managed_proofs`) say how. `Marked`: as long as no
process has gone ahead over a pending creation (`Undisputed`), at most one is
between the annotation and its answer, and while no override has happened at all
the stored resource is marked pending for that time; so a copy of the latest version
that is not pending means that nobody is creating, and the removal of the finalizer
with a pending one is an override itself (`ReleaseUncontended`). Each controller's
invariant (`RInv` in `TransitKey_proofs`, `Sought` in `Connection_proofs`) says of a
worker at "unfinalize" with such a copy that what it did not find is still not
there: a step that could change this makes the copy outdated (`ReconcilerWaits`) or
is a Create. The hypothesis is needed: with an override two processes can be in
Create at once (TLC). An override takes a second process that reconciles while the
first is between the annotation and its answer, or after it has ended there
(`WithDeterministicExternalName` lets it go ahead); a single process is never
concerned.

`GoneBeforeReleased` of `NamedKinds` is about one process: its Update may write
what is not there, and no annotation marks an Update.

### Rotations, with any number of processes

`Due` are the rotations each worker still has to make by the version it believes
in; `Budget` adds them to the key's latest version. A rotation moves one from the
second to the first. Only an observation makes more of them due, and one worker's
observation of the present version never goes past the highest target; what the
others may add is `Spare`, one whole way to the target each. `Workers # {}` is
assumed because the bound subtracts one process.

### Only model-checked

Every liveness property (fairness and ENABLED are beyond the prover) and the two
findings. `TypeOK` of `KVSecret`, whose other properties are liveness properties too.
`RootsAccounted` where Vault answers 404 for what nobody has set. `TypeOK` of
`AppRoleSecretID`, `TransitKey` and `Connection`, on the other hand, is proved and not
among what the runs check. No module declares a RECURSIVE operator.

## 5. Where code and documentation disagree

1. **A SecretID that is recorded and never published** (`secretid_published`).
   `approlesecretid.go` sets the external name, then reads the role id; when that
   request is refused Create returns an error and no connection details. The next
   Observe finds the SecretID and reports it up to date.
   `docs/resources/approlesecretid.md:5` promises that it is written to the
   connection secret.
2. **A target version that is never reached** (`transitkey_target`).
   `apis/transitkey/v1beta1/transitkey_types.go:43` says that the controller rotates
   the key until its latest version reaches the target. Update sends the
   configuration first and stops when Vault refuses it, as it does while the minimum
   version lies above the latest one: `minEncryptionVersion: 3` with
   `rotateToVersion: 3` never gets past version 1.

Seen while modelling, and plain from the code without a run:

3. `docs/resources/token.md:54`: the connection secret is updated on each renewal.
   Update of a token returns no connection details (`token.go:210`).
4. `docs/resources/authmethod.md:48` describes tuning the `config` of an existing
   auth method. Observe compares the type only and Update enables the method a
   second time (`authmethod.go:104`).
5. `docs/resources/leaserenewal.md:5`: leases are renewed automatically. Observe
   finds every lease up to date, so Update is never called (`leaserenewal.go:115`).
6. `docs/resources/pkiconfig.md:60`: an exported key is written to the connection
   secret. Create returns no connection details; the key is in the status
   (`pkiconfig.go:258`, `:274`).
7. `docs/resources/certificate.md:59`: renewal at `(1 - renewBefore) * ttl`. Without
   a `ttl` in the specification a certificate is renewed only after it has expired
   (`certificate.go:126`).
8. `docs/resources/certificate.md:32` lists `ca_chain` in the connection secret; it
   is never written there (`certificate.go:261`).
9. `docs/resources/kvsecret.md:40` describes a permanent deletion of all versions;
   Delete soft-deletes the latest one (`vault.go:215`).
10. `docs/resources/identityentity.md:15`: `groupIds` are only logged
    (`identityentity.go:162`).
11. `docs/resources/approlesecretid.md:70` describes an Update that destroys the old
    SecretID, generates a new one and updates the connection secret. Observe reports
    every SecretID it finds as up to date (`approlesecretid.go:129-132`), so Update
    (`:182`) is never called: an edit of the role, the metadata or the CIDR lists
    changes nothing in Vault.
12. `docs/resources/pkiconfig.md:61`: once generated, the resource becomes immutable.
    The root does; but Observe compares the URLs and the CRL configuration
    (`pkiconfig.go:136-194`) and Update sends later edits of them (`:285-295`), which is
    what `ConfigSettles` states.
13. `docs/resources/token.md:52`: a token renews when its remaining time drops below
    `renewBefore * ttl`. With no `ttl`, or one that Go cannot parse (`30d`, `86400`), it
    is renewed only once nothing remains (`token.go:126-130`).
14. `docs/resources/secretbackendrole.md:60` gives `ttl: 86400`, and says that it is a
    string. As the string `"86400"` it is sent to Vault and never compared, since
    `time.ParseDuration` wants a unit (`drift.go:98-101`): an edit of it alone is not
    written.

## 6. Not modelled

- The text of requests and answers, TLS, JSON and URLs: one step per request with
  its outcomes (done, not found, refused, done but unanswered).
- Values that Vault itself refuses (a duration neither it nor Go understands): every
  request with one would be refused until it is edited.
- A lookup of an unknown SecretID, certificate, object or key that is answered
  with another error than 404 (the lookups of unknown leases and tokens are modelled).
- A request that is applied after its caller has given up on it: a lost answer is
  applied at once.
- Late initialization, management policies other than the default, rate limits.
- The reserved names of policies, the generated ids in the status of identities,
  secrets referenced by auth method configurations, the versions of a KV secret
  before the latest, the remaining time of a lease, what a certificate says and
  the chain that its status accumulates.
- Runs with two processes on one named object, certificate, ProviderConfig or KV
  secret: their state spaces with one process are near the limit of a run. The
  modules allow any number; section 4 says what is proved of them.
- Generated code, CRDs, the registration of types, metrics, RBAC objects, flags:
  start-up and plumbing without a behaviour of their own.

## 7. Plan

Every safety invariant and action property the runs check is proved but one, the
type invariant of `KVSecret`, and one case of another, `RootsAccounted` where Vault
answers 404 for what nobody has set. What is left:

1. `KVSecret`: its type invariant, and what an Update may remove from a secret.
   `PKIConfig`: the case of `RootsAccounted` that is left.
2. What a second process can leave behind when it goes ahead over a creation, or
   after a backend has been edited to and fro: a bound for `PublishedIsTracked` and
   `PublishedIsRecorded` by the overrides and the edits, where both now exclude them.
3. The release of a named object with two processes. An Update that upserts can
   bring the object back after the other has found it gone, so the present statement
   is false there; what holds is a bound by the updates that were under way.
