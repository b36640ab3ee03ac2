# A TLA+ model of tsidp-operator

tsidp-operator is a Kubernetes operator: for every `OIDCClient` custom resource
(a *CR* below) it registers an OIDC client with tsidp and keeps the credentials
in a Secret. Three stores have to agree — the CR's status, the Secret, and
tsidp's registry — and no transaction spans them. `client_secret` is returned by
`POST /register` only, so an interrupted pass cannot be resumed, only found
again by the fingerprint in the client's name. This directory models that
protocol and the data it writes, checks both on small instances with TLC, and
proves with TLAPS, for every instance, what the operator may touch, that it
leaves nothing behind, and that what it writes is stable.

Line numbers refer to `src/internal/controller/oidcclient_controller.go` unless
another file is named.

## Inventory

| Component | State | Operations | Talks to |
|---|---|---|---|
| OIDCClient reconciler (`internal/controller`) | none of its own between passes; in a pass, its in-memory copy of the CR, the credentials in hand, the listing | `Reconcile`, `reconcileNormal`, `registerOrAdopt`, `upsertSecret`, `secretAdoptable`, `secretCredentialsOK`, `reconcileDelete`, `applySecretTemplate` | API server through a cache and past it, tsidp over HTTP |
| tsidp client (`internal/tsidp/client.go`) | none | `Discovery`, `Register`, `ListClients`, `GetClient`, `DeleteClient`, `UpdateClient` | tsidp |
| tsidp's registry (`tsidpfake`) | the registrations: id, name, redirect URIs | the handlers behind these calls; its own UI; loss of its volume | |
| Manager wiring (`cmd/main.go`) | informer caches, workqueue | label-scoped Secret informer, resync, 30 s HTTP timeout, one replica | |
| API server and informers (outside `src`) | CRs, Secrets, their resourceVersions | optimistic concurrency, delete with a UID precondition, watch, garbage collection | |
| API types and CRD (`api/v1alpha1`) | spec, status, Ready condition | validation | |
| Secret template (499-571) | labels, annotations, data keys and the record of the managed ones | apply, remove what is no longer wanted | |
| Normalization of names and URIs (`client.go` 192-233, 89-99, 217-223, `sameStringSet` 596-604, the CRD's rules in `oidcclient_types.go` 59-68) | none | check, trim, drop blanks, compare as multisets | |
| tsidp version pin (`hack/`, `versions.yaml`) | the compatibility matrix | upsert of a row, stamp of a tested date | |
| Chart, images, e2e, CI, generated code | no state of the operator | | |

How they interact: the workqueue hands the one worker the key of a CR; the
worker reads the CR from the cache, then calls in turn the API server (cached
and uncached) and tsidp, and ends in a status update. Watch events on CRs and on
Secrets owned by them put keys back, as do the resync, the 30 s and 1 s requeues
and the backoff.

What is hard here:

- *Concurrency and staleness.* Users edit, delete and rename in the middle of a
  pass; the cache shows a CR or Secret that is one write old; another CR or a
  stranger takes the Secret's name between the vetting and the write.
- *Failure.* A crash between any two calls; a call that fails before it took
  effect, or after; a request that takes effect after it was given up; tsidp
  losing its state.
- *Ordering.* Register, write the Secret, record the id: the pass may end after
  each of them. On deletion: deregister, remove the finalizer.
- *Time.* Passes that end after one step and rely on the requeue.

What makes each component correct:

- reconciler — what is Ready is coherent in all three stores; at most one
  registration per CR; working credentials are revoked only by policy; foreign
  Secrets and registrations are never touched; after a deletion nothing is left;
  it settles when the world does;
- client and registry — an error may mean either outcome, a 404 on DELETE is
  success, `/edit` answers 200 to a form it refuses, so the outcome is read back;
- informers — nothing decided from a cached read may be irreversible;
- template — re-applying it changes nothing, a key goes when the template drops
  it and not when others put it, and no template hides the Secret;
- normalization — four places check, trim or compare a URI in their own way, and
  what one lets through the next must not trip over.

`PROJECT.json` lists every component with what is and is not modelled of it, and
the hazards line by line with the properties that cover them.

## Modules

    Informer    Tsidp
         \       /
    OIDCClientController        the worker, one action per remote call
            |
    OIDCClientSystem            users, watch, GC, tsidp, restarts: Init, Next, Spec
            |
    OIDCClientProperties        what must hold, and the fairness
     /     |      \
    MC     |    OIDCClientTypes -- OIDCClientSafety      (TLAPS)
   (TLC)   |                        |-- OIDCClientDeletion -- OIDCClientLedger
           |                        |-- OIDCClientCoherence
           |                        `-- OIDCClientDecisions
    CredentialLedger            the abstract specification

    SecretTemplate              the content of one Secret
       MCTemplate (TLC)         SecretTemplateProofs (TLAPS)

    RedirectURIs                name and URIs of one client
       MCRedirectURIs (TLC)     RedirectURIsProofs (TLAPS)

The first tree treats the content of a Secret and of a client as one value, the
config it was written from; the other two open that value up, each with passes
as simple as its question allows.

**Informer** — one Kubernetes object as the operator sees it: a sequence of
versions, the first being what the cache holds, the last what the API server
stores, the rest what the watch has still to deliver. `r.Get` is `Cached`,
`r.APIReader.Get` is `Stored`; a write appends and is accepted only if the
version it was computed from is the last; a new process lists first (`Relist`).

**Tsidp** — the registry as a set of records `id, fp, by, cfg`. `fp` is the CR
whose fingerprint the client's name carries, `cfg` the display name and redirect
URIs, which is all the read API shows; `by` is history, the CR the registration
was made for, and no action reads it. `Edited` ignores a form that `/edit`
refuses (`EditRejected`): `/edit` and `/register` do not accept the same URIs,
and the gap that RedirectURIs shows, CRs stored before the CRD had those rules,
or a tsidp ahead of them bring such configs about.

**OIDCClientController** — the reconcile as a process. `w.pc` names the remote
call that comes next, and the decision the code takes on the answer belongs to
the same step; between two steps anything else may happen. `w.oc` is the
in-memory CR that the pass changes and finally writes as status, `w.fresh`
whether its resourceVersion is still the stored one, `w.pinned` whether the old
Secret is still the object that was read (the UID precondition), `w.doomed` the
ids left to delete, `w.creds` the credentials in hand.

| Code | Steps |
|---|---|
| `Reconcile` 120-150 | `StartReconcile`, `AddFinalizer`, `UpdateStatus` |
| `reconcileNormal` 206-290: SpecInvalid, discovery, rename, registration | `Begin`, `Discover`, `VetRename`, `ReadOldSecret`, `DeleteOldSecret` |
| `registerOrAdopt`, `secretAdoptable` 383-476 | `VetTarget`, `ListClients`, `BurnOrphan`, `Register`, `WriteSecret` |
| `reconcileNormal` 290-372: loss, drift, upsert; `markReady` 374-381 | `GetClient`, `ReadSecret`, `BurnClient`, `EditClient`, `VerifyEdit`, `SyncSecret` |
| `upsertSecret` 478-497 | `Upsert` (in `WriteSecret`, `SyncSecret`) |
| `reconcileDelete` 152-204 | `BeginDelete`, `Deregister`, `ListForCleanup`, `SweepOne`, `RemoveFinalizer` |

Every call has its error outcomes: nothing happened, or it happened and the
answer was lost. An error return and the condition it sets are one step
(`Fail`); a pass ends by making its key due again (`Retry`), which stands for
resync, requeue and backoff alike.

**OIDCClientSystem** — everyone else: users create, edit, delete and force the
deletion of CRs; others delete, squat, scrub (credentials removed) and unlabel
Secrets; the garbage collector; the watch, which delivers one version at a time
and enqueues the owners before and after it, through the label selector; tsidp's
own UI, loss of its state, and requests that land late; restarts.

Trouble is a *kind* in the constant `Faults` and happens at most `MaxFaults`
times: `crash`, `tsidp` (a failed call), `kube` (the same for the API server),
`delete`, `squat`, `scrub`, `unlabel`, `loss`, `late`, `adminEdit`, `force`.
Each run names the kinds it is about. Conflicts, `AlreadyExists` and stale reads
are not faults: they happen whenever the histories say so.

A request the worker gives up (`GiveUp`, the 30 s timeout of `cmd/main.go` 57) is
kept in `late` and may reach tsidp at any later time, or never: a registration, a
DELETE or an edit (`LateAnswer`).

**OIDCClientProperties** — the properties, over stored state only, and
`ImplementsLedger`.

**CredentialLedger** — what the operator promises about credentials, without
calls, caches or passes: for each CR the registrations that live, the ids whose
credentials its Secrets hold, the id its status records, what a pass under way
holds, and whether the CR is gone. `Issue` needs that nothing lives, `Record`
that the id was seen published, `Forget` that the registration is no more,
`Leave` that nothing lives unless the policy is Orphan; each is a step by itself,
so every interruption of the real passes must fall on one of these states. tsidp
may lose everything (`Lose`). The refinement mapping (`Ledger` in
OIDCClientProperties) takes `live` from the fingerprints in the registry
(`LiveIds`), `published` from the Secrets the CR owns (`PublishedIds`), `recorded`
from the stored status (`RecordedId`), `inHand` and `known` from the worker
(`InHandId`, `KnownId`).

**SecretTemplate** — one Secret, its template and the others who write its
metadata and data. A map of the Kubernetes API is a function with `Absent` for a
key it does not have. `applySecretTemplate`, `Record`, `Managed` and
`setSecretMetadata` are the code's functions, `Mutated` the closure that
`CreateOrUpdate` runs, in its order: template first, then the managed label, then
the data. `Read` and `Write` are the two ends of `CreateOrUpdate`, with edits,
deletions and crashes in between. `last` and `ours` are history: what the last
stored template named, and which keys hold what the operator put there.

**RedirectURIs** — one client's name and URIs on their way from admission
(`Admitted`) through the operator's check (`SpecInvalid`) to `/register`, which
stores what it gets, or `UpdateClient` and `/edit`, which both trim, and back
into the two comparisons (`Drift`, `Converged`). A string is a text with white
space before it, after it, or not at all; texts differ in what the checks look
at, and `Dotted` are those on which the two lowerings part. A list is a multiset, since both comparisons sort first. `Post` and `Verify`
are two steps: admins, lost clients and failed calls fit in between.

**MC**, **MCTemplate**, **MCRedirectURIs** — instances for TLC. In MC, the specs
of a run differ in the fields the run is about: `MixedSpecs` has one for each
update policy, both Secret names, both deletion policies and a malformed config;
`DefaultSpecs` varies config and name under the defaults; `HardSpecs` has the
config that `/edit` refuses.

## Runs

Passing runs:

| Run | Question | Checks |
|---|---|---|
| `crash` | two of {crash, failed tsidp call, failed API call}, anywhere, while the spec goes through all policies and names | `TypeOK`, `CredentialsCoherent`, `AtMostOneRegistration` |
| `finalizer` | the CR is deleted at any point, with two of {crash, failures, deleted Secret, lost tsidp state} | `NoLeak`, `ImplementsLedger` |
| `tamper` | one act of others, of eight kinds, at any point, late requests among them | `ForeignSecretsUntouched`, `OnlyOwnRegistrationsDeleted`, `CredentialsRotateByPolicy` |
| `neighbours` | two CRs that may name one Secret | `CredentialsCoherent`, `CollisionRegistersNothing`, `OnlyOwnRegistrationsDeleted` |
| `liveness` | edits and one trouble, then quiet, under all three policies | `Converges`, `DeletionCompletes` |
| `template` | four edits of the template, the Secret's labels, annotations and data, its deletion or crashes, in any order with the passes | `TypeOK`, `RecordCovers`, `StaysVisible`, `NothingLingers`, `ForeignKept`, `ContentConverges` |
| `redirect_uris` | three of {spec edit, admin's edit, lost client, failed call}, with texts of every kind under every policy | `TypeOK`, `ReadyIsStable`, `RefusalsAreUnmirrored`, `UpdateFailureIsExplained`, `Settles` |

What they show. *CredentialsCoherent*: a CR that is Ready in its current
generation with an id on record has a registration that matches its spec and a
Secret, its own, with those credentials; through crashes, lost answers and stale
caches. *AtMostOneRegistration*: no interrupted pass leads to a second
registration. *NoLeak*: a CR that is gone under Deregister has left nothing in
tsidp. *ForeignSecretsUntouched*, *OnlyOwnRegistrationsDeleted*: whatever the
worker believes when it writes, it changes only what is its CR's own, and so does
a request of it that takes effect after it was given up.
*CredentialsRotateByPolicy*: a registration whose credentials are in the Secret
is removed only by a drift under Recreate or by a deletion, and edited only by a
drift under InPlace; its mutant, the credentials read from the cache (317),
burns the registration just made. *CollisionRegistersNothing*: a CR registers
only while its Secret's name is free or its own, at the call and not only when
the name was vetted two calls before, although the other CR comes, goes and lets
the garbage collector free the name. The wider statement that a CR without the
name *has* nothing in tsidp is refuted by `collision`. *ImplementsLedger*: every step of
the system, with two troubles anywhere, is a step of the ledger or a stutter; a
pass that recorded the id before it wrote the Secret (its mutant) is not.

*RecordCovers*: what the operator put on the Secret is in the record that it
keeps there, so that another process can remove it; *NothingLingers*: it does, in
the first write after the template dropped the key; *ForeignKept*: that write
takes nothing that others put there, except under a key that the last stored
template named, nor undoes an edit it has not seen;
*StaysVisible*: a template that names the managed-by label, or drops it, cannot
hide the Secret from the label-scoped informer; *ContentConverges*: in the end
one more pass would write nothing. That matters because the Secret is owned: an
upsert that did not reproduce its own result would cause an event, a pass and a
write for ever.

*ReadyIsStable*: what a pass calls Ready shows the next one no drift;
*RefusalsAreUnmirrored*, *UpdateFailureIsExplained*: what gets registered and
`/edit` would refuse later comes through one gap only. The CRD lowers a URI with
`lowerAscii`, tsidp's `/edit` with `strings.ToLower`, which also makes an `i` of
U+0130; so `f` U+0130 `le:x` is admitted and registered, and refused by `/edit`.
An update in place fails for such a URI, for a failed call or another hand, and
for nothing else; mutants drop `lowerAscii` or look only inside the texts.
*Settles*: with the others quiet, the passes end alike, in that gap with
`InPlaceUpdateFailed` and the client as it was. The comment at
`oidcclient_types.go` 63 denies the gap; `unmirrored`, below, refutes it.

Runs that TLC refutes, each a finding:

| Run | What happens |
|---|---|
| `unmirrored` | a spec under InPlace is edited to a URI with U+0130 in a refused scheme: admitted, refused by `/edit`, and every later pass ends in `InPlaceUpdateFailed`; the comment at `oidcclient_types.go` 63 says that the CRD mirrors `/edit` "exactly" so that this cannot happen |
| `stale_secret` | `spec.secretName` is edited between the write of the Secret and the first status update; that update conflicts, the old name is never recorded, and the old Secret outlives the rename |
| `collision` | a Secret takes the name after the vetting (412) and before the write: the registration just made stays in tsidp and later passes stop at the vetting; without any stranger, an edit of `spec.secretName` to another CR's name that overtakes the status update of the pass has the same effect |
| `stale_cache` | a pass that starts from a CR one write old registers anew, its status update conflicts, the stored status keeps a dead id; deletion takes the 404 on it for success and never searches by fingerprint |
| `unlabelled` | without its managed-by label the Secret is invisible to the cached client, Create is refused in every pass, and neither label nor content ever converges |

A smaller disagreement has no run: 303, 329 and 356 clear `status.clientId` and
leave the condition, so until the next pass a CR is Ready=True without a
registration, while `oidcclient_types.go` 146 says "True when registered and the
Secret is in sync". That is why *CredentialsCoherent* speaks of CRs with an id on
record.

### Bounds, and why they are enough

- `CR`: one, or two in `neighbours`. CRs meet only in Secret names and in the
  registry; two suffice for each pair of roles.
- `SecretName`: two, for a rename. `Config`: two that are legal, one that `/edit`
  refuses, one with a malformed URI.
- `MaxLag = 1`: one undelivered version of each object. While an object has one,
  further writes to it wait, the worker's too. A pass that starts from a stale CR
  or Secret needs one; more would only make it staler.
- `MaxGen`: generations of a CR; 2 puts one edit at any point of any pass.
- `MaxFaults`: 2 where faults compound (a crash in the recovery from a crash),
  1 where each kind is to be tried anywhere, 0 where concurrency alone is the
  subject.
- `MaxId`: ids in use at one time. tsidp draws ids at random and never twice; an
  id that no registration, status version, Secret version or worker mentions is
  used again. Register would wait if none were free; `FreeIds # {}` was found
  invariant on the instances of the five passing runs, so it never does.
- `PromptWatch`: TRUE says that when a pass starts, the cache has the last write
  to its CR. `finalizer` assumes it; `stale_cache` is the same property without
  the assumption, and fails. Every other run is without it.

- `template`: one label, annotation and data key beside the operator's own, since
  keys are treated one by one and meet only in the record; five templates (none,
  a label, another value of it, an annotation, the operator's own keys). Four
  edits let a template set a key, another drop it, and others write before,
  between and after. One upsert at a time, as there is one worker.
- `redirect_uris`: one text for each way the checks part (accepted, white space
  inside, refused scheme in small letters, in capitals and with U+0130, no colon,
  empty), white space before or after, lists of one and two, with a duplicate. Three changes let
  an admin undo what an interrupted update did.

The passing runs have between 150 000 and 1 130 000 distinct states and take
seconds to three minutes. Deadlock is checked in every run: `Quiescent` is the
only step that changes nothing by intent, with the queue empty and the watches
drained; in `template` and `redirect_uris` there is always another resync.

### Fairness

`FairSpec` asks for weak fairness of the worker's steps (one goroutine that
every call returns to, at the latest by the 30 s timeout); strong fairness of
`StartReconcile(u)` (the workqueue is first in first out, and a key comes back
after every pass by resync, requeue or backoff, so none is passed over for
ever); weak fairness of every watch delivery and of the garbage collector. Users,
faults, restarts and late requests have none: they may stop at any time, and by
their bounds they do. So `Converges` says `<>[]`: after the last edit and the last
trouble every CR settles for good — Ready and coherent, or in a condition that
only a user can resolve (malformed spec, name conflict, drift under Block, a
config `/edit` refuses).

In SecretTemplate and RedirectURIs `FairSpec` asks for weak fairness of the
worker's own steps, taken together: every CR is reconciled again after an event,
a requeue or the resync, and a pass ends. A `Write` that conflicts is a step as
well, so nothing is assumed about who wins; edits are bounded, so somebody
eventually does. Users, admins, crashes and failed calls have no fairness.

## Proofs

Assumptions: those on the constants, no more — the bounds are naturals
(`BoundsAssumption`, `MaxLagAssumption`), `PromptWatch` is Boolean, `Specs` is a
nonempty set of well-typed specs (`SpecsAssumption`), `BadConfig` and
`EditRejected` are configs, `None` is neither a CR, a config nor a Secret name.
CRs, Secrets, configs, specs, kinds and number of faults, lag and ids are
arbitrary; the sets may be infinite.

| Theorem | Statement | Inductive invariant |
|---|---|---|
| `TypeCorrect` | `Spec => []TypeOK` | `TypeInv`: the types, and that a worker which is not idle has a CR (`Busy`) |
| `ForeignSecrets` | `Spec => ForeignSecretsUntouched` | `PinInv` |
| `OwnRegistrations` | `Spec => OnlyOwnRegistrationsDeleted` | `OwnInv` |
| `OneRegistration` | without `late` and `adminEdit`: `Spec => []AtMostOneRegistration` | `OneInv` |
| `NothingLeaks` | without `late` and `adminEdit`, under `PromptWatch`: `Spec => []NoLeak` | `LeakInv` |
| `CredentialsRotate` | without `late` and `adminEdit`: `Spec => CredentialsRotateByPolicy` | `DecisionInv`, with `OneInv` |
| `CollisionsRegisterNothing` | without `squat`: `Spec => CollisionRegistersNothing` | `VetInv` |
| `LedgerImplemented` | without `late`, `adminEdit` and `force`, under `PromptWatch`: `Spec => ImplementsLedger` | `LedgerInv`, with `LeakInv`, `OneInv`, `OwnInv` and `PinInv` |
| `ReadyIsCoherent` | without `late`, `adminEdit`, `delete`, `scrub` and `loss` (`Undisturbed`): `Spec => []CredentialsCoherent` | `CohInv` |

and of the two other modules, each with the assumptions stated in it:

| Theorem | Statement | Inductive invariant |
|---|---|---|
| `TemplateTypeCorrect` | `Spec => []TypeOK` | itself |
| `MutatedIdempotent` | the upsert's function reproduces its own result | |
| `TemplateRecordCovers`, `TemplateStaysVisible` | `Spec => []RecordCovers`, `[]StaysVisible` | `IInv`: these, and that a fresh read is what is stored (`ReadInv`) and the record names exactly what the last template did (`RecordExact`) |
| `TemplateNothingLingers`, `TemplateForeignKept` | `Spec => NothingLingers`, `ForeignKept` | the same |
| `URIsTypeCorrect` | `Spec => []TypeOK` | `IInv`, below |
| `NormalizedIdempotent` | normalizing twice is normalizing once | |
| `CleanRefused` | of what the CRD and the operator let through, `/edit` refuses exactly the lists with a `Dotted` URI, and takes the others unchanged | |
| `ReadyStable`, `RefusalsUnmirrored`, `UpdateFailuresExplained` | `Spec => []ReadyIsStable`, `[]RefusalsAreUnmirrored`, `[]UpdateFailureIsExplained` | `IInv`: the client is as `/edit` would leave it (`Kept`), and what a pass knows of it (`PassInv`) |

*ForeignSecrets.* An upsert is safe by itself: it creates only where nothing is
stored, and updates only a version that is both owned and the stored one
(`UpsertOwn`). The deletion of the old Secret is not: ownership was read a call
earlier. `PinInv` says that as long as the UID precondition would pass, the
stored Secret is still the CR's, because nobody gives a Secret another owner but
by removing it first, and that ends the pin.

*OwnRegistrations.* The worker deletes by id, and the ids come from three
places: the status of a possibly stale CR, the listing by fingerprint, the answer
to `/register`. So the invariant has to follow ids: an id names one registration
(`IdsUnique`), a fingerprint is of the CR the registration was made for
(`FingerprintsOwn`), an id in *any version* of a CR, stored or cached, is of that
CR's making (`StatusesOwn`), and so is every id the worker has in hand
(`HandOwn`). None of the four is inductive without the others. With them the
property holds under every kind of trouble.

*OneRegistration.* Between the listing that showed nothing and the request,
nothing else registers under the fingerprint (`OneInv`) — which is why the two
excluded kinds of trouble matter: a given-up request lands in that gap, and an
admin who removes the fingerprint from a name hides the registration from the
listing.

*NothingLeaks.* `LeakInv` says where the registrations of a CR may hide. Stored
(`Kept`): a CR without the finalizer has none, and one whose status records an id
has none but that. In a pass (`Pass`): the pass knows them all, by the id in its
hand, by the credentials it was just told, or by the list it sweeps; and while it
still goes by the status, the stored status has the same id. The last is where
`PromptWatch` is needed: the pass must have started from the stored CR, since the
finalizer trusts an id in the status and searches by fingerprint only when there
is none (165, 173). `stale_cache` shows the leak without it. A status update that
conflicts, a crash or an edit may then come at any point: the pass is over or
outdated, and `Kept` is what remains.

*CredentialsRotate.* A pass decides in one call and deletes in a later one; in
between anybody may write. `DecisionInv` says for each such step what is left of
the decision (`Right`): an id to be burned is of a registration whose credentials
the Secret does not hold, or of one that differs from the spec in hand, under
Recreate. Secrets written meanwhile by others never gain credentials
(`SecretsGoOn`), and a copy of the spec that is outdated keeps the policy it was
read with. What could be undone is the drift: by an admin, or by an edit that
lands after the operator gave it up. The latter takes a third generation (one
edit given up, the spec edited on, and edited back), beyond the two of `tamper`;
attempting the proof showed it, and the theorem excludes both. `OneInv` is cited
only for saying that no given-up request is outstanding.

*CollisionsRegisterNothing.* `VetInv`: from the vetting to the request, the name
stays free or the CR's own. Secrets are created by the one worker only, which is
between these two calls, and owners do not change in place; a stranger (`squat`)
is what breaks it.

*LedgerImplemented.* Each step of the system has to be one step of the ledger or
leave its seven variables as they are, and the guards of the ledger must follow
from what the system knows. Most do from the invariants above: `Issue` needs that
the CR has no registration (`OneInv`, and `LeakInv` for `Forget` and `Leave`).
`LedgerInv` adds three parts. `CRsUnforced`: a CR without the finalizer records no
id, so one that leaves by itself has nothing to forget. `NoStrayCreds`: a Secret
that is gone has no credentials, in no version. `HandInv`: what a pass has in hand
agrees with the stored CR (`InStep`) — its id is the recorded one, or nothing is
recorded, or the recorded one is of a registration that is gone and the pass is
about to forget it; and the id it was told by `/register` is in no Secret yet
(`Unpublished`), not even in the cache. Without the last, the upsert could find
its work done in a cached copy, write nothing, and let the pass record an id that
no stored Secret holds. A forced removal
(`force`) is excluded because it leaves a registration behind without the CR
asking for Orphan, which the ledger's `Leave` does not allow; `stale_cache` shows
why `PromptWatch` is needed. The proof has one lemma per step of the ledger (when
does the mapping take it: `IssueStep`, `PublishStep`, ...), one per step of the
system (`RegisterRefines`, `UpdateStatusRefines`, ...), and `InitRefines`.

*ReadyIsCoherent.* The five excluded kinds of trouble take away what a status
has recorded, and a status cannot follow: between that and the next pass a CR is
Ready and wrong, until the pass repairs it. Without them `CohInv` has four parts. No
version of a CR reports a generation ahead of its own (`Bounded`), so an edit
always ends a claim of being Ready. Credentials are only ever in Secrets of the
CR they were issued for (`CredsOwn`), so no collision of names replaces them.
Whoever claims to be Ready is backed by tsidp and by its Secret, and every version
the caches may still serve has the same spec, and its id or none (`ClaimsTrue`):
this is what makes a stale read of a Ready CR harmless. And what a pass knows
(`Knows`): if its copy is not outdated, that what it will write as status is so
(`Fresh`); if it works on a CR that claims to be Ready, it has nothing to burn,
edit, register or rename, for it must not disturb what an earlier, or a
conflicting, pass has reported (`Careful`). The last is the point of the theorem:
a pass whose own status update is going to fail has written to tsidp and to
Secrets before it fails. TLC finds `CohInv` invariant
on the instance of `crash`, with a cache up to two versions behind.

*The template.* `Overwritten` treats each key alone, so one lemma per key says
what a write makes of it; the history `ours` of a key implies that it is in the
record because the two change together.

*The URIs.* A clean list is its own normalization (no blanks, no padding), so
what is sent, stored and compared is one and the same list; after an admin's
form it is the normalization that is idempotent. The two blocklists differ by
`Dotted` alone (`CleanRefused`), so a form that `/edit` refuses has such a URI,
and leaves the client as it was.

Only model-checked: `CredentialsRotateByPolicy` with late requests among the
troubles (`tamper`, within two generations of the spec); and `Converges`,
`DeletionCompletes`, `ContentConverges` and `Settles`, since liveness under
fairness is out of the prover's reach.

## Approximations

- A CR that is deleted and created again under its name is two CRs, by UID, that
  may share Secret names; the cached read under one name that returns the other
  object is not modelled.
- A UID precondition without a resourceVersion: a Secret whose owner reference
  is replaced in place, without a deletion, is not modelled.
- `CredentialsRotateByPolicy` is checked without edits in tsidp's UI and proved
  without late requests as well (an admin, or an edit given up earlier, may undo a
  drift between the comparison and the burn: tsidp has no conditional delete; the
  late edit takes three generations of the spec), `AtMostOneRegistration` without late requests and such edits.
- In the core the non-credential content of a Secret is one value, the config it
  was written from; `condition.message`, events and the issuer are left out.
- Discovery has no effect but its error; what it describes of the provider is one
  value in SecretTemplate.
- The config is what tsidp's read API shows. Drift in scope, grant types or
  auth method cannot be seen by any pass, as the comment at 333 says.
- The record of a template is a set of keys; that it is sorted before it is
  written (545-546), without which two equal records could differ as texts, is not
  modelled.
- In SecretTemplate nobody but the operator writes the record annotation or the
  managed label (`unlabelled` shows what comes of it), and a cached read that is
  behind is a read that conflicts.
- In RedirectURIs white space is what Go calls so, for the operator and for
  tsidp alike (`unicode.IsSpace`, `strings.TrimSpace`). A pass knows by the registry whether it has a client;
  adoption, status and Secret are the core's subject.
- `ImplementsLedger` is checked and proved under `PromptWatch` and without edits in
  tsidp's UI, late requests and forced removals: with a stale CR a pass registers although the ledger has a
  registration (`stale_cache`).
- Namespaces are left out: the operator never looks across them.

## Not modelled

- The version pin (`hack/sync-tsidp-version.sh`, `versions.yaml`): release tooling, a
  sequential script that a maintainer or one CI job runs on two files of the
  repository; it shares no state with the operator and nothing runs beside it.
- Chart, images, CI, e2e: descriptions of a deployment and test drivers, without
  state of the operator. `replicas: 1` is the model's one worker.
- Generated deepcopy code and scheme registration: no behaviour of their own.
- Flags, probes and metrics of `cmd/main.go`; the list of watched namespaces.

## Plan

Order: the protocol first, since it is where the three stores can diverge; then
the data it writes; then the abstract view.

1. Done: the core (`Informer`, `Tsidp`, `OIDCClientController`, `OIDCClientSystem`,
   `OIDCClientProperties`) with requests of every kind that land late; nine runs;
   `OIDCClientTypes`, `OIDCClientSafety`, `OIDCClientDeletion`, `OIDCClientCoherence`,
   `OIDCClientDecisions` with eight theorems.
2. Done: `SecretTemplate` and `RedirectURIs`, each with a run and its theorems.
3. Done: `CredentialLedger`, implemented by the system: checked on the instance of
   `finalizer`, and proved in `OIDCClientLedger`.
4. Open: every safety property that a run checks is proved. What is left is to say
   what still holds under the kinds of trouble that a theorem excludes: after a
   late registration or an edit in tsidp's UI, how many registrations there may be
   and which of them the next pass finds; after a Secret is deleted or scrubbed,
   which part of `CredentialsCoherent` stays.
