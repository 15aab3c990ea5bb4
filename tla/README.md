# SPIRE Controller Manager: TLA+ models and proofs

SPIRE Controller Manager keeps the registration entries, the federation
relationships and a webhook certificate of a SPIRE server in line with custom
resources and pods of a Kubernetes cluster. This directory holds TLA+ models of
its core, TLC configurations that check them on small instances, and TLAPS
proofs that hold for all values of the constants.

    tlc -config EntryCached.cfg MCEntryReconciler
    tlapm EntryCacheProofs.tla

## The system

| Part | Code | State | Changed by | Model |
| --- | --- | --- | --- | --- |
| Reconcile loop | `pkg/reconciler` | trigger channel, GC timer | `Trigger`, `Run` | `ReconcileLoop` |
| Controllers | `internal/controller` | work queues (controller-runtime) | watch events | `ReconcileLoop` |
| Entry reconciler | `pkg/spireentry/reconciler.go`, `by.go` | unsupported fields, probe time, plan, next statuses | `reconcile` | `EntryReconciler` |
| Entry list cache | `pkg/spireentry/entry_list_cache.go` | entries, reload time, filter key | `reconcile` only (one goroutine, no lock) | `EntryReconciler` |
| Preference, ownership, comparison, conversion | `objectCmp`, `shouldProcessOrDeleteEntryID`, `getOutdatedEntryFields`, `entryToAPI` | none | | `EntryRules` |
| Entry API client | `pkg/spireapi/entryapi.go`, `batch.go` | none; batches, pages and probe | each call | `EntryReconciler`, `EntryListing` |
| Rendering and render cache | `addClusterSPIFFEIDEntriesState`, `renderPodEntry`, `cachedEntry` | LRU by pod UID | `reconcile` | `PodRendering`, `RenderCache` |
| Federation reconciler | `pkg/spirefederationrelationship` | none between reconciles | `reconcile` | `FederationReconciler` |
| Webhook manager | `pkg/webhookmanager` | certificate times, CA bundle, DNS names (mutex) | three timers, informer events | `WebhookManager` |
| Start-up, connection | `cmd/main.go`, `pkg/spireapi/client.go` | what has been acquired | start, signals | `Startup` |
| Metrics, logging, generated code, demo | | | | not modelled |

What crosses the process boundary: Kubernetes reads through informers and
status writes that carry a resource version; gRPC calls to SPIRE server, which
may fail before or after they are carried out. The process keeps nothing on
disk that reconciling depends on, so a restart loses the cache, the plan and the
unsupported fields.

## Modules

- `EntryRules`: constant-level rules. An entry is a *key* (SPIFFE ID, parent ID
  and selectors, as hashed by `makeEntryKey`) and a value for every other field.
- `EntryReconciler`: one reconcile, step by step, beside the SPIRE server, the
  custom resources, the pods and other clients.
- `SharedServer`: what the entry reconciler promises to the other clients of the
  SPIRE server, without caches, lists, batches and failures. `EntryReconciler`
  implements it (`SharesServer`).
- `ReconcileLoop`: `Run`, `Trigger` and the controllers. A resource is a version
  number; a trigger is delivered only while `Run` is parked.
- `EntryListing`: `ListEntries` page by page and hint by hint. `EntryReconciler`
  takes a list as one step; this module says what such a list may contain. A list
  is a set of rows, and rows are numbered in the order they were created in, so that
  a page is the oldest rows after its token; the lists of the hints are joined in any
  order of the hints.
- `PodRendering`: the rendering loop without a cache, beside pods, nodes and
  Endpoints that change. An object is its resource version.
- `RenderCache`: extends `PodRendering` with the LRU cache of rendered entries. It
  implements the rendering from the same lists by some spec with the same hash
  (`RendersFromLists`), but not `UncachedSpec`, the rendering without a cache.
- `FederationReconciler`: one reconcile of federation relationships.
- `WebhookManager`: `Init` and `Start` beside SPIRE server, the API server and
  the informer.
- `Startup`: `parseConfig`, `run` and `staticRun`.
- `MC...`: values for the constants of the module they are named after.
- `EntryReconcilerProofs` (rules, types, entries of others), `EntryCacheProofs` (cache,
  statuses), `EntryOwnershipProofs` (keys, what may be deleted, `SharedServer`),
  `EntryListingProofs`, `RenderCacheProofs`, `FederationProofs`, `WebhookProofs`,
  `ProcessProofs` (`Startup`, `ReconcileLoop`): theorems and proofs.

### EntryReconciler and the code

`pc` is the next step of `reconcile`; each remote call and each list is a step,
so that users, pods and other clients get in between.

| Action | Code |
| --- | --- |
| `StartReconcile` | entry of `reconcile`, test of `nextGetUnsupportedFields` |
| `ProbeCreate`, `ProbeCreateFails`, `ProbeDelete` | `recalculateUnsupportFields`, `GetUnsupportedFields` |
| `ListClusterStaticEntries`, `ListClusterSPIFFEIDs` | the two lists, with `reconcileClass` |
| `ListEntries` | `listEntries`: the cache while fresh, else server and `replace` |
| `ListFails` | the early returns of `reconcile` |
| `Plan` | entry states, preference, borrowed IDs, join token filter, cleanup |
| `DeleteEntries`, `CreateEntries`, `UpdateEntries` | one batch; after the last batch the loop over the statuses |
| `...Fails` | an RPC error after part of the batch was carried out |
| `UpdateStatuses` | the two loops that write statuses |
| `Crash` | the process dies and is started again |
| `CacheExpires`, `ProbeExpires` | reload interval, ten minutes |
| `ChangeObject`, `ChangePods`, `ChangeServer`, `UpgradeServer` | the outside |

`stable` is a history variable: the pairs of object and key that have been declared
since the reconcile began. `Plan` takes out of it the pairs that were lost to a
failed list or rendering, which the code treats as undeclared; `TypeOK` leaves the
types of `status` and `next` to `StatusCoherent` and `FailuresWithinPlan`.

`moved` is a history variable as well. Another client may create, delete and change
entries, and a change may give an ID another key, also that of another entry, as
`BatchUpdateEntry` of SPIRE server can. The keys such a change takes from an ID or
gives to one are in `moved` until the entries are listed from the server again, when
only the keys stay that two entries have. Until then the reconciler works with a key
and an ID that do not belong together any more: it may write the old key back or delete
the entry. The properties about keys and deletions except the keys in `moved`, and
nothing else; `SharedServer` says what may happen to them (`Restore`, `Withdraw`).

Abstractions: templates are the keys an object renders; a list or rendering that
fails is a set of lost pairs; IDs from `uuid.New()` are fresh; the order of a
batch is free, as the plan is built by ranging over a map; statuses are written
in one step, each of which may fail. The server is modelled as the code uses it:
it rejects a second entry with the same key, drops fields it does not support,
and filters by hint.

### The other modules and the code

| Module | Actions | Code |
| --- | --- | --- |
| `PodRendering` | `StartReconcile` | lists of ClusterSPIFFEIDs and nodes |
| | `SelectPods`, `SkipSpec` | parsing, lists of namespaces and pods, and the `continue`s |
| | `SkipFallback`, `RenderPod`, `RenderFails` | the loop over pods |
| `RenderCache` | `RenderCached` = `Hit` or `Miss` | `renderPodEntry` with `isValid`, `Get`, `Add` |
| | `Touch` | the promotion by `Get` that stays when the slot is not valid and rendering fails |
| | `Unrendered` | all other steps; a spec that cannot be hashed is skipped |
| `FederationReconciler` | `listFederationRelationships`, `listClusterFederatedTrustDomains`, `ListFails` | the two lists, sort, conflicts, early returns |
| | `CallBatch`, `CallFails`, `CallReturns` | delete, create, update, in this order, in batches |
| | `BatchUnsent` | a batch with a bundle that `bundleToAPI` cannot convert |
| | `RefreshBundle`, `ChangeServer`, `ChangeObject`, `Crash` | the outside |
| `WebhookManager` | `InitRefresh`, `InitGet`, `InitMint`, `InitPatch`, `InitFails` | `Init` |
| | `SVIDTimer...`, `BundleTimer...`, `WebhookTimerUpdates`, `WebhookChanged` | the cases of the select in `Start` |
| | `MintWaits`/`MintReturns`, `RefreshWaits`/`RefreshReturns` | a call that waits for SPIRE server |
| | `InformerUpdates` | the informer and its channel of one value |
| | `Tick`, `GoDown`, `Prepare`, `Activate`, `Prune`, `ChangeConfig`, `Crash` | time, SPIRE server, other writers |
| `Startup` | `Main`, `Enter`, `MakeCertDir`, `InitWebhook`, `NewManager`, `Setup`, `Start` | `main`, `run` |
| | `Dial`, `ReadFiles`, `WorkloadAPIAnswers`, `WaitGivenUp`, `Connect` | `dialSPIREServer`, `DialMTLS`, `getMTLSCredentials` |
| | `Spawn`, `Wait`, `ReconcilerReturns` | `staticRun` |
| | `Return`, `RemoveFails` | the calls in `deferred`, which grows where the code has a `defer` |
| `EntryListing` | `ListPage`, `PageFails`, `Return` | `listEntries`, `ListEntries` |

A ClusterFederatedTrustDomain keeps its URL, profile, endpoint ID, bundle, class,
creation time and UID; a URL is what `ValidateBundleEndpointURL` asks of it. A
parsed template is its parse tree and the bodies it defines; with its data it gives one
text or an error. A hash stands for what `json.Marshal` writes of a parsed spec, which
has the trees and not the bodies. In `WebhookManager` there is no clock: a tick lowers
the timers and the time left to the certificate. An outage is a time in which no key
pair can be had, because SPIRE server does not sign or the file cannot be written. A
page of `EntryListing` that leaves nothing may come with a token or without one.

## Runs

| Run | Result | Shows |
| --- | --- | --- |
| `EntryCached` | passes | cache mirrors server, keys that nobody moved identify entries, statuses coherent, no declared entry deleted |
| `EntryConverges` | passes | the server comes to hold the declared state, with a cleanup prefix, an unsupported field and a TTL with a fraction of a second; updates stop but for that TTL, probe entry goes, statuses settle, foreign entries are untouched |
| `EntryUnprefixed` | passes | without a prefix deletions spare join token and declared entries; `SharedServer` is implemented |
| `LoopRuns` | passes | `Run` never waits without a timer, sees all changes, returns when cancelled |
| `FederationRuns` | passes | relationships come to be the declared ones, after one reconcile if nothing disturbs it; writing ceases, declared and settled ones are left alone |
| `RenderCached` | passes | what is declared is rendered from the lists, up to the hash of the spec; one slot per pod, the most recently used ones kept |
| `WebhookRuns` | passes | the certificate stays valid, the webhooks get back into service, patches cease and touch bundles only |
| `StartupRuns` | passes | what is acquired is released by what is deferred, static mode keeps away from Kubernetes, a signal ends the process |
| `ListingRuns` | passes | a list that is returned is complete, and has no ID twice when it is filtered |
| `EntryHintFilter` | violated | changing a hint makes the entry invisible for ever (README.md:49-51) |
| `EntryStatusSet` | violated | `status.set` is false from the second reconcile on (docs/clusterstaticentry-crd.md:32) |
| `RenderStale` | violated | an entry is served from the cache although a `{{define}}` of its template has changed (pkg/spireentry/reconciler.go:183-184) |

A violated run states what the documentation or a comment says and shows a behaviour
of the code that does otherwise. In one case it is a passing run that disagrees:
README.md:91-100 says that fields the server does not retain are reconciled over and
over; the probe takes them out of the comparison, and `Quiesces` of `EntryConverges`,
with a server that lacks the hint, shows that updates stop. `PROJECT.json` quotes the
lines.

### Bounds

One ClusterStaticEntry and one ClusterSPIFFEID compete for a key (one masks the
other), or two ClusterSPIFFEIDs of which one is a fallback; one pod; two to four
own IDs. `BatchSize = 1` makes every plan of two entries a call of two batches,
so that a call can fail in between. `MaxChanges = 2` lets an object or another
client change something during a reconcile and once more, and another client re-key
an entry; in `EntryConverges` the own prefix `scm.eu.` begins with the one to clean up,
`scm.`, and one foreign ID has neither. `MaxFaults = 1` puts a
failed call, a partly executed call or a crash at any place; in `EntryCached`,
`EntryUnprefixed` and `EntryConverges` the lists may lack pods (`PartialListing`).
Durations count half seconds (`Second = 2`) and an int32 is 4 bits, so that truncation
occurs; TTLs that wrap are left to `ConversionIdempotent`, which covers every value.
`LoopRuns` has four kinds (pods, pods of ignored namespaces, ClusterSPIFFEIDs,
nodes, which nobody watches), one change of each and one failed reconcile; a
change can come before, during and after the list. IDs are symmetric in the
safety runs only.

- `FederationRuns`: two objects of one age, which may declare one trust domain, and
  of which one may be invalid, of another class, move, or have a bundle that cannot be
  sent; relationships with an unknown profile or bundle on the server; objects from
  Kubernetes and from files; one change, one fault.
- `RenderCached`, `RenderStale`: three pods and two slots, so that entries are evicted;
  the third pod is on a node that may come later; two of five specs differ only in what
  is not hashed, one cannot be hashed, one cannot be parsed; one template fails on some
  data; two writes of objects.
- `WebhookRuns`: two authorities, two webhooks, two services; the margin is as
  short as `MarginAssumption` lets it be.
- `StartupRuns`: every combination of what `parseConfig` relates, every single
  setting that is wrong by itself.
- `ListingRuns`: three entries and room for a fourth, pages of one, two hints, two
  writes, one failed call: an entry can change its hint between two lists.

`StartupRuns` and `ListingRuns` end in states without a successor, the end of the
process and of the call, so deadlock is not checked there.

### Fairness

`EntryReconciler!FairSpec`: the reconcile goroutine takes its steps, and the reload
interval and the probe interval pass. That reconcile is called again and again is
what `KeepsReconciling` shows of the loop. Nothing is assumed of users, pods, other
clients or failures. `ReconcileLoop!FairSpec`: goroutines run, informers deliver,
the timer fires; strong fairness of the case for the done context, because a Go
select chooses at random among ready cases. `FederationReconciler!FairSpec`:
reconcile takes its steps that do not fail. `WebhookManager!FairSpec`: `Init` and the
loop take their steps, the informer delivers, time passes. `Startup!FairSpec`: the
process takes its steps; nothing makes a signal arrive, and nothing makes the Workload
API answer: only a signal is sure to end that wait. `EntryListing!FairSpec`: the
goroutines run and calls are answered.

## Proofs

For every value of the constants that satisfies the assumptions of the module:
`RulesAssumption` and `ReconcilerAssumption` (finite keys and IDs, a
ClusterStaticEntry declares at most one key, the cache and the hint filter only with
a prefix, which `parseConfig` enforces, nobody else declares or writes the probe
entry), `RenderingAssumption` (a version of a pod stands for that
pod) and `CacheAssumption` (the cache has room for one entry),
`FederationAssumption`, `UIDAssumption` (no two objects in Kubernetes have one UID),
`RelationshipsAssumption` (no `https_web` relationship of another client has an
endpoint SPIFFE ID, for which the API has no field) and `BoundsAssumption`,
`ConfigAssumption`, `WebhookAssumption` and `MarginAssumption` (an outage, the longest
back-off and the SVID timer fit into the margin), `StartupAssumption` (a prefix is a
text with or without a dot at its end, and "not set" is none of them) and
`ListingAssumption` (the entries the server has at first have different IDs).

The entry reconciler. `Footprints` (in `EntryReconcilerProofs`) says once which
variables each kind of step may change; the proofs of invariants go by these kinds.

- `TypeCorrect`: `TypeOK`, with `StatusesInCall`: statuses are received only for
  the entries of the call that is going on.
- `CacheLags`, `CacheMirrors`: `CacheMirrorsServer` speaks of the cache outside
  calls and is not inductive. `CacheLagsByStatuses` strengthens it: in a call the
  cache is behind the server by exactly the statuses received and not looked at;
  a failed call disarms the cache. One lemma per call, with one case per status.
- `FailuresBounded`, `StatusesCoherent`: `StatusCoherent` is about statuses written at the end.
  `FailuresWithinPlan` bounds the failures counted so far together with the entries
  still to be created or updated by the entries to set. The plan starts within the
  bound because the IDs of an object's entries map one to one to the keys it won
  (`PlanWithin`, by an injection); each call moves entries from one side to the other.
- `KeysIdentified`: server, cache, list and plan agree on the key of each ID, but for
  the keys in `moved`. A list from the server empties `moved` of all keys that one entry
  has, which is sound because list, cache and server are then the same. `KeysInv` adds that only the probe entry has the probe's key and ID, that what is
  planned from is the cache when there is one, and that only IDs with the prefix are
  created or updated.
- `DeletionsUndeclared`, `DeclaredKept`, `JoinTokensKept`: a plan is made from lists
  that are old when it is carried out. `DeletesSpareDeclared` is in two parts: up to
  the plan, what stayed declared is among what was listed; after it, no entry left to
  delete has a key that stayed declared. `KeysIdentify` connects them: the entry whose
  ID a key has borrowed is the only one with that key. `CreatesFresh` adds that what is
  left to create has an ID that nobody else uses, as it comes from `uuid.New()`.
- `OnlyTracked`, `ForeignUntouched`: lists keep only owned IDs, so plans do, so
  writes do.
- `SharedServerImplemented`: with the key of every entry, the phase of the reconcile
  and the keys of `stable` as the refinement mapping (`HeldKeys`, `Phase`, `Claimed`),
  lists of objects and expiries stutter; `Plan` is a `Decide`, a batch of creations a
  `Register` (of new keys, by `KeysIdentify` and the server's check), one of deletions
  a `Withdraw` (by `DeletesSpareDeclared`), one of updates a `Restore`, which changes
  keys only where others have moved them (by `KeysIdentify`), a list from the server a
  `Look`, the probe a `Register` or a `Withdraw`, the last statuses, a failure and a
  crash an `End`. One lemma per group of steps.
- `PreferenceIsTotalOrder`, `ConversionIdempotent`: rules of `EntryRules`.

The other components.

- `LoopWaitsForTimer`: `WaitsForTimer`, of the instance `Loop` of `ReconcileLoop` in
  `ProcessProofs`; strengthened by "the timer was reset when the select is reached".
- `CacheRendersFromLists`: the invariant says that each slot holds what `Render` gives
  for the versions it was stored under, as versions are never reused, for some spec
  with the hash that was stored; a valid slot therefore holds what the lists render with
  such a spec. `CacheImplementsRendering`: when the parse trees of templates determine
  what they define (`TreesIdentify`) the cache implements the rendering without it.
  `RenderStale` shows that the code does not without this hypothesis.
- `CacheOneSlotPerPod`, `CacheKeepsRecentlyUsed`: `RecencyInv` says that the slots in
  front of the last entry of a pod are of pods whose slots were used since its own was,
  also by a rendering that failed. `Get` and `Add` put a
  slot first and leave the others in order (`Reordered`); when the oldest goes, the
  others and the new one are of as many different pods as the cache holds.
- `ListComplete`, `ListUnique`: `ListingInv` says what a goroutine has listed at any
  time: of the entries that nobody wrote, those with its hint up to its token, and
  nothing else with their IDs. A page is the first rows after the token (`PageIsFirst`, from the least
  of the rows that were left out), so a token never passes over a row; rows are only
  added at the end. Of the entries with one ID that the hints found, the first in the
  order of the hints remains (`BeforeTotal`).
- `PrefixesKeptApart`, `ServesWithKeyPair`, `ReturnsWithNothing`,
  `StaticWithoutKubernetes`: `StartInv` says for each place in `run` and `staticRun` what
  `parseConfig` has accepted by then, what is held, what is deferred, and which mode it
  is: whatever is held is in the hands of a deferred call, or of `DialMTLS` before that;
  `DottedDiffer` that prefixes which differ after the dots were appended differ in
  more than a dot.
- `OrderIrrelevant`: with unique UIDs, creation time and UID order the objects
  totally, so that every order of listing yields the same declarations.
- `FederationKeepsDeclared`, `FederationSparesSettled`: neither is inductive. The
  invariant relates the copies to the world they were listed from: a trust domain
  declared throughout is in `declared` once that is listed, so it is not in
  `ToDelete`; a settled one has a current relationship of the same parties, so it is
  not in `ToUpdate`, whatever bundle the server has fetched.
- `FederationSettlesAtOnce`: the safety half of `Converges`, without fairness. `quiet`
  is a history variable: no call has failed, no bundle could not be sent and nothing has
  changed since the reconcile began, the bundles that the server fetches apart. `QuietInv` says that in a
  quiet reconcile the trust domains dealt with are like `declared` and the others like
  `current`, but for the bundle; what no call has to deal with is `Equal`, hence alike
  (`EqualAlike`), which needs that `https_web` relationships have no endpoint
  (`PlainInv`). `FirstOldest` turns the first object of the sorted list into the oldest.
- `MarginWithinLifetime`: `Margin(l)` lies between 0 and `l` for every lifetime, so
  that an expired certificate expires soon and a new one does not.
- `WebhookCertificateValid`: the time to expiry is bounded below by the margin less
  what has been spent on the outage and on the timer; from `MarginAssumption`.
- `WebhookKeepsOthersWrites`: a patch carries nothing but bundles, by name.

Only model-checked: liveness, as `<>[]`, `~>` and fairness are out of the prover's
reach: `Converges` and `Quiesces` (of entries and relationships), `ProbeEntryCleaned`,
`StatusSettles`, `KeepsReconciling`, `ChangesReconciled`, `CancelReturns`,
`BackInService`, `PatchesCease`, `Stops` and `ListReturns`. Every invariant, action
property and refinement that a passing run checks is proved.

## Not modelled, and limits

- Manifests that tie in creation time and UID are taken in the order of the directory,
  as `sort.Slice` leaves them while it sorts by insertion (up to twelve objects).
- Lists in `EntryReconciler` read the current state of the cluster; informer lag
  is in `ReconcileLoop` only.
- `DeclaredEntriesKept` is about an object that declares an entry throughout a
  reconcile, in which its pods are listed and rendered. A key handed from a
  ClusterSPIFFEID to a ClusterStaticEntry between the two lists is deleted and created
  again.
- One controller manager; others are among the clients that create, change, re-key and
  delete entries, and `SharedServer` says what they may rely on. Other clients do not
  choose an ID that `uuid.New()` has given to an entry about to be created. Two managers
  without prefixes, or with prefixes of which one begins with the other, own the same
  entries; nothing keeps these apart. Leader election is a step of the start-up.
- A trigger that comes while `Run` is busy is dropped, so that a change may wait
  for the GC interval; `ChangesReconciled` says that it does not wait for ever. An
  entry with a fraction of a second in a TTL is updated after every list from the
  server, because the comparison is with the declared duration; `Quiesces` excepts it.
- When namespaces or pods cannot be listed, or an entry cannot be rendered, the
  entries of those pods are deleted until the next reconcile (`PartialListing`;
  README.md:49-51 does not say so), and a fallback is applied to a pod whose other
  match could not be rendered (docs/clusterspiffeid-crd.md:30 speaks of matches).
- With the empty cleanup prefix join token entries are deleted: the deletions of the
  cleanup are added after they have been filtered out (CHANGELOG.md:113 says they
  are ignored). `JoinTokenEntriesKept` therefore leaves out IDs with the cleanup
  prefix.
- A changed bundle in a ClusterFederatedTrustDomain does not reach a server that has
  the relationship: `Equal` does not look at bundles. `Converges` speaks of URL and
  profile.
- A relationship that cannot be read, or a manifest that cannot be decoded, stops the
  federation reconciler as long as it is there, and a declared bundle that cannot be
  converted for the API keeps its batch and the later ones from being sent; `Converges`
  assumes that all these go (`Unhindered`).
- A spec with a number in a template cannot be hashed, because its parse tree has a
  complex number, which JSON does not; with the cache on it is skipped as if its pods
  could not be listed. No property is about that.
- `PodRendering` has one namespace. Counts of namespaces and pods are left out.
- `WebhookManager`: the loop and the informer answer within a tick, calls take no time
  but in an outage, and there is one outage per certificate, short enough for
  `MarginAssumption`. When no key pair can be minted or written for longer than the
  margin the certificate runs out. A process that starts in an outage gets through the
  refresh of the bundle only after it: where it could before, it would fail at the mint
  and be started again.
- `Startup`: the nil Kubernetes client of static mode is not followed into the
  reconciler; `parseConfig` refuses the settings with which it would be used. In static mode `wg.Wait` comes before `mgr.Start`, so that the health
  checks are not served while the reconcilers run. When `staticRun` returns without an
  error `main` goes on with `run`, where the second `SetupSignalHandler` panics;
  `KubernetesUnused` holds because of that. `GetConfigOrDie` ends the process without
  the deferred calls, so that the directory with the key pair is left, and so does the
  deferred function that cannot remove it; `NothingLeft` is about returns. Without a configuration file `parseConfig` always fails.
- An unfiltered list is not made unique by ID; `IDsOnce` is about filtered ones.
- `makeEntryKey` and its hash, conversions other than of TTLs and relationships,
  ClusterStaticEntry manifests, PEM and JSON encoding, metrics, logging.

## Plan

1. `makeEntryKey` and `parseSelectors` as algorithms over bounded inputs.
2. ClusterStaticEntry manifests as a source of `EntryReconciler`.
3. Two instances of `SharedServer` with different prefixes on one server.
