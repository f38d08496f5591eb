# Verification of tazuna

tazuna bootstraps a Kubernetes cluster from a declaration, `tazuna.yaml`: a list
of manifests (kustomize directories, helmfiles, GenesisSecrets, OCI artifacts)
with tags, tests and `dependsOn` edges. `tazuna apply` renders them and applies
the objects layer by layer, records content hashes in state ConfigMaps and, with
`--sync`, applies only what differs from the recorded state. This directory holds
TLA+ models of that program, TLC configurations that check them and TLAPS proofs.

## 1. Inventory

| Component | State it keeps | Operations | Hard behaviour |
|---|---|---|---|
| Dependency graph (`pkg/runner/dag.go`, `pkg/validator/depends_on.go`) | in-degrees, layers | `ResolveDependencyOrder`, `ValidateDependsOn` | two implementations of one algorithm, repeated entries, duplicate and missing names |
| Runner, apply (`pkg/runner/apply.go`) | layer, goroutines, error channel, `pendingSaves` | `Apply`, `ApplyToCluster`, `ApplyManifest`, `SyncManifest`, `saveManifestState` | goroutines of a layer, errors collected after `wg.Wait`, cancellation, crash, save order |
| Runner, destroy (`pkg/runner/destroy.go`) | none | `Destroy`, `DestroyResourcesOnCluster` | state is not involved |
| State (`pkg/state`) | one ConfigMap per manifest: key -> hash | `Get`, `Save`, `ComputeDiff`, `EnsureNamespace`, key encoding | lost replies, two processes, escaping |
| Resource (`pkg/resource`) | none (live objects) | `CreateOrUpdateForObject`, `DeleteObject`, `WaitForReady`, `WaitForDeletion` | delete-then-create of Jobs and Pods, polling, timeouts |
| Managers (`pkg/manager`) | cached cluster capabilities | `Apply`, `Destroy`, `Build` | releases rendered in parallel, capabilities discovered once, secrets merged from several sources |
| ORAS manager (`pkg/manager/oras`) | cache directory shared by processes: blobs, refs | `Pull`, `Extract`, delegate | concurrent pulls, `--no-cache` removal, rename races |
| Secret providers, 1Password (`pkg/genesissecret`, `pkg/op`) | item cache shared by goroutines | `GetVaultItem`, `Fetch` | one fetch per item, eviction of failures |
| Test plugins (`pkg/testplugin`) | history of results | `Start` | polling without timeout, consecutive counts |
| State drift / diff / list, status, plan (`pkg/runner`) | none | read-only reports | same keys as apply must be computed |
| Validators, check --fix (`pkg/validator`) | none | field, name and reference checks | agreement with the runner |
| Context and version guards (`pkg/kubecontext`, `cmd/internal`) | none | regex and semver matching | pure |
| Hint files (`pkg/hint`), CLI (`cmd`) | none | validation, flags, output | I/O |

Interaction. The command loads and validates `tazuna.yaml`, checks the kube
context and calls `Runner.Apply`. The runner expands includes, validates names,
resolves layers, and per layer starts one goroutine per manifest selected by
`--tags`; a goroutine calls its manager (which calls the resource package), the
state store and the test plugins. Goroutines share the state store, the
1Password client, the ORAS cache, `errCh` and `pendingSaves`. SIGINT/SIGTERM
cancels the context they all use.

What makes each part correct: the graph is resolved exactly when it is acyclic,
and layers respect it; nothing runs before its dependencies or after a failed
layer, no goroutine outlives the run, and every run ends; the state tells the
truth about the cluster as far as tazuna itself is concerned, `--sync` may skip
what the state says is there, `--prune` deletes only what is no longer declared;
success means that the declaration is deployed and recorded; what an operator
was shown before a run is what the run does. Shared caches (1Password items,
cluster capabilities, OCI artifacts) give all their users the same whole value and
remember no failure that a later call could repair.

## 2. Modules

| Module | Models | Variables |
|---|---|---|
| `ManifestGraph` | a manifest as the runner sees it, `idxByName`, in-degrees; `Acyclic`, an algorithm-free reference | none (operators) |
| `DependencyOrder` | `ResolveDependencyOrder`, one action per branch and loop iteration | `manifests`, `inDegree`, `layers`, `resolution` |
| `ValidateDependsOn` | `ValidateDependsOn`, one action per visited manifest | `manifests`, `degree`, `cursor`, `progressed`, `processed`, `verdict` |
| `DagSchedule` | abstract: what `dependsOn` promises | `waitsFor`, `started`, `finished`, `failed` |
| `LayeredApply` | one `tazuna apply`; extends `DependencyOrder`, implements `DagSchedule` | `run` (the runner), `gor` (goroutines), `errCh`, `layer`, `pendingSaves`, `stored`, `touched`, `ctxDone`; `applied` and `tested` are history |
| `ManifestSync` | several runs of `apply`, `apply --sync [--prune] [--atomic]` and `destroy` against one cluster | `desired`, `live`, `stored`; per manifest `pc`, `old`, `todo`, `entries`; `pending`; history `unsaved`, `excused`, `drifted`, `installed` |
| `Reports` | `plan`, `state diff` and `state drift`, read by an operator around the runs; extends `ManifestSync` | those of `ManifestSync`, and `foretold` |
| `AtomicStore` | abstract: what the runner models take a state store to be | `data`, `base`, `status` |
| `StateStore` | `ConfigMapStateStore`, API call by API call, several processes; implements `AtomicStore` | API server: `namespace`, `revision`, `version`, `data`; process: `nsMu`, `nsEnsured`; goroutine: `pc`, `base`, `existing`; the rest is history |
| `StateKeyCodec` | `encodeStateKey`, `decodeStateKey`, the data of a ConfigMap, `StateKey.String`, `ParseStateKey` | none (operators) |
| `StateStorage` | the store together with the form in which it stores | those of `StateStore` |
| `OpItemCache` | `CommandClient.GetVaultItem`: the memoised items of 1Password | `cache`, `entry`, `call`, `vault` |
| `HelmfileRender` | parallel rendering of releases and the shared discovery of capabilities | `caps`, `rel` |
| `ManagerLayer` | the genesissecret and helmfile managers of one process; composes `OpItemCache` and `HelmfileRender` | theirs, and `manifest`, `command`, `pc`, `step`, `items`, `live`, `envfile` |
| `OrasPuller` | `cachingPuller.Pull`, the extractor, the hand-over to the delegate; goroutines and processes share the cache directory | file system: `refs`, `blobs`, `tmp`; `registry`; pull: `spec`, `pc`, `dig`, `victim`; process: `opts`; history `served`, `seen`, `scarred` |
| `ResourceRollout` | the objects of one manifest in the cluster: order, apply or re-create, wait, test | `objects`, `live`, `pc`, `idx`, `wait`, `test`, `history`, `expired`, `interrupted`, `others`; history `applied`, `wasReady`, `streak` |
| `DependencyOrder_proof` (also of `ValidateDependsOn`), `LayeredApply_proof`, `StateStore_proof` (also of `StateStorage`), `ManifestSync_proof` (also of `Reports`), `ManagerLayer_proof` (also of `OpItemCache` and `HelmfileRender`), `OrasPuller_proof`, `ResourceRollout_proof` | theorems and proofs | |
| `SequenceLemmas` | what `FlattenSeq` and other recursive functions compute for every length | |
| `MC*` | instances for TLC; `MCDependencyOrder` also composes check and runner on one file | |

How they fit together. Several levels are used for a run on purpose.
`LayeredApply` keeps all of the runner's control (option guards, validation,
layers, goroutines, channel, wait group, bulk save, tests, cancellation, crash)
and abstracts what a manifest renders to. `ManifestSync` keeps the objects, hashes,
diff and state and reduces the control to "layers in order, manifests of a layer
interleaved". `ManagerLayer` and `OrasPuller` look inside the step in which a
goroutine of a layer renders, `ResourceRollout` inside the steps in which it
applies, waits and tests, `StateStore` inside the step in which it saves.

Correspondence for `LayeredApply`. `CheckApply` and `RejectSpec` are `Apply` up to
the call of `ApplyToCluster`; `ResolveLayers` runs the actions of
`DependencyOrder`; `StartLayer`, `LayerFailed` and `LayersDone` are the loop over
layers, with `Quiet` for `wg.Wait`; `SavePending`, `SavePendingFails` and
`SavesDone` the bulk save of `--atomic`; `SpecTestsPass` and `SpecTestsFail`
`spec.tests`. A goroutine goes `apply -> test -> save -> done` in `ApplyManifest`
and `build -> apply -> save -> test -> done` (or `build -> test -> done` without a
difference) in `SyncManifest`; `StepFails` is every error return, followed by the
send on `errCh`. A failed save may have been carried out (`LostReplies`).
`Interrupt` is the first SIGINT or SIGTERM. Further signals have no effect:
`signal.NotifyContext` goes on catching them until `stop` is called, which
`main` does only on return, whatever the comment at `main.go:25` says about a
second signal. `Kill` is SIGKILL or a crash.

Correspondence for `ManifestSync`. `Begin` is `Build`, `store.Get` and
`ComputeDiff`; the entries are then processed in the order of their diff types
(`NextEntries`) by `ApplyEntry`, `PruneEntry` or `KeepRemoved`, any of which may
fail without effect, after its effect, or, for a Job or Pod, between delete and
create (`EntryFails`); then `NotReady` or a save. For a plain apply `Begin` renders
and all objects are applied. `destroy` deletes every rendered object and leaves
the state alone. The environment edits a declaration, removes a manifest or
changes a live object.

Correspondence for `Reports`. `Plan`, `StateDiff` and `StateDrift` compare Build with
the cluster, Build with the state and the state with the cluster, as the commands
do; all skip or always list genesissecret as the code does. `ReportThenRun` is an
operator who reads them and starts a run. `Defaulted` are kinds that the API server
completes, whose live hash is never the rendered one; `Delegated` are oras
manifests whose delegate has a `defaultNamespace`, which `getDefaultNamespace`
does not see.

Correspondence for `StateStore`. A goroutine of `SyncManifest` first reads its
state (`Get`); a goroutine without `--sync` does not. `Save` is `Lock` (the mutex
and the flag), `NamespaceFound`, `NamespaceMissing` and `CreateNamespace` (the
calls of `EnsureNamespace` under the mutex), `GetExisting`, and an Update or a
Create that the API server carries out (`WriteConfigMap`) or refuses
(`WriteRefused`: the version is not the one read, the object exists, or it or the
namespace is gone). `GetFails`, `EnsureFails`, `GetExistingFails` and `WriteFails`
are other errors; an error of a write may hide a write that was carried out. The
goroutine that finds the flag set locks and unlocks in one step. An entry is
named after the goroutine it comes from. The environment kills processes and
deletes the namespace; `stale` collects the goroutines whose read is overtaken.
The reader's `Get` may be older than the one in `Save`: entries that another
process saves between the two are replaced without a conflict, in the code, in
`StateStore` and in `AtomicStore` alike. `StateKeyCodec` is what `StateStore` leaves
out of a write and a read; `StateStorage` puts the two together. A string is the
sequence of its bytes, and the classes of bytes the code tells apart are constants:
those stored as they are (`Plain`), those that are escaped, with their two digits
(`Hex`), and `/`. The instance for TLC has some of every class and all that may look
like an escape; `CodecAssumption` is what the code fixes about them.

Correspondence for `OpItemCache`, `HelmfileRender` and `ManagerLayer`.
`GetVaultItem` is the lookup under `itemMu`, `OnceDo` entering the entry's
`sync.Once` (which waits while another caller is inside), `FetchVaultItem` the
command, `ReturnItem` and `ReturnError` the return with or without eviction.
`StartRelease` takes a slot of the errgroup, `ClusterCapabilities`, `ServerVersion`
and `ServerGroups` are the discovery under `discoveryOnce` (each call may fail, a
failure and a partial list of groups are kept), `RenderRelease` and `ReleaseFails`
the rendering. In `ManagerLayer` a manifest fetches its needs in order
(`CallOp`, `OpAnswers`, `OpAnswersShort` when a field is missing, `OpFails`,
`ReadEnvFile`), merges them with static values (`Collected`, `Merge`), and then
handles its outputs (`HandleOutput`, `OutputFails`) or renders its releases
(`Render`, `Rendered`). `apply` runs manifests in parallel, `build` and `destroy` one
after the other. The environment changes the item and the envfile.

Correspondence for `OrasPuller`. `Lookup` and `CheckCache` are the part of `Pull`
before the registry is asked, `Resolve`, `OpenForRemoval`, `RemoveFile`, `RemoveDir`,
`Recheck` and `Fetch` the resolution, the `RemoveAll` of `--no-cache` and the second
look into the cache, `ExtractEntry`, `ExtractFails`, `ExtractEnds` and `Cleanup` the
extraction into a temporary directory with its limits, `Rename`,
`AfterFailedRename` and `WriteRefMapping` the publication; `PrepareDelegate` and
`DelegateReturns` are the manager around it. `PullFails` is every other error. The
environment moves tags and kills processes.

Correspondence for `ResourceRollout`. `ConvertManifestsToObjects` orders the
decoded documents. `ServerSideApply`, or `GetImmutable`, `DeleteImmutable`,
`WaitForDeletion` and `CreateImmutable` for Jobs and Pods, are
`CreateOrUpdateForObject`; `WaitForReady` with `IsReady` the wait; `Poll` is one round
of a test plugin, with `Run`, `Cut` and `Verdict`; `Expire` and `GiveUp` the deadlines.
Controllers write status, deletions linger and complete, other clients create and
delete objects, and the run is interrupted.

Abstractions. The order inside a layer is not kept (it only decides the order in
which goroutines are spawned). Hashes are contents: SHA-256 collisions do not
happen. `matchesTags` and name validation are kept; field validation and
includes are one nondeterministic rejection. `destroy` takes manifests in any
order, one at a time. In `LayeredApply` and `ManifestSync` a run is the only tazuna
process; `StateStore` and `OrasPuller` have several. A secret's value is its source
and the source's content; a chart is known by how it is located; a tar entry by its
kind, where its name and link lead, and its size; a CEL expression is true, false or
does not compile.

Each model also contains the operators named as mutants in `PROJECT.json`. Each
stands directly before the definition it is a faulty version of and is used by
nothing else: replacing the definition by it must violate a property, which
shows that the property can fail.

## 3. Runs

| Run | Configuration | Result |
|---|---|---|
| `dependency_order` | check, then runner: all 4096 graphs on four manifests; all lists of up to two and many of three with missing, duplicate and unknown names, self references and repeated entries | passes, liveness included |
| `layered_apply` | eight lists (fork, chain, join, cycle, unknown reference, no `dependsOn`, missing name, duplicate name), all eight option combinations, with and without a tag filter, all kinds of tests | passes, liveness included |
| `manifest_sync` | one manifest, two objects (one a Job), two contents, three runs of any kind, two edits, one outside change | passes |
| `reports` | two manifests in two layers, one always-sync, one object with server-side defaults; two runs (`apply`, `--sync`, `--sync --prune --atomic`), one edit or removal, one outside change | passes |
| `state_store` | three processes with four goroutines, three of them (one per process) saving the same state, two processes with `--sync`, one deletion of the namespace; the codec on all strings of up to four bytes over nine | passes, liveness included |
| `oras_puller` | two processes with one pull each, any flags, one tag and two kinds of references, three archives (at the limit, too large, too many entries), one retag, one crash | passes, liveness included |
| `managers` | two genesissecrets and a helmfile with two releases, two slots, one item used by all, an envfile, an invalid output, a Secret that two manifests fill; `apply`, `build`, `destroy`; one rotation | passes, liveness included |
| `rollout` | five manifests (a custom resource before its definition, a Pod in a List, each kind of workload, a Job) and four tests, two interventions of other clients | passes, liveness included |
| `sync_revert` | `--sync`, two edits | violated: `ApplyConverges` |
| `prune_version` | as `manifest_sync`, two apiVersions | violated: `PruneSparesDeclared` |
| `oras_namespace` | one `apply` of an oras manifest whose delegate has a `defaultNamespace` | violated: `ApplyLeavesNoDiff` |
| `no_cache_race` | two manifests of one layer with the same artifact and `--no-cache` | violated: `DelegateReadsWholeArtifact` |

The properties are stated and explained at the end of each module. The violated
ones state what the documentation promises; `PROJECT.json` quotes the sentences:

* A `--sync` that fails after changing an object, followed by a revert of the
  edit, is never repaired by `--sync`: old declaration and old state agree.
  `StateTruthful` and `SuccessMeansDeployed` say precisely when the state may be
  trusted, with this case excused. Objects that `state diff` does list are always
  put right, also in an excused manifest (`AnnouncedIsDone`); the others only
  `state drift` shows.
* A change of apiVersion makes `--prune` delete the object just applied. With one
  apiVersion per object there is nothing to check: the guard of the deletion says it.
* The state of an oras manifest written by `apply` has other keys than those
  `state diff` and `--sync` look for.
* `--no-cache` removes an artifact that somebody is reading. `CacheIsWhole` says
  that nothing else than such a removal ever damages the cache.

Known gaps. The following behaviours differ from the documentation or may
surprise; the models contain them, and the passing properties are stated so as to
allow them and no more.

* The bulk save of `--atomic` is a loop that can stop half-way, so a failed run may
  have updated some states (`apply.go:199`; `apply.md:41` and `cmd/apply.go:154` say
  none). `WritesAreJustified` only says that it starts after everything else.
* `--sync` saves before the tests run (`apply.go:420`; `apply.md:23-25` and
  `architecture.md:152` say after); `StoredAfterApply` asks for tests only without
  `--sync`.
* Objects of a manifest removed from `tazuna.yaml` are not pruned (`apply.go:155`;
  `destroy-runbook.md:95-96` says they are).
* `destroy` deletes rendered objects that the state does not list
  (`destroy-runbook.md:88` says it does not). It also keeps the state, so a later
  `--sync` without edits applies nothing; `excused` holds this case.
* A `--prune` that is interrupted between deleting an object and saving leaves its
  entry; a later `--sync` without `--prune` keeps it, and from then on `state drift`
  reports the object as missing although nobody touched it (`DriftMeansTouched`
  excuses exactly this).
* Nothing refuses two genesissecrets that fill the same key of one Secret; the last
  writer wins, in any order (`SecretsAsDeclared` is proved without such a pair).
* `state drift` reports objects with server-side defaults for ever; `plan` shows no
  deletions by `--prune` and no re-creation of an unchanged Job or Pod.
* Readiness ignores `observedGeneration`; server-side apply succeeds on an object
  that is being deleted; the `Delete` of a re-creation fails if the object has just
  disappeared; a custom resource fails until its definition is established.
* A transient failure of the discovery makes the whole run render with helm's
  default capabilities. Two reads of an envfile may see two versions of it.
* A crash during the `RemoveAll` of `--no-cache` leaves part of an artifact in the
  cache, which later pulls accept. Tags that differ only in `/`, `:` or `@` share a
  file under `refs/`.

Bounds. Four manifests give every cycle length up to four, diamonds and layers
of up to three; both algorithms treat manifests only through their edges, and
the proofs cover all lists. Three manifests in `layered_apply` give a layer of
two goroutines before or after another layer, which is where the barrier, the
channel and the abort matter. Three runs and two edits are needed for "install,
fail after an edit, revert", two runs and one edit for the other findings and for
"installed, removed, pruned". Three writers of one state give a lost race against
an acknowledged and against an unacknowledged write; two goroutines of one process
share mutex and flag. Strings of four bytes contain every escape sequence and
everything that looks like one. Two pulls of two processes give a hit, a miss, a
lost rename and a removal under a hit; the archives lie at and above the limits.
Three callers of one item give a failure seen by two callers while a third has
already made a new entry, which is the case the eviction must not harm. Counts of
2 and 3 make the history be cut for either verdict. `MaxManifests` only bounds the
index over which fairness is stated.

Fairness. Weak fairness of the runner and of each goroutine: Go schedules
runnable goroutines, API calls, commands and registry calls return, and waiting
for readiness or deletion is bounded (300 s, 5 min). A test without
`timeoutSeconds` is exempt as long as the context is not cancelled: it may poll for
ever, and `RunTerminates` is stated for runs without such tests. In
`ResourceRollout` polls, deadlines and the exits they lead to are each fair (`select`
chooses at random when both are ready); controllers, finalizers and other clients
are not, so an object may never become ready or never go away. No fairness is
assumed of signals, crashes or changes from outside. In `StateStore` each goroutine
is treated weakly fairly (`WF` suffices for the mutex because a process has finitely
many savers, each locking once); the same holds for the `sync.Once` and the
errgroup in `ManagerLayer`. `ManifestSync` and `Reports` have safety properties only
and no fairness.

## 4. Proofs

All theorems hold for every value of the constants that satisfies the named
assumptions: any set of names, lists of manifests, options, number of runs,
processes, goroutines, edits or outside changes. Every invariant of a passing run is a
theorem, and so are the action properties and both refinements. Each inductive
invariant was checked by TLC, on the run of its module, before it was proved.

One note on the prover. The SMT translation of tlapm 1.4.5 has an axiom for `Len`
that is too strong (a function whose domain is 1..n is said to be the only thing of
length n, and any other function to have none). No proof here depends on it: every
module was also checked with the axiom restricted to sequences, and the few leaves
that had used more were rewritten.

`DependencyOrder_proof` starts with lemmas on in-degrees. An in-degree counts the
`dependsOn` entries that name a manifest outside the placed set (`ReleaseInDegrees`
shows that `Release` keeps this, repeated entries included); a deadlocked set stays
out of the placed set for ever (`DeadlocksStayUnplaced`), and if nothing is ready the
manifests that are left are a deadlocked set (`StuckMeansDeadlock`). The inductive
invariant says what `inDegree` counts relative to `Placed`, that layers are disjoint
and closed under dependencies, and that each manifest of a later layer has a
dependency in the layer before. From it follow `OrderTypeCorrect`, `LayersCorrect`,
`LayersEarliest` and `ResolutionCorrect`.

The second part is about `ValidateDependsOn`: the same counting invariant with the
set of manifests marked -1 and `processed` as its cardinality; `progressed = FALSE` at the end of
a pass means that no visited manifest was ready. `CheckCorrect` follows. Together
with `ResolutionCorrect`: check and runner accept the same lists.

`LayeredApply_proof`: `IInv` is the conjunction of `TypeOK`, the invariant of
`DependencyOrder`, and

* `RunPhases`: what has happened at each value of `run`;
* `Barrier`: layers up to `layer` were started, earlier ones are done, later
  ones idle;
* `Goroutines`: `errCh` counts failed goroutines, and what each step implies
  for `applied`, `tested` and `touched`;
* `Saves`: where `stored` and `pendingSaves` come from.

None of the safety properties is inductive alone: `DependenciesFinished` needs
the barrier and `LayersRespectDependsOn`; `WritesAreJustified` and
`SuccessIsComplete` need `Saves`. `TypeCorrect`, `OrderRespected`,
`WritesJustified`, `SuccessComplete`, `ReturnIsFinal` and `Refinement` follow from
`RunInvariant`.

`ManifestSync_proof` is about any number of runs of any kind on any manifests, with
edits, outside changes, failures and crashes between any two steps. None of the
properties is inductive: that the state tells the truth after a save depends on what
the run put into `entries`, that depends on which objects it has already handled and
which it skipped, and skipping was right because the state it started from told the
truth. `SyncIInv` therefore says, next to `StateTruthful` itself,

* `RenderedOnly`: keys, entries and history of a manifest concern its own objects;
* `Control`: which manifests take part in a run and which wait for the bulk save;
* `RunProgress`: in the middle of a run, what is still in `todo` differs from the state
  that was read (`WorkList`), every other key has the entry that will be saved and an
  object as that entry says (`Handled`), and after the save it is `Recorded`;
* `Tracked`: where an installed object is known while its run has not saved yet.

`StateTellsTheTruth`, `SuccessDeploys`, `SuccessRecords` and `InstalledIsTracked`
follow. The reports are read before a run, so `ReportsIInv` carries what was foretold
through it, in both directions: what the run has still to do was announced
(`PlanShown`, `DiffShown`), and what was announced is still to be done or done
(`ShownIsDone`; `ManifestStepSettles` shows that no step of a goroutine drops a key).
From these and `SyncIInv` follow `RunDoesWhatWasShown`, `RunDoesAllThatWasShown` and
`DriftIsNoFalseAlarm`. Two hypotheses, both stated at
the top of the module: `OwnObjects`, no two manifests render the same object (the
code does not check this; with a common object, one manifest overwrites what the
state of the other says), and `OneVersion`, an object is rendered with one apiVersion: with two,
`--prune` does delete what was just applied, which is the finding of
`prune_version`.

`StateStore_proof`: `IInv` adds to `TypeOK` that whoever is inside
`EnsureNamespace` holds the mutex of its process while the flag is unset
(`Exclusion`), that `ensures` counts what the flag says (`Counting`), that versions
come from the revision counter (`Revisions`), and that a stale goroutine holds a
version that is not the current one (`Staleness`; a write produces a version larger
than any that was read, `WriteKeepsInvariant`). `StoreTypeCorrect`,
`NamespaceEnsuredOnce` and `NoBlindOverwrite` follow. `StoreRefinement` maps `Get` to
a read, the accepted write to the save, every error to a failure that wrote
everything or nothing, and hides the other calls.

`SavesFailForAReason` needs `RefusalsExplained`: whoever is past the check has a
namespace until somebody deletes it, and the version Save has read is current until
another saver writes, so a refused Create or Update means that one of the two
happened.

The last part is about what is written. `StatesSurvive` says that no save loses or
renames an entry, and rests on four facts about strings, names and states of any
size.

* `DecodeUndoesEncode`: the first two bytes of a code tell which of three forms it has
  (`EncodedBytes`), so the scan of the decoder stands at the start of the next code
  after each one (`EncodePlaces`); going backwards over the codes, what it collects
  from there on is the rest of the string. No data key has a character that a ConfigMap refuses.
* `MetadataKeyIsReserved`: `_metadata` is the code of no string, since its second byte
  is neither `_` nor `x`.
* `EntriesSurvive`: so the data built from a set of entries are read back as that set.
* `ParseUndoesString`: no field of a key has a `/`, hence the slashes of the string are
  where two fields meet (`SlashesAreCuts`), cutting there gives the fields back
  (`SplitUndoesJoin`), and five or six parts tell whether there was a namespace.

The induction over a string is done by hand: `SequenceLemmas` takes the least number
for which a claim would fail (`LeastNatural`, `UpTo`, `DownTo`), shows that the
recursive function exists (a `CHOOSE` defines it) and only then unfolds it one step.
It does this once for the `FlattenSeq` of the community modules: the result is the
concatenation of the parts (`FlattenConcats`), part by part at its place
(`ConcatsPlaces`), with their members and no others (`FlattenMembers`).

`ManagerLayer_proof` has four parts.

* The item cache: the properties follow from `OnlyErrorsEvicted` (an entry that has
  not failed is still the one its item is looked up with), which needs `OneFetcher`
  (one caller runs the command of an entry, nobody returns before) and
  `CachedUnderItsItem`. With them two successful entries of an item are the same
  (`ItemCacheCorrect`).
* The discovery: `RenderedAsFound` says that a release is rendered only when the
  discovery is over and with what it found.
* Every step of a manager is a step or a stutter of the cache and of the discovery
  (`CallsClient`, `StepsReleases`), so both invariants carry over to the composition
  (`ManagersShareItems`, `ReleasesShareCapabilities`).
* The Secrets: after n needs every key has a value of the last of them that
  produces it (`CollectedUpTo`), after all needs and the static values the
  collection is `Complete`, and after n outputs the Secrets have it (`Written`). A
  value from 1Password must stay one the cache has (`Genuine`), although entries are
  added and evicted meanwhile; `EntriesPersist` gives that from the invariant of the
  cache, and `CallMatches` that an answer belongs to the need it was asked for. The
  goroutines of a layer write Secrets in any order; that `Written` survives the
  steps of the others (`WrittenKept`) needs the hypothesis `OwnKeys`: two manifests may
  fill one Secret, but not the same key of it. `SecretsHoldDeclaredValues` follows.

`OrasPuller_proof` has two parts.

* What a reference resolves to: the history of a tag contains what the registry
  says, what `refs/` remembers and what any pull has seen (`HistoryComplete`), and
  from `check` on the digest of a pull is rightful (`DigestKnown`).
  `PullResultServed` assumes `OwnRefKeys`, that no two tags share a file under
  `refs/`: with `sanitizeRef` they can (see the known gaps).
* The cache directory: while a pull extracts, what it has written so far is a prefix
  of the archive whose entries are all allowed and whose sizes add up to the bytes
  counted (`ExtractionSound`); a directory that some pull has begun to remove is `scarred`
  (`RemovalsScar`). The rename turns a finished extraction into a digest directory,
  so `CachedArtifactsAreWhole`, for any number of pulls at once and any crash, and
  `PullTypeCorrect`, which holds the limits. The size of an archive is the set of
  its possible running totals (`RunningTotals`) rather than a recursive sum, which
  the provers could not reason about.

`ResourceRollout_proof`: `ObjectsConverted` says, for any documents, that
`ConvertManifestsToObjects` returns exactly what they declare, items of Lists
included, with the definitions of custom resources first. `DefinitionsFirst` adds what
the run has done with them: the history variable `applied` holds the objects it has
applied or created, no object before the one it is at is missing there, and all are
there when it waits, tests or ends well (`AppliedUpToHere`). So no custom resource is
applied before all definitions of its manifest have been. `WaitSawReadiness` follows
from `ReadinessObserved`, that the history variable misses no moment at which an
object is ready; `RecreatedObjectsAreFresh` from what the deletion, the wait for it
and the creation leave at each `pc`. `VerdictIsAboutTheCluster` is about every way a
test can end: it passes with exactly the poll that completes the successes in a row,
fails with the poll that completes the failures that end it, with no number of them
if the count is 0, and otherwise only when its deadline or context has ended. The
proof compares the cut history with the whole one: the tail that is kept always shows
how long the present streak is, up to the larger of the two counts
(`HistoryShowsStreak`), and a test that is still polling has reached neither count
(`Undecided`). `CutKeepsTail` and `TailGrows` say
that cutting and appending keep this, `CountedIsStreak` that counting from the end
gives the streak; they are lemmas about histories and counts of any length.

Assumptions used: `StoreAssumption` (each saver has a process and a state),
`NamesAssumption` (the empty name is no name), `InputsAssumption`,
`OptionsAssumption`, `RotationsAssumption`, `HelmfileAssumption`,
`ManifestsAssumption`, `NoneAssumption` (no value is `None`), `OrasAssumption`,
`ConstantsAssumption` (among others, a genesissecret renders no Job or Pod),
`ReportsAssumption`, `RolloutAssumption` (documents and items of Lists are sequences
of documents with a kind) and `CodecAssumption` (the classes of bytes are disjoint;
different bytes have different digits; names have no `/`, which Kubernetes forbids;
`_metadata` does not go on with `x`; see `configmap.go:24-56`). TLC evaluates all of
them.

Only model-checked: liveness (`BothTerminate`, `RunTerminates`, `InterruptEndsRun`,
`SavesEnd`, `PullsEndClean`, `ManagersEnd`, `RolloutEnds`), which needs fairness and
ENABLED.

## 5. Not modelled, and plan

Not modelled: rendering by kustomize and helm, YAML parsing, output formatting,
tracing and the interactive prompt, which are library code or I/O; credentials of
registries; `status` and `state list`, which repeat or print what `state drift` and
the store give; field validation, name fixing, hint files, the context and version
guards and `secret-to-genesissecret`, which are sequential and stateless and whose
table tests reach every branch.

Next, in this order:

1. A refinement from `ResourceRollout` to the apply steps of `ManifestSync`, with a
   proof.
2. Several manifests with a common object, which state keys do not exclude: what
   remains of `StateTruthful` without `OwnObjects`.
3. The abstract store of `AtomicStore` used in the proofs of `ManifestSync`, so that
   a stale `base` of two concurrent runs is part of them.
