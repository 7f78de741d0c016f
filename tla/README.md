# A TLA+ model of the GitOpsSet controller

The controller turns a `GitOpsSet` (a list of generators and a list of
templates) into Kubernetes resources, and keeps those resources, and the status
of the set, in step with the set and with the sources the generators read. This
directory models it in TLA+, checks small instances with TLC and proves with
TLAPS what must hold of every instance. Source paths are relative to `src/`.

## The system

| component | code | state it keeps | operations | hard part |
|---|---|---|---|---|
| reconciler | `controllers/gitopsset_controller.go` | nothing of its own: a copy of the set, the entries, the references to prune, for the length of a reconciliation | `Reconcile`, `renderAndReconcile`, `removeResourceRefs`, `finalize`, `patchStatus` | every call to the API server may fail or race with users; reads of sets are cached |
| status, conditions | `api/v1alpha1/conditions.go`, `gitopsset_types.go` | Ready condition, observed generation, handled request, inventory | `SetGitOpsSetReadiness` | must describe the generation that was rendered |
| inventory | `api/v1alpha1/inventory.go` | references (identity, API version) | `ResourceRefFromObject`, `unstructuredFromResourceRef` | the only memory of what was created |
| watches and indexes | `SetupWithManager`, the map functions and the indexers of the same file | indexes of the cache | which sets an event enqueues | two informers that run apart; index and generator must agree |
| renderer | `controllers/templates/renderer.go` | none | `Render`, `repeat`, `renderTemplateParams` | order, indexes, the labels and the namespace |
| matrix generator | `pkg/generators/matrix/matrix.go` | none | `generate`, `cartesian`, `nextIndex`, `singleElement`, `Interval` | an odometer over several slices; empty slices; overriding keys |
| other generators | `pkg/generators/*` | none | `Generate`, `Interval` | artifacts that are not there yet; polling |
| repository parser | `pkg/parser`, `pkg/generators/gitrepository`, `ocirepository` | a temporary directory | fetch an archive, parse files or directories | clean-up on every way out; the archive may go between two reads |
| setup | `pkg/setup/generators.go` | the map of enabled generators | `GetGenerators`, `ValidateEnabledGenerators` | the matrix must see the enabled ones only |
| command line | `pkg/cmd` | what has been rendered | render the sets of a file with the cluster, without it, or from directories | nothing may be written of a file that fails |
| manager | `main.go` | none | flags, wiring | restarts |

The reconciler is driven by a work queue. Events of sets (filtered by
generation or by the reconcile annotation), events of sources (through indexes
of the cache), errors, and intervals of polling generators put a set in the
queue; one worker takes it out, reads the set through the cache, renders it and
calls the API server for each resource. What it learns reaches the set only
through two version-checked Updates (the finalizer) and one merge patch without
a version (the status).

What makes each part correct:

- reconciler: nothing it did not create is touched; what it created is recorded,
  pruned and finalized; a set goes away clean; Ready tells the truth; every
  failure is retried until the cluster is what the set renders; deletions and
  reconcile requests complete.
- watches: a set whose rendering read a source that has changed since is in the
  queue or about to be.
- generators: a call returns what its source had at one moment of it, or an error;
  a source that changes, a read that fails or an archive that has gone is never
  taken for an empty source, since the reconciler would prune for it.
- command: a file is printed whole or not because of a generator.
- renderer and generators: the rendering is the one the elements and the
  templates define, in order; a generator that has nothing yields nothing; a
  generator that is not enabled is an error; intervals are the least of those
  asked for.

## Modules

`GitOpsSetReconciler.tla` models the reconcile loop, call by call.

| variable | stands for |
|---|---|
| `obj` | the `GitOpsSet`s on the API server, with resource version, generation, finalizer, deletion mark, annotation and status |
| `watch`, `cache` | the versions the informer has yet to receive and the ones it holds; `r.Client.Get` of a set reads `cache` |
| `data` | what the generators of a set find now |
| `cluster` | resources on the API server: owner and contents; read and written directly, since unstructured reads are not cached |
| `queue`, `timer` | the work queue and the sets with a pending `RequeueAfter` |
| `job` | the local variables and the program counter of the one worker |
| `stale`, `faults`, `userOps` | counters for the bounds `MaxStale`, `MaxFaults`, `MaxUserOps` |

One action is the code between two calls to the API server: `Begin` (the reads
and early returns of `Reconcile`), `AddFinalizer`, `FinalizeOne` and
`RemoveFinalizer` (`finalize`), `Render`, then for each resource `GetExisting`,
`PatchResource` and `CreateResource`, then `EndApply`, `PruneOne`, `EndPrune`,
and for a reference that does not parse back `GetUnreadable`, `PruneUnreadable` and
`FinalizeUnreadable`, and last `PatchStatus`, with the second read of the cache in `patchStatus` and the
return value of `Reconcile` in `AfterStatus`. A call is done, refused, or done
with its answer lost (`Outcomes`). `templates.Render` is the constant
`Rendering`, a function of the spec and of what the sources hold.

What the abstraction leaves out of this module, and why it is sound:

- The generation goes on counting when a name is used again. On the server it
  starts again at 1, but then the uid differs, and it is the pair that tells
  incarnations apart.
- An inventory keeps an identity as a string, and `unstructuredFromResourceRef` takes it
  apart again. The constant `Unreadable` is the identities for which it cannot: names that
  hold the separator `_`, which those of roles may. Such a resource can be created and
  recorded, but is not kept by the next reconciliation
  (`gitopsset_controller.go:253-257`), and ends the pass of `removeResourceRefs` (324-327).
- Making a reference (246-250) and the text of a log message (275-278, 283-285, 328-330) fail
  for no unstructured object with a name and a kind, so these errors are left out.
- A resource is an owner and a value. Two references of the same identity and
  another version name the same resource, as on the API server.
- The list the informer makes after a restart is up to date (`Crash` sets
  `cache` to `obj`); staleness after it comes from later writes.
- A failing impersonation client is the one fault of `ClientFailure`, whether
  the account comes from the spec or from the default.
- A user who makes a set named as one that is still there fails, and is no step.

`GitOpsSetReconcilerInvariants.tla` holds the strengthenings the proofs rest on,
`GitOpsSetReconcilerProofs.tla`, `OwnershipProofs.tla` and `ReadyProofs.tla`
the theorems, each building on the one before, and
`MCGitOpsSetReconciler.tla` the instances for TLC. Operators under a comment "Mutation" are used by no action:
each is a plausible error in the definition that follows it, and shows that a
property depends on that definition.

`WatchTriggers.tla` models what brings a set to the queue: `SetupWithManager`, the
map functions, the indexers and the intervals, with a reconciliation reduced to
the reads of its generators, one by one.

| variable | stands for |
|---|---|
| `sets`, `sources`, `clusters` | the caches of the informers: specs of sets, what each source holds, labels of clusters; `r.List` with an index reads `sets` |
| `events` | changes the informers have seen and whose handlers have yet to run |
| `queue`, `timer` | the work queue, and the interval after which a set is put in it again |
| `job`, `seen` | the reconciliation in progress with what it has read, and what the last rendering of each set has read |
| `ops` | the changes and restarts so far, for the bound `MaxOps` |

The handlers of the informers run apart: `Handle` takes any event that is pending,
and uses the index as it is then. `Indexed` is what the indexers give for a source,
`Matched` what `matchCluster` gives for a cluster, `Interval` what `calculateInterval`
gives. A reconciliation is `Begin`, a `Read` for each generator (`ReadFails`,
`ReadWaits`), and `Finish`. Calls to the API server are left to the other module.
A restart (`Restart`) forgets the queue, the timers and the events, and every set
is listed again.

`MatrixGenerator.tla` models `pkg/generators/matrix/matrix.go`: `Ask` is one round of
the loop of `generate`, `BeginProduct`, `Combine` and `EndProduct` are `cartesian`,
`NextIndex` is `nextIndex`, and `Gather` and `SingleElement` are `singleElement`.
`Renderer.tla` EXTENDS it with `controllers/templates/renderer.go`.

| variable | stands for |
|---|---|
| `nested`, `generated` | the loop of `generate`: the generators to come, and the ones that returned something |
| `slices`, `indexes`, `results` | the variables of `cartesian`; a result is kept as the indexes it was merged at |
| `generators`, `params`, `template`, `index`, `rendered` | the loops of `Render`: generators and elements to come, the next template, `index` and `rendered` |
| `stage`, `phase` | where `Render` and `Generate` of the matrix are |

An element is a function from keys to values. A template is a record of the key it
is repeated over and of one key it refers to, either of which may be none; a
resource is a record of everything it is rendered from, so that two resources are
equal when the program has rendered them from the same things. Maps are shared as
in Go: a merge writes into the map of the first slice that has the key, and results
already made see it (`Merged`, `Element`). This is how mergo is used here and it is
marked external.

`SetRendering.tla` is the abstract specification of rendering: one step, whose
outcome is an error or the list of resources that the elements and the templates
define, with the elements of a matrix given as the set of its combinations in
order, each once. It knows no loop, index or shared map, and says nothing of
`ElementIndex`: code and documentation disagree on it (see below), so `Outcome`
takes it off the resources (`Bare`). `Renderer` implements it
under the mapping `outcome <- Outcome`, checked as the property `RendersAsPromised` and
proved in `RendererProofs.tla`, for matrices whose generators have no map under the same
key (`NoneShared`). `MCRenderer` has TLC evaluate this assumption.

`SourceGenerators.tla` models one call of `Generate` of each generator but the matrix,
with `pkg/parser`, one action for each thing that is read or asked for. `SourceData.tla`
holds what is read and how an answer, an archive or a list is taken apart.
`GenerateCommand.tla` EXTENDS it with `renderGitOpsSet` of `pkg/cmd/command.go`, and, for
comparison, with what the controller does of the same.

| variable | stands for |
|---|---|
| `world` | what the sources hold: the artifact a repository names and the archives the source controller serves, a ConfigMap, clusters, an image, Secrets, pull requests, the answer of an API, a local directory |
| `reader`, `fetcher` | the client and the archive fetcher that the flags choose: the real client, the empty fake one or that of local directories; the fetcher of the controller, the one through the API server's proxy, or the one that copies a directory |
| `call` | the local variables of `Generate` and the parser: artifact, unpacked tree, items to come, elements and exclusions so far, the Secret that was read, and the outcome |
| `temp`, `kept` | temporary directories that are there, and those whose removal failed |
| `moments` | history: what the client has seen since the call began |
| `mode`, `file` | the flags (with `enabledGenerators`), and the documents of the file; the controller is the mode with `command` false |
| `stage`, `todo`, `generated`, `answered`, `written` | where the command is, the generators to come, the elements so far, how many calls have returned, how much has been written |
| `changes`, `faults` | counters for the bounds `MaxChanges`, `MaxFaults` |

`Seen(w)` is what the client shows of a world: the fake client has nothing, and the local
one lists a repository for each directory and fails to list clusters. `Unpacked` is what a
fetcher gets for the artifact that the object named: a later revision may be there, and an
archive that is no longer served is an error. `Archived` says what the source
controller does meanwhile: it stores an archive before it names it and drops old ones.
A path is a name with the entries a pattern matches, files among them, or is
`malformed`, for which `filepath.Glob` fails; an excluded path is only cleaned, and never
fails. `Listing` gives the order of `filepath.Glob`. Elements are kept as what they are made of.

`GeneratorContract.tla` is the abstract specification: a call returns what is promised of
its source at one moment since it began (`Promised`, given for each kind of generator in
one expression), and an error only when that is what is promised, when something was
refused (`disturbed`), or when the source changed meanwhile. Of directories it promises
directories only, and an error for a pattern that is malformed. Secrets are read before what
they open, so they may come from another moment (`Met`). `SourceGenerators` implements it
under the mapping of the instance `Promise` (the world as the client sees it, the
generator of the call, its outcome once it is done), checked as `HonoursContract` and
proved in `ContractProofs.tla`, which builds on `GenerateCommandProofs.tla`. What this proof
and that of rendering need of sequences is in `SequenceLemmas.tla`. The contract
has operators of its own for what is filtered out of a list; `SelectionsAgree` says that
they choose what the ones of the model do, and `MCGenerateCommand` has TLC evaluate it.

## Runs

| run | instance | shows |
|---|---|---|
| `stale_faulty` | one set, four resources of which one was there before, one is also handled by users and one has a name that does not parse back; all faults, restarts; 2 stale reads, 2 faults, 3 user steps | `TypeOK`, `ForeignUntouched`, `WorkIsGuarded`, `PruneSparesRendered`, `FinalizeRemovesRecorded`, `StatusAdvances`, and the inductive invariant `IndInv` of the proofs |
| `fresh_two_sets` | two sets that want the same two resources, renderings that fail and that wait; no fault, 4 user steps | `OwnedIsRecorded`, `GoneLeavesNothing`, `FailureKeepsInventory` |
| `fresh_versions` | one set, fair, two API versions, a resource rendered twice, renderings that are empty or wait for an artifact; two faults that a retry repairs, 4 user steps | `ReadyIsTruthful`, `SettledIsClean`, `Converges` |
| `live_faulty` | one set, fair; one stale read, one fault or restart, 3 user steps | `DeletionCompletes`, `RequestsAreHandled` |
| `prune_failure` | one refused Delete | `SettledIsClean` is violated |
| `stale_read` | one stale read | `OwnedIsRecorded` is violated |
| `crash_leak` | one restart | `GoneLeavesNothing` is violated |
| `unreadable_name` | one set, a resource whose name does not parse back, no fault, fresh reads | `GoneLeavesNothing` is violated |
| `triggers` | two sets in two namespaces, three sources and a cluster; five specs with generators of several kinds, in a matrix or not, two that poll, one whose generator is not enabled; 3 changes or restarts | `TypeOK`, `NothingMissed`, `PolledAreDue`, `SetsCatchUp` |
| `triggers_clusters` | a cluster generator with an empty selector | `NothingMissed` is violated |
| `templates` | 712 specs: lists, and matrices of one to three nested generators with equal, overriding, empty, failing and named elements; no template to three of them | `TypeOK`, `IndexesInRange`, `IndexesAdvance`, `RendersAsPromised`, `RenderingEnds` |
| `sources` | the 17 generators of `MCGenerators`, one with malformed paths (one of them excluded), alone and two sets of them in a file with a blank document or one of another kind between; five settings of the flags; 22 worlds to begin with, 2 changes, 2 faults | `TypeOK`, `NoTempLeft`, `OutputIsWhole`, `HonoursContract` |

The bounds. Every behaviour of interest needs a creation, one or two changes of
the set or of its source, and a deletion, so 3 to 5 steps of users; one fault at
each possible place and one more during its retry; one stale read to start from
an old copy and one more to patch from another. Two sets are enough for
conflicts, as a resource has one owner; two or three resources give a rendering
that keeps one, drops one and adds one. `CHECK_DEADLOCK FALSE` is given because
users stop at their bound and the controller may then have nothing to do.

What the properties depend on. `OwnedIsRecorded`, `GoneLeavesNothing`,
`SettledIsClean` and `ReadyIsTruthful` hold with reads that are up to date and
with the faults that a retry repairs (a refused read, create or patch, a lost
answer to a patch, a failing client). The violation runs add the one thing that
breaks them: a stale read, a refused delete, a restart, a name that does not parse back. A lost answer to a
Create breaks them in the same way as a restart. `RequestsAreHandled` and
`DeletionCompletes` leave out one fault, a refused status patch: when the set
waits for an artifact the failure is logged and nothing is queued
(`gitopsset_controller.go:177-180`). `DeletionCompletes` also fails for an inventory with
a reference that does not parse back, which ends every pass of `finalize`; its run has
none. `PruneSparesRendered` is about resources, not references: it holds with every
fault, stale read and unreadable name where templates leave the API versions of
resources as they are, and its run has one version; where one changes it does not hold
(see below), and `fresh_versions` shows that a retry brings the resource back.
`HonoursContract` is checked for patterns that match directories only: the contract promises
directories, and the code takes files for them (see below).

Three changes are enough for the watches to go wrong: one while a rendering reads,
one that changes what the handler of the first finds in the index, and a restart
or one more. The specs of `templates` combine five nested generators and five lists
with four lists of templates, up to matrices of three, the first size at which an
index in the middle starts again and the first one goes on.

A call of a generator reads at most three things one after another, so two changes
and two faults reach every place between them, and the removal of the directory after
an error as well. Pages have two pull requests, and no world has more: what a third
would do is told below. Two revisions of a repository are enough to read the object at one
and the archive at another, or to lose the first.

Fairness. `FairSpec` of the reconciler assumes that the informer delivers, that timers fire and
that the worker goes on (weak fairness: each stays possible until it happens),
and that the queue serves every set in it (`SF` of `Begin(s)`: the work queue is
first in, first out, while taking another set disables it in between). Nothing
is assumed of users, of sources or of restarts. `Converges`, `DeletionCompletes` and
`RequestsAreHandled` are checked under it. `FairSpec` of `WatchTriggers` assumes
the same of handlers, of timers, of the worker, and of the queue. `Spec` of `Renderer`
has `WF_vars(Next)`: it is a function that runs to its end, and nothing it calls
waits for ever (a server that does not answer would be an exception: the HTTP client of
`pkg/generators/apiclient` has no timeout).

## What the runs found

1. A reference that should have been pruned is forgotten when its Delete fails
   (`prune_failure`): `renderAndReconcile` returns the rendered entries as the
   inventory whether or not the removal of the others succeeded.
2. One stale read can write an old inventory back (`stale_read`): the patch of
   the status is computed between two cached copies.
3. A restart between a Create and the patch of the status leaves a resource no
   inventory names, and a deletion of the set then leaves it for ever
   (`crash_leak`).
4. A set whose cluster generator has an empty selector is rendered from every
   cluster and is not rendered again when one changes (`triggers_clusters`): the
   documentation says that it generates nothing, `Generate` lists them all, and
   `selectorMatchesCluster` follows the documentation. `docs/README.md:1053` and the test at
   `pkg/generators/cluster/cluster_test.go:38` are on the side of `Generate`: they have every
   cluster where no selector is given, which the code cannot tell from an empty one.
5. A resource whose name does not parse back from its reference is created and then lost
   (`unreadable_name`): the second reconciliation neither keeps nor deletes it, and a set
   deleted after that leaves it. Deleted before that, the set is never finalized.

Some things are modelled, or were met while modelling, and differ from what one would
expect, but have no run of their own.

- A template that moves a resource to another API version has it deleted by the
  reconciliation that renders it: references hold the version, so the new one is not found
  in the inventory, creating it fails because the resource is there, and the old one is
  pruned (`gitopsset_controller.go:299`), though `docs/README.md:100` says that
  resources are looked for by name. Only the retry makes it again. The theorem `PruneSafe`
  names it as an assumption (`FixedVersions`); `ReadyIsTruthful`, `SettledIsClean` and
  `Converges` hold with it, and `fresh_versions` checks them so.
- `ElementIndex` counts pairs of an element and a template (`renderer.go:56`, `RenderTemplate`
  of `Renderer`), while `docs/README.md:95` speaks of the index of the element. `SetRendering`
  promises neither.
- A pattern for directories gives an element for each file it matches
  (`repository_parser.go:101`), where `docs/README.md:246` and `:358` speak of directories. `Glob`
  has it as the code does and the contract as the documentation does; the theorem
  `PromiseIsKept` names it as an assumption (`MatchesDirectories`).
- An API client whose certificates cannot be read makes its request without them: `Generate`
  logs the error of `createTLSConfig` (`api_client.go:79-84`) and goes on with the authorities of
  the system, though `docs/README.md:1007` says that the request is made with the custom CA. The
  theorem `PromiseIsKept` names it as an assumption.
- A spec that has an ImagePolicy next to a matrix with another: the `continue` at
  `gitopsset_controller.go:665` leaves the second out of the index. The theorem
  `NothingMissedSafe` names it as an assumption.
- A matrix whose generators have a map under the same key: results share it. The theorem
  `RenderingIsPromised` names it as an assumption (`NoneShared`).
- Only the first page of 20 pull requests is read (`pull_requests.go:130`); the comment
  above it says so.
- The fetchers of the command verify no digest (the TODO at `pkg/cmd/fetcher.go:64`),
  while the one of the controller does.
- With `--repository-root` and access to the cluster, archives come from the local
  directory and objects from the cluster (`FetcherOf`, `ReaderOf`); no instance has that
  mode, as the text of the flag ties it to `--disable-cluster-access`.
- The command does not check the names of `--enabled-generators`, as the controller does, and
  a document of another kind ends it with a panic (`command.go:168`); the model has the
  end of it as `failed`.

## Proofs

`GitOpsSetReconcilerProofs.tla`, checked by tlapm for every value of the constants
that the named assumptions of `GitOpsSetReconciler` allow (finite or infinite sets of
names, any rendering, any faults, any bounds):

| theorem | states | rests on |
|---|---|---|
| `TypeCorrect` | `Spec => []TypeOK` | `TypeInv`: the entries of a job are finite, so that their count is a number, and a resource is at hand while one is patched or created |
| `ForeignSafe` | `Spec => []ForeignUntouched` | `ForeignInv`: no inventory, wherever a copy of it is, and no step in progress names a resource that was there before |
| `WorkSafe` | `Spec => []WorkIsGuarded` | `VersionInv`, `GuardInv` |
| `FinalizeSafe` | `Spec => FinalizeRemovesRecorded` | `VersionInv`, `GuardInv`, `FinalizeInv` |

`WorkIsGuarded` is not inductive: the worker starts from a cached copy, and the
set could have gone since. `VersionInv` orders the copies: the worker's is no
newer than the cache, the cache no newer than the server, and a copy with the
server's version is the server's. A worker that succeeds in removing the
finalizer held the newest version, so the cache holds it too and nothing is on its
way (`RemovalIsKnown`); hence no copy is left that looks alive (`GuardInv`), and no
later reconciliation can start from one. `FinalizeInv` adds that what a pass of
`finalize` has deleted stays deleted as long as it runs, as this worker is the
only one that creates resources of the set. Every invariant of these is checked by TLC as
part of `IndInv`. The proofs have one lemma per group of actions, and the steps
that leave the state of an invariant alone share one lemma.

`OwnershipProofs.tla` and `ReadyProofs.tla` go on from there:

| theorem | states | rests on |
|---|---|---|
| `StatusSafe` | `Spec => StatusAdvances` | `StatusInv` |
| `IndInvSafe` | `Spec => []IndInv` | all the strengthenings that hold under every fault |
| `OwnedSafe` | `Fresh => (Spec => []OwnedIsRecorded)` | `OwnedInv` |
| `GoneSafe` | `Fresh => (Spec => []GoneLeavesNothing)` | `OwnedInv`, `GuardInv` |
| `FailureSafe` | `Fresh => (Spec => FailureKeepsInventory)` | `OwnedInv` |
| `ReadySafe` | `Fresh => (Spec => []ReadyIsTruthful)` | `RenderedInv`, `GenerationInv` |
| `PruneSafe` | `FixedVersions => (Spec => PruneSparesRendered)` | `AppliedInv`: what was recorded, rendered and can be read is among the entries once its turn has come, or is still to come; `RecordInv`: every copy of every inventory names only what some spec renders |
| `SettledSafe` | `Fresh /\ Alone => (Spec => []SettledIsClean)` | `SettledInv`, and all of the above |

`StatusAdvances` holds although the status is patched from a copy that may be old and with
no check of its version. The reason is that of the copies that work can start from (those
that look alive), each later one is ahead of each earlier one in its generation and its
request, that the copy of the worker is behind all of them, and that what the status
already answers to is in all of them (`StatusInv`): the worker cannot write a number that is
less than the one it finds. A set that has gone leaves no copy that looks alive, by `GuardInv`.

`PruneSafe` is about what is deleted, not about references. `FixedVersions` says that no
template changes the API version of a resource; then a reference that is pruned and one
that was rendered, of the same resource, are one, and `AppliedInv` has it kept, or unread, in which
case nothing is deleted by it.

`Fresh` is an assumption on the constants: no stale read, no restart, no failing Delete, no
status patch that is refused, no Create whose answer is lost, no name that does not parse back. The violation runs show that
the properties fail without it. Under `Fresh` the copy has the inventory of the set
(`OwnedInv`), and what the set owns is, at each place of a reconciliation, among what is
recorded, what has just been applied, and what is still to be pruned. `RenderedInv` needs
no `Fresh`: what is at hand is what was rendered of the copy's spec, the entries are of it,
and all of it is among them unless something failed. `GenerationInv` ties the copy's spec to
that of the set: a change of the spec changes the generation, so a status with the set's
generation is about the set's spec.

`SettledSafe` is the safety half of convergence: when nothing will send the worker to a set
again (no request is queued, due or on its way to the cache) the cluster already is what
the set renders for its sources as they are. `Alone` says what else this takes. There is
one set: a finalization that is retried deletes again what it has deleted, which may be
another set's by then (the hazard at `gitopsset_controller.go:447`). No rendering names a
resource users write, since nothing watches resources. A rendering that names one twice gives
it one contents, as otherwise the first patch is undone by the second. And a rendering that
waits for an artifact is of no set whose sources are only polled: the branch for artifacts
returns without asking to be called again (`gitopsset_controller.go:167-181`), so a set with
both would not see what it polls. The invariant, `SettledInv`, has five parts.

- `CopiesInv`, which needs neither assumption: no copy, in the cache or on its way, is of a later
  generation than the set, and one of the same generation has the same spec, suspension
  and mark. This is what lets the filter of generations drop updates.
- `HeldInv`: what the inventory names is on the cluster and the set's, with one version of
  each resource, at each place of a reconciliation; so the patch is of an existing resource, and
  pruning an old version does not take the new one away unseen.
- `DoneInv`: unless something failed, each resource at hand has been written as rendered, or is
  still to be, and nothing has written it since.
- `CurrentInv`: work that nothing will follow is on the newest generation, and on what the
  sources hold now. A change of either during the work leaves a request.
- `QuietInv`, which is about an idle worker and is the property itself, for sets that are not
  polled; a polled one is never quiet.

`WatchTriggersProofs.tla` proves, for any specs, sources and clusters:

| theorem | states | rests on |
|---|---|---|
| `TriggersTypeCorrect` | `Spec => []TypeOK` | `LeastInterval`: intervals have a least one, which is a number |
| `NothingMissedSafe` | `Covered => (Spec => []NothingMissed)` | `TypeOK`, and `SourcesAreWatched`: every source a spec can read is one whose event enqueues the set |
| `PolledSafe` | `Spec => []PolledAreDue` | `DueInTime`: the rendering under way is of the spec as it is, unless the set is on its way to the queue again; `DueIsLeast` |

`NothingMissed` is itself inductive once types are known: a set that was rendered
from something that has changed since is in the queue, in progress with the
generator still to be read, or named by an event whose handler has yet to run. The
proof of each action shows that the one who takes a reason away (a handler, the
worker) leaves another. `Covered` is the assumption that no selector is empty and no
generator has both an ImagePolicy and a matrix with one: the two specs for which
index and generator disagree.

`RendererProofs.tla` proves, for any specs that the schema allows, with lists of any
length (`SetsAssumption`: an element is a map whose keys tell the types of their values, and
what is put under the name of a generator is a map, so no list):

| theorem | states | rests on |
|---|---|---|
| `RendererTypeCorrect` | `Spec => []TypeOK` | nothing else: `TypeOK` is inductive |
| `IndexesSafe` | `Spec => []IndexesInRange` | `TypeOK`; `NextIndexLast`: which index goes on; `MergedShape`, `PrefixedShape`: merging and naming leave the lengths of slices alone |
| `IndexesGoOn` | `Spec => IndexesAdvance` | the same |
| `RenderingIsPromised` | `NoneShared => (Spec => RendersAsPromised)` | `TypeOK`, `SoFar` |

`IndexesSafe` needs that no generator without elements is combined, which is part of
`TypeOK` and what line 145 of `matrix.go` is for. That the loop ends follows from
`IndexesGoOn` and `IndexesSafe` by an argument on finite sets of indexes; as a
liveness property it is left to TLC (`RenderingEnds`).

`RenderingIsPromised` is the refinement of the abstract specification of rendering: the
loops of `Render`, `generate`, `cartesian` and `nextIndex` have no outcome but the one that
`SetRendering` defines without them. `SoFar` says, at each place, that what is done is the
promise up to there; it has four parts.

- `Renders`: the generators called are the first of the set and none of them failed.
- `RendersMatrix`, inside a matrix: what is collected is the nested generators so far that
  have elements, in order (`Collects`), and the results are the combinations before the
  present indexes, each where it comes first (`Makes`, `Made`).
- `Goes`: the elements to come are those of the promise from some number on.
- `Gave`: what is rendered, but for the indexes, is what the promise has of the elements and
  templates before.

The induction over a product of any number of slices of any length is that of the loop:
`nextIndex` gives the next vector in the order of `Precedes` (`NextIsIndexing`,
`ProductGoesOn`), and at the end none is left (`ProductEnds`). That the result is
*the* list of the promise, which picks the n-th first combination by counting the ones before,
is `ProductIs`. The abstract lists are flattened, which no step of the code does at once:
`Flattened` is what the first of the lists give, and each step adds one (`SequenceLemmas`). `NoneShared` leaves out the two cases where the code gives something else:
generators with a map under the same key, of which mergo writes into one, so that results
already made change, and `singleElement` with a generator named `Matrix` beside one without
a name. Errors are part of the promise, so a set fails exactly if a generator or a template
of it must.

`GenerateCommandProofs.tla` proves, for any generators, worlds, files and settings:

| theorem | states | rests on |
|---|---|---|
| `CommandTypeCorrect` | `Spec => []TypeOK` | `CallInv`: the fields and the places of a call |
| `NoTempIsLeft` | `Spec => []NoTempLeft` | `DirInv`: there is a directory more than could not be removed exactly while the parser is between making it and its deferred removal |
| `NothingIsHalfRendered` | `Spec => []OutputIsWhole` | `AnswerInv`: the generators that have answered and those still to be called are all of the file's |

`ContractProofs.tla` proves the refinement of the abstract specification of generators, for
any generators, pages, files, repositories and any changes of them:

| theorem | states | rests on |
|---|---|---|
| `PromiseIsKept` | `Faithful => (Spec => HonoursContract)` | `ContractInv`; `FlattenSeq` adds the last list to the others (`FlattensOnce`, `FlattensSome`), by the least number for which it would not |

A step maps to `Call`, to `Take`, to a return that the contract allows, to a change of a
source, or to a stutter. `ContractInv` says what a call knows at each place: that what it has
read was so at one of the moments since it began. `MomentsInv` counts the present one among
these; `LoadedInv` says that an archive which can still be fetched was served when the object
named it; `ParserInv` that the elements so far are those of the first items, of one revision;
`CredentialsInv` that the Secret was so at some moment; `ReturnInv` that the outcome is promised
by one, or is an error that a fault or a change accounts for. `Faithful` is an assumption on the
constants, in five parts:

- `MatchesDirectories`: the patterns of generators of directories match no file of a repository.
  Where they do the contract fails.
- `--repository-root` comes with the command and with no access to the cluster. The text of
  the flag says so (`pkg/cmd/command.go:51`); with both, a directory on disk would be taken
  for the artifact of a cluster.
- A generator of an API with a Secret asks a server that only its certificates vouch for.
  For other servers the contract fails, when the certificates cannot be read.
- `SelectionsAgree`: the filters of the two specifications, which are written differently,
  choose the same of a list (of directories where the patterns match nothing else and
  are well formed). It includes that the pull requests fit a page. `SelectSeq` is
  a primitive of which tlapm knows nothing, so this part is evaluated by TLC on the instances.
- `Nothing`, the mark of a call that has not returned, is none of the outcomes.

Only model-checked: everything under fairness (`Converges`, `DeletionCompletes`,
`RequestsAreHandled`, `SetsCatchUp`, `RenderingEnds`), which the prover cannot treat;
`SelectionsAgree`.

## Not modelled

- `main.go`: flags and wiring. A restart is the `Crash` of the reconciler and the `Restart` of
  `WatchTriggers`.
- Metrics, events and logs: they change nothing the controller reads.
- `zz_generated.deepcopy.go`: generated. Where sharing instead of copying shows, in the merge
  of maps, it is modelled (`Merged`).
- The text of resources: labels, namespaces, delimiters and the functions of templates; the
  decoding of the command's file and the printing of what it renders; the form of
  identities (but for whether they parse back), names and messages.
- Schemes and the check of the names of enabled generators (`pkg/setup`): they run once, at the
  start.
- More pull requests than fit on a page.

`makeImpersonationClient` is a call that may fail. The actual API server, the informers, the work
queue, the git providers and the source controller are not part of the repository: they
are modelled from how the controller uses them and marked external in `PROJECT.json`.

## Plan

Done: the reconciler, the watches, the renderer with the matrix, the generators with the
parser and the command, each with proofs and, for rendering and generating, an abstract
specification that is proved to be implemented. Next:

1. An abstract specification of ownership across finalizations (what a set owns, when another
   set may own it), for the hazard at `gitopsset_controller.go:447`.

New properties go into the runs there are where their instances serve, so that the
number of runs stays small.
